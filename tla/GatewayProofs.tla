--------------------------- MODULE GatewayProofs ---------------------------
(***************************************************************************)
(* Theorems about the gateway, for every number of connects, packets and   *)
(* timeouts, and about the byte stream of its GLIP link, for every set of  *)
(* packets and every number of links, datagrams and failures.              *)
(***************************************************************************)
EXTENDS Gateway, GlipLink, TLAPS

-----------------------------------------------------------------------------
(* Type correctness.                                                       *)

LEMMA MessageTypes ==
    /\ \A n \in {"I-CONNECT-DONE", "I-DISCONNECT-DONE", "I-SHUTDOWN-DONE"} :
          Done(n, 0) \in Status /\ Done(n, -1) \in Status
    /\ [type |-> "GW_REGISTER"] \in ToCtrl /\ [type |-> "GW_UNREGISTER"] \in ToCtrl
    /\ \A p \in Packet : [type |-> "D", id |-> p] \in ToCtrl
  BY DEF Done, Status, ToCtrl

(* The queue operations of the model stay within the type of the queue.    *)
LEMMA QueueTypes ==
    ASSUME NEW S, NEW q \in Seq(S)
    PROVE  /\ \A m \in S : Append(q, m) \in Seq(S)
           /\ q # <<>> => Tail(q) \in Seq(S) /\ Head(q) \in S
           /\ \A k \in 0 .. Len(q) : SubSeq(q, 1, k) \in Seq(S)
           /\ <<>> \in Seq(S)
  <1>1. \A k \in 0 .. Len(q) : SubSeq(q, 1, k) \in Seq(S)
    <2> SUFFICES ASSUME NEW k \in 0 .. Len(q)
                 PROVE  SubSeq(q, 1, k) \in Seq(S)
      OBVIOUS
    <2>1. \A i \in 1 .. k : q[i] \in S
      OBVIOUS
    <2> QED BY <2>1
  <1> QED BY <1>1

LEMMA InitType == Init => TypeOK
  <1> SUFFICES ASSUME Init PROVE TypeOK
    OBVIOUS
  <1>1. toctrl \in [Session -> Seq(ToCtrl)] /\ fromctrl \in [Session -> Seq(FromCtrl)]
    BY DEF Init
  <1>2. /\ to_io \in Seq(Cmd) /\ to_main \in Seq(Status) /\ devq \in Seq(Packet)
        /\ inhand \in Seq(Packet) /\ Len(inhand) <= 1 /\ fwd \in Seq(Packet)
    BY DEF Init
  <1>3. /\ connects \in 0 .. MaxConnects /\ stimeouts \in 0 .. MaxStatusTimeouts
        /\ sessions \in 0 .. MaxConnects /\ rtimeouts \in 0 .. MaxReplyTimeouts
        /\ nread \in 0 .. MaxFromDevice /\ nwrite \in 0 .. MaxToDevice
    BY GatewayAssumption DEF Init
  <1> QED
    BY <1>1, <1>2, <1>3 DEF Init, TypeOK, MainPc, WorkerPc, AbortReason

(* worker_main_send_status appends a command to the queue, or blocks.      *)
LEMMA SendType ==
    ASSUME TypeOK, NEW c \in Cmd, NEW next \in MainPc, SendToWorker(c, next)
    PROVE  to_io' \in Seq(Cmd) /\ mpc' \in MainPc
  <1>1. CASE wpc = "closed"
    BY <1>1 DEF TypeOK, SendToWorker, MainPc
  <1>2. CASE wpc # "closed"
    <2>1. to_io' = Append(to_io, c) /\ mpc' = next
      BY <1>2 DEF SendToWorker
    <2>2. Append(to_io, c) \in Seq(Cmd)
      BY DEF TypeOK
    <2> QED BY <2>1, <2>2
  <1> QED BY <1>1, <1>2

LEMMA DisconnectedType ==
    ASSUME TypeOK, Disconnected
    PROVE  mpc' \in MainPc /\ detected' \in BOOLEAN
  BY DEF TypeOK, Disconnected, MainPc

LEMMA CallType ==
    ASSUME TypeOK
    PROVE  MainCalls \/ osd_gateway_is_connected => TypeOK'
  <1> USE GatewayAssumption DEF TypeOK, rxVars, ioVars, ctrlVars
  <1>1. ASSUME osd_gateway_connect PROVE TypeOK'
    BY <1>1 DEF osd_gateway_connect, MainPc
  <1>2. ASSUME osd_gateway_disconnect PROVE TypeOK'
    BY <1>2 DEF osd_gateway_disconnect, MainPc
  <1>3. ASSUME osd_gateway_is_connected PROVE TypeOK'
    BY <1>3 DEF osd_gateway_is_connected, MainPc
  <1>4. ASSUME osd_gateway_free PROVE TypeOK'
    <2>1. to_io' \in Seq(Cmd) /\ mpc' \in MainPc
      BY <1>4, SendType DEF osd_gateway_free, MainPc, Cmd
    <2> QED BY <1>4, <2>1 DEF osd_gateway_free
  <1> QED BY <1>1, <1>2, <1>3, <1>4 DEF MainCalls

LEMMA DisconnectType ==
    ASSUME TypeOK
    PROVE  (disconnect_from_device \/ JoinTimesOut \/ disconnect_from_hostctrl
             \/ DisconnectReceived)
             => TypeOK'
  <1> USE DEF TypeOK, rxVars, ioVars, ctrlVars
  <1>1. ASSUME disconnect_from_device PROVE TypeOK'
    <2>1. CASE ~dev
      BY <1>1, <2>1, SMTT(40) DEF disconnect_from_device, MainPc
    <2>2. CASE dev
      <3>1. DeviceLeft
        BY <1>1, <2>2 DEF disconnect_from_device
      <3>2. UNCHANGED <<hc, then, connects, stimeouts, detected, to_io, to_main, devq,
                        nread, ioVars, fwd, abort, devup, ctrlVars>>
        BY <1>1 DEF disconnect_from_device
      <3>3. inhand' \in Seq(Packet) /\ Len(inhand') <= 1
        BY <3>1 DEF DeviceLeft
      <3> QED BY <3>1, <3>2, <3>3 DEF DeviceLeft, MainPc
    <2> QED BY <2>1, <2>2
  <1>2. ASSUME JoinTimesOut PROVE TypeOK'
    BY <1>2, SMTT(40) DEF JoinTimesOut, MainPc
  <1>3. ASSUME disconnect_from_hostctrl PROVE TypeOK'
    <2>1. /\ to_io' \in Seq(Cmd) /\ mpc' \in MainPc
          /\ hc' \in BOOLEAN /\ detected' \in BOOLEAN
      <3>1. CASE hc /\ running
        BY <1>3, <3>1, SendType DEF disconnect_from_hostctrl, MainPc, Cmd
      <3>2. CASE ~hc \/ ~running
        BY <1>3, <3>2, DisconnectedType DEF disconnect_from_hostctrl
      <3> QED BY <3>1, <3>2
    <2> QED BY <1>3, <2>1, SMTT(40) DEF disconnect_from_hostctrl
  <1>4. ASSUME DisconnectReceived PROVE TypeOK'
    <2>1. hc' \in BOOLEAN /\ to_main' \in Seq(Status)
      BY <1>4 DEF DisconnectReceived
    <2>2. mpc' \in MainPc /\ detected' \in BOOLEAN
      BY <1>4, DisconnectedType DEF DisconnectReceived
    <2> QED BY <1>4, <2>1, <2>2, SMTT(40) DEF DisconnectReceived
  <1> QED BY <1>1, <1>2, <1>3, <1>4

LEMMA ConnectType ==
    ASSUME TypeOK
    PROVE  (connect_to_hostctrl \/ ConnectReceived \/ connect_to_device \/ FreeReturns)
             => TypeOK'
  <1> USE DEF TypeOK, rxVars, ioVars, ctrlVars
  <1>1. ASSUME connect_to_hostctrl PROVE TypeOK'
    <2>1. to_io' \in Seq(Cmd) /\ mpc' \in MainPc
      BY <1>1, SendType DEF connect_to_hostctrl, MainPc, Cmd
    <2> QED BY <1>1, <2>1, SMTT(40) DEF connect_to_hostctrl
  <1>2. ASSUME ConnectReceived PROVE TypeOK'
    <2>1. hc' \in BOOLEAN /\ mpc' \in MainPc
      BY <1>2 DEF ConnectReceived, MainPc
    <2>2. to_main' \in Seq(Status)
      BY <1>2 DEF ConnectReceived
    <2> QED BY <1>2, <2>1, <2>2, SMTT(40) DEF ConnectReceived
  <1>3. ASSUME connect_to_device PROVE TypeOK'
    BY <1>3, SMTT(40) DEF connect_to_device, MainPc
  <1>4. ASSUME FreeReturns PROVE TypeOK'
    BY <1>4, SMTT(40) DEF FreeReturns, MainPc
  <1> QED BY <1>1, <1>2, <1>3, <1>4

LEMMA StatusTimeoutType ==
    ASSUME TypeOK, StatusTimesOut
    PROVE  TypeOK'
  <1>1. mpc' \in MainPc /\ detected' \in BOOLEAN
    BY DisconnectedType DEF StatusTimesOut, TypeOK, MainPc
  <1>2. stimeouts' \in 0 .. MaxStatusTimeouts
    BY GatewayAssumption DEF StatusTimesOut, TypeOK
  <1> QED BY <1>1, <1>2, SMTT(40) DEF StatusTimesOut, TypeOK, rxVars, ioVars, ctrlVars

LEMMA RxType ==
    ASSUME TypeOK, RxNext
    PROVE  TypeOK'
  <1> USE DEF TypeOK, callVars, ioVars, ctrlVars
  <1>1. CASE RxReads
    <2>1. /\ nread' \in 0 .. MaxFromDevice /\ rxpc' \in {"none", "read", "send", "ended"}
          /\ detected' \in BOOLEAN /\ inhand' \in Seq(Packet) /\ Len(inhand') <= 1
      <3>1. CASE devup
        <4>1. /\ nread' = nread + 1 /\ inhand' = <<nread + 1>> /\ rxpc' = "send"
              /\ detected' = detected /\ nread < MaxFromDevice
          BY <1>1, <3>1 DEF RxReads
        <4>2. nread' \in 0 .. MaxFromDevice /\ nread + 1 \in Packet
          BY <4>1, GatewayAssumption DEF Packet
        <4> QED BY <4>1, <4>2
      <3>2. CASE ~devup
        BY <1>1, <3>2 DEF RxReads
      <3> QED BY <3>1, <3>2
    <2> QED BY <1>1, <2>1, SMTT(40) DEF RxReads
  <1>2. CASE RxSends
    BY <1>2, SMTT(40) DEF RxSends
  <1>3. CASE RxCancelled
    BY <1>3, SMTT(40) DEF RxCancelled
  <1> QED BY <1>1, <1>2, <1>3 DEF RxNext

(* What goes to the controller, and what comes from it.                    *)
LEMMA ToCtrlType ==
    ASSUME TypeOK, NEW s, NEW m \in ToCtrl,
           toctrl' = [toctrl EXCEPT ![s] = Append(@, m)]
    PROVE  toctrl' \in [Session -> Seq(ToCtrl)]
  <1>1. \A q \in Seq(ToCtrl) : Append(q, m) \in Seq(ToCtrl)
    OBVIOUS
  <1> QED BY <1>1 DEF TypeOK

LEMMA FromCtrlType ==
    ASSUME TypeOK, NEW s
    PROVE  /\ [fromctrl EXCEPT ![s] = <<>>] \in [Session -> Seq(FromCtrl)]
           /\ fromctrl[s] # <<>> =>
                [fromctrl EXCEPT ![s] = Tail(@)] \in [Session -> Seq(FromCtrl)]
           /\ \A m \in FromCtrl :
                [fromctrl EXCEPT ![s] = Append(@, m)] \in [Session -> Seq(FromCtrl)]
  <1>1. \A q \in Seq(FromCtrl) :
           /\ q # <<>> => Tail(q) \in Seq(FromCtrl)
           /\ \A m \in FromCtrl : Append(q, m) \in Seq(FromCtrl)
    OBVIOUS
  <1>2. fromctrl \in [Session -> Seq(FromCtrl)]
    BY DEF TypeOK
  <1>3. [fromctrl EXCEPT ![s] = <<>>] \in [Session -> Seq(FromCtrl)]
    <2>1. <<>> \in Seq(FromCtrl)
      OBVIOUS
    <2> QED BY <1>2, <2>1
  <1>4. ASSUME fromctrl[s] # <<>>
        PROVE  [fromctrl EXCEPT ![s] = Tail(@)] \in [Session -> Seq(FromCtrl)]
    <2>1. s \in Session => Tail(fromctrl[s]) \in Seq(FromCtrl)
      BY <1>1, <1>2, <1>4
    <2> QED BY <1>2, <2>1
  <1>5. ASSUME NEW m \in FromCtrl
        PROVE  [fromctrl EXCEPT ![s] = Append(@, m)] \in [Session -> Seq(FromCtrl)]
    BY <1>1, <1>2
  <1> QED BY <1>3, <1>4, <1>5

LEMMA CloseType ==
    ASSUME TypeOK, CloseSocket
    PROVE  /\ hsock' \in Session \cup {0}
           /\ toctrl' \in [Session -> Seq(ToCtrl)]
           /\ fromctrl' \in [Session -> Seq(FromCtrl)]
  <1>1. PICK k \in 0 .. Len(toctrl[hsock]) :
           toctrl' = [toctrl EXCEPT ![hsock] = SubSeq(@, 1, k)]
    BY DEF CloseSocket
  <1>2. hsock \in Session => SubSeq(toctrl[hsock], 1, k) \in Seq(ToCtrl)
    BY QueueTypes DEF TypeOK
  <1>3. toctrl' \in [Session -> Seq(ToCtrl)]
    BY <1>1, <1>2 DEF TypeOK
  <1> QED BY <1>3, FromCtrlType DEF CloseSocket

LEMMA StartDisconnectType ==
    ASSUME TypeOK, NEW next \in WorkerPc, StartDisconnect(next)
    PROVE  /\ readers' \subseteq Session /\ wpc' \in WorkerPc /\ abort' \in AbortReason
           /\ toctrl' \in [Session -> Seq(ToCtrl)]
  <1>1. CASE hsock # 0
    <2>1. toctrl' \in [Session -> Seq(ToCtrl)]
      BY <1>1, ToCtrlType, MessageTypes DEF StartDisconnect
    <2> QED BY <1>1, <2>1 DEF StartDisconnect, TypeOK
  <1>2. CASE hsock = 0
    BY <1>2 DEF StartDisconnect, TypeOK, AbortReason
  <1> QED BY <1>1, <1>2

LEMMA SendMainType ==
    ASSUME TypeOK, NEW n \in {"I-CONNECT-DONE", "I-DISCONNECT-DONE", "I-SHUTDOWN-DONE"},
           NEW v \in {0, -1}, SendMain(Done(n, v))
    PROVE  to_main' \in Seq(Status)
  BY MessageTypes DEF SendMain, TypeOK

LEMMA EndDisconnectType ==
    ASSUME TypeOK, EndDisconnect
    PROVE  /\ hsock' \in Session \cup {0} /\ wpc' \in WorkerPc
           /\ toctrl' \in [Session -> Seq(ToCtrl)]
           /\ fromctrl' \in [Session -> Seq(FromCtrl)]
           /\ to_main' \in Seq(Status)
  <1>1. to_main' \in Seq(Status)
    BY SendMainType DEF EndDisconnect
  <1> QED BY <1>1, CloseType DEF EndDisconnect, WorkerPc

LEMMA WorkerConnectType ==
    ASSUME TypeOK, hostiothread_connect_to_hostctrl
    PROVE  TypeOK'
  <1>1. to_io' \in Seq(Cmd)
    BY DEF hostiothread_connect_to_hostctrl, FromMain, TypeOK
  <1>2. CASE /\ sessions < MaxConnects
             /\ sessions' = sessions + 1 /\ hsock' = sessions + 1
             /\ toctrl' = [toctrl EXCEPT ![sessions + 1] =
                              Append(@, [type |-> "GW_REGISTER"])]
             /\ wpc' = "register" /\ UNCHANGED to_main
    <2>1. sessions' \in 0 .. MaxConnects /\ hsock' \in Session \cup {0}
      BY <1>2, GatewayAssumption DEF Session, TypeOK
    <2>2. toctrl' \in [Session -> Seq(ToCtrl)] /\ wpc' \in WorkerPc
      BY <1>2, ToCtrlType, MessageTypes DEF WorkerPc
    <2>3. to_main' = to_main
      BY <1>2
    <2> QED BY <1>1, <2>1, <2>2, <2>3, SMTT(40)
            DEF hostiothread_connect_to_hostctrl, TypeOK, callVars, rxVars
  <1>3. CASE /\ hsock' = 0 /\ SendMain(Done("I-CONNECT-DONE", -1))
             /\ UNCHANGED <<sessions, toctrl, wpc>>
    <2>1. to_main' \in Seq(Status)
      BY <1>3, SendMainType
    <2> QED BY <1>1, <1>3, <2>1, SMTT(40)
            DEF hostiothread_connect_to_hostctrl, TypeOK, callVars, rxVars
  <1> QED BY <1>2, <1>3 DEF hostiothread_connect_to_hostctrl

LEMMA WorkerRegisterType ==
    ASSUME TypeOK, hostiothread_register_gw, hsock # 0
    PROVE  TypeOK'
  <1>1. to_main' \in Seq(Status) /\ wpc' \in WorkerPc
    BY SendMainType DEF hostiothread_register_gw, WorkerPc
  <1>2. hsock \in Session
    BY DEF hostiothread_register_gw, TypeOK
  <1>3. /\ hsock' \in Session \cup {0} /\ readers' \subseteq Session
        /\ toctrl' \in [Session -> Seq(ToCtrl)]
        /\ fromctrl' \in [Session -> Seq(FromCtrl)]
    <2>1. CASE Head(fromctrl[hsock]) = "ACK"
      BY <1>2, <2>1, FromCtrlType, ZenonT(60) DEF hostiothread_register_gw, TypeOK
    <2>2. CASE Head(fromctrl[hsock]) = "NACK"
      BY <2>2, CloseType DEF hostiothread_register_gw, TypeOK
    <2>3. Head(fromctrl[hsock]) = "ACK" \/ Head(fromctrl[hsock]) = "NACK"
      BY DEF hostiothread_register_gw
    <2> QED BY <2>1, <2>2, <2>3
  <1>4. UNCHANGED <<callVars, detected, to_io, rxVars, sessions, rtimeouts, fwd,
                    abort, devup, registered, nwrite>>
    BY DEF hostiothread_register_gw
  <1>5. registered' \in Session \cup {0}
    BY <1>4 DEF TypeOK
  <1> QED BY <1>1, <1>3, <1>4, <1>5, ZenonT(60) DEF TypeOK, callVars, rxVars

LEMMA WorkerDisconnectType ==
    ASSUME TypeOK
    PROVE  HandleDisconnect \/ hostiothread_unregister_gw => TypeOK'
  <1>1. ASSUME HandleDisconnect PROVE TypeOK'
    <2>1. to_io' \in Seq(Cmd)
      BY <1>1 DEF HandleDisconnect, FromMain, TypeOK
    <2>2. /\ readers' \subseteq Session /\ wpc' \in WorkerPc /\ abort' \in AbortReason
          /\ toctrl' \in [Session -> Seq(ToCtrl)]
      BY <1>1, StartDisconnectType DEF HandleDisconnect, WorkerPc
    <2> QED BY <1>1, <2>1, <2>2, SMTT(40) DEF HandleDisconnect, TypeOK, callVars, rxVars
  <1>2. ASSUME hostiothread_unregister_gw PROVE TypeOK'
    <2>1. UNCHANGED <<callVars, detected, to_io, rxVars, readers, sessions, rtimeouts,
                      fwd, devup, registered, nwrite>>
      BY <1>2 DEF hostiothread_unregister_gw
    <2>2. CASE abort' = "not_mgmt" /\ UNCHANGED <<hsock, toctrl, fromctrl, to_main, wpc>>
      BY <2>1, <2>2, SMTT(40) DEF TypeOK, callVars, rxVars, AbortReason
    <2>3. CASE EndDisconnect /\ UNCHANGED abort
      <3>1. /\ hsock' \in Session \cup {0} /\ wpc' \in WorkerPc
            /\ toctrl' \in [Session -> Seq(ToCtrl)]
            /\ fromctrl' \in [Session -> Seq(FromCtrl)]
            /\ to_main' \in Seq(Status)
        BY <2>3, EndDisconnectType
      <3> QED BY <2>1, <2>3, <3>1, ZenonT(60) DEF TypeOK, callVars, rxVars
    <2> QED BY <1>2, <2>2, <2>3 DEF hostiothread_unregister_gw
  <1> QED BY <1>1, <1>2

LEMMA WorkerEndType ==
    ASSUME TypeOK
    PROVE  (HandleShutdown \/ FlagDeviceLoss \/ hostiothread_destroy \/ WorkerExits)
             => TypeOK'
  <1> USE DEF TypeOK, callVars, rxVars, ctrlVars
  <1>1. ASSUME HandleShutdown PROVE TypeOK'
    <2>1. to_io' \in Seq(Cmd)
      BY <1>1 DEF HandleShutdown, FromMain
    <2> QED BY <1>1, <2>1, SMTT(40) DEF HandleShutdown, WorkerPc
  <1>2. ASSUME FlagDeviceLoss PROVE TypeOK'
    BY <1>2 DEF FlagDeviceLoss, WorkerPc
  <1>3. ASSUME hostiothread_destroy PROVE TypeOK'
    <2>1. to_main' \in Seq(Status) /\ to_io' \in Seq(Cmd) /\ devq' \in Seq(Packet)
      BY <1>3, SendMainType DEF hostiothread_destroy
    <2> QED BY <1>3, <2>1, SMTT(40) DEF hostiothread_destroy, WorkerPc
  <1>4. ASSUME WorkerExits PROVE TypeOK'
    BY <1>4, SMTT(40) DEF WorkerExits, WorkerPc
  <1> QED BY <1>1, <1>2, <1>3, <1>4

LEMMA ReplyTimeoutType ==
    ASSUME TypeOK, RegisterTimesOut \/ UnregisterTimesOut
    PROVE  TypeOK'
  <1>1. rtimeouts' \in 0 .. MaxReplyTimeouts
    BY GatewayAssumption, SMTT(40) DEF RegisterTimesOut, UnregisterTimesOut, TypeOK
  <1>2. UNCHANGED <<callVars, detected, to_io, rxVars, readers, sessions, fwd, abort,
                    devup, registered, nwrite>>
    BY DEF RegisterTimesOut, UnregisterTimesOut
  <1>3. /\ hsock' \in Session \cup {0} /\ wpc' \in WorkerPc
        /\ toctrl' \in [Session -> Seq(ToCtrl)]
        /\ fromctrl' \in [Session -> Seq(FromCtrl)]
        /\ to_main' \in Seq(Status)
    <2>1. CASE RegisterTimesOut
      BY <2>1, SendMainType, CloseType DEF RegisterTimesOut, WorkerPc
    <2>2. CASE UnregisterTimesOut
      BY <2>2, EndDisconnectType DEF UnregisterTimesOut
    <2> QED BY <2>1, <2>2
  <1> QED BY <1>1, <1>2, <1>3, ZenonT(60) DEF TypeOK, callVars, rxVars

LEMMA DataType ==
    ASSUME TypeOK
    PROVE  (\/ forward_devicerx_to_hostctrl
           \/ \E s \in Session : hostiothread_rcv_from_hostctrl(s))
             => TypeOK'
  <1>1. ASSUME forward_devicerx_to_hostctrl PROVE TypeOK'
    <2>1. devq' \in Seq(Packet) /\ Head(devq) \in Packet
      BY <1>1 DEF forward_devicerx_to_hostctrl, TypeOK
    <2>2. CASE hsock # 0
      <3>1. toctrl' \in [Session -> Seq(ToCtrl)]
        <4>1. [type |-> "D", id |-> Head(devq)] \in ToCtrl
          BY <2>1, MessageTypes
        <4>2. toctrl' = [toctrl EXCEPT ![hsock] =
                            Append(@, [type |-> "D", id |-> Head(devq)])]
          BY <1>1, <2>2 DEF forward_devicerx_to_hostctrl
        <4> QED BY <4>1, <4>2, ToCtrlType
      <3>2. fwd' = Append(fwd, Head(devq))
        BY <1>1, <2>2 DEF forward_devicerx_to_hostctrl
      <3>3. fwd' \in Seq(Packet)
        BY <2>1, <3>2 DEF TypeOK
      <3> QED BY <1>1, <2>1, <2>2, <3>1, <3>3, SMTT(40)
              DEF forward_devicerx_to_hostctrl, TypeOK, callVars, ioVars
    <2>3. CASE hsock = 0
      BY <1>1, <2>1, <2>3
         DEF forward_devicerx_to_hostctrl, AbortReason, TypeOK, callVars, ioVars
    <2> QED BY <2>2, <2>3
  <1>2. ASSUME NEW s \in Session, hostiothread_rcv_from_hostctrl(s)
        PROVE  TypeOK'
    <2>1. fromctrl' \in [Session -> Seq(FromCtrl)]
      BY <1>2, FromCtrlType DEF hostiothread_rcv_from_hostctrl
    <2>2. /\ readers' \subseteq Session /\ wpc' \in WorkerPc /\ abort' \in AbortReason
          /\ toctrl' \in [Session -> Seq(ToCtrl)]
      <3>1. CASE UNCHANGED <<readers, toctrl, wpc, abort>>
        BY <3>1 DEF TypeOK
      <3>2. CASE StartDisconnect("lost")
        BY <3>2, StartDisconnectType DEF WorkerPc
      <3> QED BY <1>2, <3>1, <3>2 DEF hostiothread_rcv_from_hostctrl
    <2> QED BY <1>2, <2>1, <2>2, SMTT(40)
            DEF hostiothread_rcv_from_hostctrl, TypeOK, callVars, rxVars
  <1> QED BY <1>1, <1>2

LEMMA ReplyType ==
    ASSUME TypeOK, NEW s, NEW m \in FromCtrl, Reply(s, m)
    PROVE  fromctrl' \in [Session -> Seq(FromCtrl)]
  BY FromCtrlType DEF Reply, TypeOK

LEMMA TakesType ==
    ASSUME TypeOK, NEW s \in Session, HostctrlTakes(s)
    PROVE  TypeOK'
  <1>1. toctrl' \in [Session -> Seq(ToCtrl)]
    BY DEF HostctrlTakes, TypeOK
  <1>2. fromctrl' \in [Session -> Seq(FromCtrl)]
    BY ReplyType DEF HostctrlTakes, FromCtrl, TypeOK
  <1>3. registered' \in Session \cup {0}
    BY DEF HostctrlTakes, TypeOK
  <1> QED BY <1>1, <1>2, <1>3, SMTT(40)
          DEF HostctrlTakes, TypeOK, callVars, rxVars, ioVars

LEMMA RoutesType ==
    ASSUME TypeOK, HostctrlRoutes
    PROVE  TypeOK'
  <1>1. fromctrl' \in [Session -> Seq(FromCtrl)]
    BY ReplyType DEF HostctrlRoutes, FromCtrl
  <1>2. nwrite' \in 0 .. MaxToDevice
    BY GatewayAssumption DEF HostctrlRoutes, TypeOK
  <1>3. UNCHANGED <<callVars, detected, to_io, to_main, rxVars, ioVars, fwd, abort,
                    devup, toctrl, registered>>
    BY DEF HostctrlRoutes
  <1>4. toctrl' \in [Session -> Seq(ToCtrl)] /\ registered' \in Session \cup {0}
    BY <1>3 DEF TypeOK
  <1> QED BY <1>1, <1>2, <1>3, <1>4, SMTT(40) DEF TypeOK, callVars, rxVars, ioVars

LEMMA DeviceType ==
    ASSUME TypeOK
    PROVE  DeviceLost \/ DeviceReturns => TypeOK'
  <1> USE DEF TypeOK, callVars, rxVars, ioVars, ctrlVars
  <1>1. ASSUME DeviceLost PROVE TypeOK'
    BY <1>1, ZenonT(60) DEF DeviceLost
  <1>2. ASSUME DeviceReturns PROVE TypeOK'
    BY <1>2, SMTT(40) DEF DeviceReturns
  <1> QED BY <1>1, <1>2

(* The worker blocks for an answer only on a socket it has opened; without *)
(* this the types alone are not inductive.                                 *)
WaitsOnSocket == wpc \in {"register", "unregister", "lost"} => hsock # 0

LEMMA NextType ==
    ASSUME TypeOK, WaitsOnSocket, [Next]_vars
    PROVE  TypeOK'
  <1>1. CASE hostiothread_register_gw
    BY <1>1, WorkerRegisterType DEF WaitsOnSocket, hostiothread_register_gw
  <1>2. CASE Next
    BY <1>1, <1>2, CallType, DisconnectType, ConnectType, StatusTimeoutType, RxType,
       WorkerConnectType, WorkerDisconnectType, WorkerEndType,
       ReplyTimeoutType, DataType, TakesType, RoutesType, DeviceType
       DEF Next, MainNext, WorkerNext
  <1>3. CASE UNCHANGED vars
    BY <1>3, SMTT(40) DEF vars, TypeOK, callVars, rxVars, ioVars, ctrlVars
  <1> QED BY <1>2, <1>3

-----------------------------------------------------------------------------
(* What the three threads and the environment leave alone.                 *)

MainSteps == \/ MainCalls \/ osd_gateway_is_connected \/ MainNext
             \/ JoinTimesOut \/ StatusTimesOut

WorkerSteps == \/ WorkerNext \/ RegisterTimesOut \/ UnregisterTimesOut
               \/ forward_devicerx_to_hostctrl
               \/ \E s \in Session : hostiothread_rcv_from_hostctrl(s)

EnvSteps == \/ \E s \in Session : HostctrlTakes(s)
            \/ HostctrlRoutes \/ DeviceLost \/ DeviceReturns

LEMMA Steps == Next <=> MainSteps \/ RxNext \/ WorkerSteps \/ EnvSteps
  BY DEF Next, MainSteps, WorkerSteps, EnvSteps

LEMMA MainFrame ==
    ASSUME MainSteps
    PROVE  UNCHANGED <<ioVars, ctrlVars, devq, nread, fwd, abort, devup>> /\ Alive
  <1> USE DEF rxVars
  <1>1. CASE MainCalls \/ osd_gateway_is_connected
    BY <1>1 DEF MainCalls, osd_gateway_is_connected, osd_gateway_connect,
                osd_gateway_disconnect, osd_gateway_free
  <1>2. CASE disconnect_from_device \/ disconnect_from_hostctrl \/ DisconnectReceived
    BY <1>2 DEF disconnect_from_device, disconnect_from_hostctrl, DisconnectReceived
  <1>3. CASE connect_to_hostctrl \/ ConnectReceived \/ connect_to_device \/ FreeReturns
    BY <1>3 DEF connect_to_hostctrl, ConnectReceived, connect_to_device, FreeReturns
  <1>4. CASE JoinTimesOut \/ StatusTimesOut
    BY <1>4 DEF JoinTimesOut, StatusTimesOut
  <1> QED BY <1>1, <1>2, <1>3, <1>4 DEF MainSteps, MainNext

LEMMA RxFrame ==
    ASSUME RxNext
    PROVE  /\ UNCHANGED <<callVars, to_io, to_main, rxsock, pipe, ioVars, fwd, abort,
                          devup, ctrlVars>>
           /\ Alive
  BY DEF RxNext, RxReads, RxSends, RxCancelled

LEMMA WorkerFrame ==
    ASSUME WorkerSteps
    PROVE  /\ UNCHANGED <<callVars, rxpc, inhand, rxsock, nread, devup, registered,
                          nwrite>>
           /\ Alive
  <1> USE DEF rxVars, ctrlVars
  <1>1. CASE hostiothread_connect_to_hostctrl \/ hostiothread_register_gw
               \/ HandleDisconnect \/ hostiothread_unregister_gw
    BY <1>1 DEF hostiothread_connect_to_hostctrl, hostiothread_register_gw,
                HandleDisconnect, hostiothread_unregister_gw, FromMain
  <1>2. CASE HandleShutdown \/ FlagDeviceLoss \/ hostiothread_destroy \/ WorkerExits
    BY <1>2 DEF HandleShutdown, FlagDeviceLoss, hostiothread_destroy, WorkerExits,
                FromMain
  <1>3. CASE RegisterTimesOut \/ UnregisterTimesOut \/ forward_devicerx_to_hostctrl
    BY <1>3 DEF RegisterTimesOut, UnregisterTimesOut, forward_devicerx_to_hostctrl
  <1>4. ASSUME NEW s \in Session, hostiothread_rcv_from_hostctrl(s)
        PROVE  /\ UNCHANGED <<callVars, rxpc, inhand, rxsock, nread, devup, registered,
                              nwrite>>
               /\ Alive
    BY <1>4 DEF hostiothread_rcv_from_hostctrl
  <1> QED BY <1>1, <1>2, <1>3, <1>4 DEF WorkerSteps, WorkerNext

LEMMA EnvFrame ==
    ASSUME EnvSteps
    PROVE  UNCHANGED <<callVars, detected, to_io, to_main, rxVars, ioVars, fwd, abort>>
  <1>1. ASSUME NEW s \in Session, HostctrlTakes(s)
        PROVE  UNCHANGED <<callVars, detected, to_io, to_main, rxVars, ioVars, fwd, abort>>
    BY <1>1 DEF HostctrlTakes
  <1>2. CASE HostctrlRoutes \/ DeviceLost \/ DeviceReturns
    BY <1>2 DEF HostctrlRoutes, DeviceLost, DeviceReturns
  <1> QED BY <1>1, <1>2 DEF EnvSteps

-----------------------------------------------------------------------------
(* The RX thread, its socket and the main thread.  Every path to           *)
(* connect_to_device is one on which the previous RX thread was joined.    *)

ThreadInv ==
    /\ dev <=> rxpc # "none"
    /\ dev => rxsock
    /\ rxpc \in {"none", "read"} => inhand = <<>>
    /\ mpc \in {"hcdisc", "discwait", "connect", "connwait", "device"} => ~dev
    /\ then = "connect" /\ mpc \in {"join", "cancel"} => ~dev

LEMMA ThreadStep ==
    ASSUME TypeOK, ThreadInv, Next
    PROVE  ThreadInv'
  <1> USE DEF ThreadInv
  <1>1. CASE WorkerSteps \/ EnvSteps
    BY <1>1, WorkerFrame, EnvFrame DEF callVars, rxVars
  <1>2. CASE RxNext
    BY <1>2 DEF RxNext, RxReads, RxSends, RxCancelled, callVars
  <1>3. ASSUME MainCalls \/ osd_gateway_is_connected PROVE ThreadInv'
    BY <1>3 DEF MainCalls, osd_gateway_is_connected, osd_gateway_connect,
                osd_gateway_disconnect, osd_gateway_free, SendToWorker, rxVars
  <1>4. ASSUME disconnect_from_device PROVE ThreadInv'
    BY <1>4 DEF disconnect_from_device, DeviceLeft
  <1>5. ASSUME disconnect_from_hostctrl PROVE ThreadInv'
    BY <1>5 DEF disconnect_from_hostctrl, Disconnected, SendToWorker, rxVars
  <1>6. ASSUME DisconnectReceived PROVE ThreadInv'
    BY <1>6 DEF DisconnectReceived, Disconnected, rxVars
  <1>7. ASSUME connect_to_hostctrl PROVE ThreadInv'
    BY <1>7 DEF connect_to_hostctrl, SendToWorker, rxVars
  <1>8. ASSUME ConnectReceived PROVE ThreadInv'
    BY <1>8 DEF ConnectReceived, rxVars
  <1>9. ASSUME connect_to_device PROVE ThreadInv'
    BY <1>9 DEF connect_to_device
  <1>10. ASSUME FreeReturns \/ JoinTimesOut PROVE ThreadInv'
    BY <1>10 DEF FreeReturns, JoinTimesOut, rxVars
  <1>11. ASSUME StatusTimesOut PROVE ThreadInv'
    BY <1>11 DEF StatusTimesOut, Disconnected, rxVars
  <1> QED
    BY <1>1, <1>2, <1>3, <1>4, <1>5, <1>6, <1>7, <1>8, <1>9, <1>10, <1>11, Steps
       DEF MainSteps, MainNext

-----------------------------------------------------------------------------
(* The packets on their way through the gateway.                           *)

(* Before the first connect_to_device nothing has been read.               *)
PipeInv ==
    /\ pipe = "pending" => ~dev /\ nread = 0 /\ fwd = <<>>
    /\ nread = 0 => devq = <<>> /\ inhand = <<>>

LEMMA PipeStep ==
    ASSUME TypeOK, ThreadInv, PipeInv, Next
    PROVE  PipeInv'
  <1> USE DEF PipeInv
  <1>1. ASSUME EnvSteps PROVE PipeInv'
    BY <1>1, EnvFrame DEF callVars, rxVars
  <1>2. ASSUME RxNext PROVE PipeInv'
    <2>1. ASSUME RxReads PROVE PipeInv'
      BY <2>1 DEF RxReads, callVars, ThreadInv, TypeOK
    <2>2. ASSUME RxSends PROVE PipeInv'
      BY <2>2 DEF RxSends, callVars, TypeOK
    <2>3. ASSUME RxCancelled PROVE PipeInv'
      BY <2>3 DEF RxCancelled, callVars
    <2> QED BY <1>2, <2>1, <2>2, <2>3 DEF RxNext
  <1>3. ASSUME WorkerSteps PROVE PipeInv'
    <2>1. UNCHANGED <<dev, inhand, nread>>
      BY <1>3, WorkerFrame DEF callVars
    <2>2. \/ UNCHANGED <<pipe, devq, fwd>>
          \/ pipe' = "broken" /\ devq' = <<>> /\ UNCHANGED fwd
          \/ devq # <<>> /\ UNCHANGED pipe
      <3>1. CASE WorkerNext
        BY <3>1 DEF WorkerNext, hostiothread_connect_to_hostctrl,
              hostiothread_register_gw, HandleDisconnect, hostiothread_unregister_gw,
              HandleShutdown, FlagDeviceLoss, hostiothread_destroy, WorkerExits, rxVars
      <3>2. CASE RegisterTimesOut \/ UnregisterTimesOut \/ forward_devicerx_to_hostctrl
        BY <3>2 DEF RegisterTimesOut, UnregisterTimesOut,
                    forward_devicerx_to_hostctrl, rxVars
      <3>3. CASE \E s \in Session : hostiothread_rcv_from_hostctrl(s)
        BY <3>3 DEF hostiothread_rcv_from_hostctrl, rxVars
      <3> QED BY <1>3, <3>1, <3>2, <3>3 DEF WorkerSteps
    <2> QED BY <2>1, <2>2
  <1>4. ASSUME MainSteps PROVE PipeInv'
    <2>1. UNCHANGED <<nread, devq, fwd>>
      BY <1>4, MainFrame
    <2>2. \/ UNCHANGED <<pipe, dev, inhand>>
          \/ pipe' = "broken" /\ inhand' = <<>>
          \/ pipe' # "pending" /\ UNCHANGED inhand
      <3>1. CASE connect_to_device
        BY <3>1 DEF connect_to_device
      <3>2. CASE disconnect_from_device
        BY <3>2 DEF disconnect_from_device, DeviceLeft
      <3>3. CASE MainCalls \/ osd_gateway_is_connected \/ JoinTimesOut \/ StatusTimesOut
        BY <3>3 DEF MainCalls, osd_gateway_connect, osd_gateway_disconnect,
              osd_gateway_free, osd_gateway_is_connected, JoinTimesOut, StatusTimesOut,
              rxVars
      <3>4. CASE disconnect_from_hostctrl \/ DisconnectReceived \/ connect_to_hostctrl
                   \/ ConnectReceived \/ FreeReturns
        BY <3>4 DEF disconnect_from_hostctrl, DisconnectReceived, connect_to_hostctrl,
              ConnectReceived, FreeReturns, rxVars
      <3> QED BY <1>4, <3>1, <3>2, <3>3, <3>4 DEF MainSteps, MainNext
    <2> QED BY <2>1, <2>2
  <1> QED BY <1>1, <1>2, <1>3, <1>4, Steps

Numbered(n) == [i \in 1 .. n |-> i]

LEMMA NothingRead == <<>> \o <<>> \o <<>> = Numbered(0)
  BY DEF Numbered

LEMMA ReadKeepsOrder ==
    ASSUME NEW S, NEW f \in Seq(S), NEW d \in Seq(S), NEW n \in Nat,
           f \o d \o <<>> = Numbered(n)
    PROVE  f \o d \o <<n + 1>> = Numbered(n + 1)
  <1>1. f \o d \in Seq(S) /\ f \o d = Numbered(n)
    OBVIOUS
  <1>2. Len(f \o d) = n
    BY <1>1 DEF Numbered
  <1> QED BY <1>1, <1>2 DEF Numbered

LEMMA SendKeepsOrder ==
    ASSUME NEW S, NEW f \in Seq(S), NEW d \in Seq(S), NEW h \in Seq(S)
    PROVE  f \o (d \o h) \o <<>> = f \o d \o h
  OBVIOUS

LEMMA ForwardKeepsOrder ==
    ASSUME NEW S, NEW f \in Seq(S), NEW d \in Seq(S), NEW h \in Seq(S), d # <<>>
    PROVE  Append(f, Head(d)) \o Tail(d) \o h = f \o d \o h
  <1>1. Append(f, Head(d)) \o Tail(d) = f \o d
    OBVIOUS
  <1> QED BY <1>1

LEMMA OrderStep ==
    ASSUME TypeOK, ThreadInv, PipeInv, ForwardedInOrder, Next
    PROVE  ForwardedInOrder'
  <1> DEFINE Kept == pipe' = "up" => fwd' \o devq' \o inhand' = Numbered(nread')
  <1>1. ForwardedInOrder <=>
          (pipe = "up" /\ Alive => fwd \o devq \o inhand = Numbered(nread))
    BY DEF ForwardedInOrder, Numbered
  <1>2. SUFFICES ASSUME Alive' PROVE Kept
    BY DEF ForwardedInOrder, Numbered
  <1>3. /\ fwd \in Seq(Packet) /\ devq \in Seq(Packet) /\ inhand \in Seq(Packet)
        /\ nread \in Nat
    BY DEF TypeOK
  <1>4. ASSUME UNCHANGED <<fwd, devq, inhand, nread>>, pipe' = "up" => pipe = "up", Alive
        PROVE  Kept
    BY <1>1, <1>4
  <1>5. CASE EnvSteps
    <2>1. UNCHANGED <<fwd, devq, inhand, nread, pipe, abort>>
      BY <1>5, EnvFrame DEF rxVars
    <2> QED BY <1>2, <1>4, <2>1 DEF Alive
  <1>6. CASE RxNext
    <2>1. Alive /\ UNCHANGED <<fwd, pipe>>
      BY <1>6, RxFrame
    <2>2. CASE RxReads
      <3>1. CASE devup
        <4>1. /\ inhand = <<>> /\ inhand' = <<nread + 1>> /\ nread' = nread + 1
              /\ UNCHANGED devq
          BY <2>2, <3>1 DEF RxReads, ThreadInv
        <4> QED BY <1>1, <1>3, <2>1, <4>1, ReadKeepsOrder
      <3>2. CASE ~devup
        BY <1>4, <2>1, <2>2, <3>2 DEF RxReads
      <3> QED BY <3>1, <3>2
    <2>3. CASE RxSends
      <3>1. devq' = devq \o inhand /\ inhand' = <<>> /\ UNCHANGED nread
        BY <2>3 DEF RxSends
      <3>2. fwd \o (devq \o inhand) \o <<>> = fwd \o devq \o inhand
        BY <1>3, SendKeepsOrder
      <3> QED BY <1>1, <2>1, <3>1, <3>2
    <2>4. CASE RxCancelled
      BY <1>4, <2>1, <2>4 DEF RxCancelled
    <2> QED BY <1>6, <2>2, <2>3, <2>4 DEF RxNext
  <1>7. CASE WorkerSteps
    <2>1. Alive /\ UNCHANGED <<inhand, nread>>
      BY <1>7, WorkerFrame
    <2>2. CASE forward_devicerx_to_hostctrl
      <3>1. /\ devq # <<>> /\ devq' = Tail(devq) /\ fwd' = Append(fwd, Head(devq))
            /\ UNCHANGED pipe
        BY <1>2, <2>2 DEF forward_devicerx_to_hostctrl, Alive
      <3>2. Append(fwd, Head(devq)) \o Tail(devq) \o inhand = fwd \o devq \o inhand
        BY <1>3, <3>1, ForwardKeepsOrder
      <3> QED BY <1>1, <2>1, <3>1, <3>2
    <2>3. CASE WorkerNext
      <3>1. UNCHANGED <<fwd, devq, pipe>> \/ pipe' = "broken"
        BY <2>3 DEF WorkerNext, hostiothread_connect_to_hostctrl,
              hostiothread_register_gw, HandleDisconnect, hostiothread_unregister_gw,
              HandleShutdown, FlagDeviceLoss, hostiothread_destroy, WorkerExits, rxVars
      <3> QED BY <1>4, <2>1, <3>1
    <2>4. CASE \/ RegisterTimesOut \/ UnregisterTimesOut
               \/ \E s \in Session : hostiothread_rcv_from_hostctrl(s)
      <3>1. UNCHANGED <<fwd, devq, pipe>>
        BY <2>4 DEF RegisterTimesOut, UnregisterTimesOut,
                    hostiothread_rcv_from_hostctrl, rxVars
      <3> QED BY <1>4, <2>1, <3>1
    <2> QED BY <1>7, <2>2, <2>3, <2>4 DEF WorkerSteps
  <1>8. CASE MainSteps
    <2>1. Alive /\ UNCHANGED <<fwd, devq, nread>>
      BY <1>8, MainFrame
    <2>2. CASE connect_to_device
      <3>1. CASE pipe = "pending"
        <4>1. fwd = <<>> /\ devq = <<>> /\ inhand = <<>> /\ nread = 0
          BY <3>1 DEF PipeInv
        <4>2. inhand' = inhand
          BY <2>2 DEF connect_to_device
        <4> QED BY <2>1, <4>1, <4>2, NothingRead
      <3>2. CASE pipe # "pending"
        BY <1>4, <2>1, <2>2, <3>2 DEF connect_to_device
      <3> QED BY <3>1, <3>2
    <2>3. CASE disconnect_from_device
      <3>1. UNCHANGED <<inhand, pipe>> \/ pipe' = "broken"
        BY <2>3 DEF disconnect_from_device, DeviceLeft
      <3> QED BY <1>4, <2>1, <3>1
    <2>4. CASE MainCalls \/ osd_gateway_is_connected \/ JoinTimesOut \/ StatusTimesOut
      <3>1. UNCHANGED <<inhand, pipe>>
        BY <2>4 DEF MainCalls, osd_gateway_connect, osd_gateway_disconnect,
              osd_gateway_free, osd_gateway_is_connected, JoinTimesOut, StatusTimesOut,
              rxVars
      <3> QED BY <1>4, <2>1, <3>1
    <2>5. CASE disconnect_from_hostctrl \/ DisconnectReceived \/ connect_to_hostctrl
                 \/ ConnectReceived \/ FreeReturns
      <3>1. UNCHANGED <<inhand, pipe>>
        BY <2>5 DEF disconnect_from_hostctrl, DisconnectReceived, connect_to_hostctrl,
              ConnectReceived, FreeReturns, rxVars
      <3> QED BY <1>4, <2>1, <3>1
    <2> QED BY <1>8, <2>2, <2>3, <2>4, <2>5 DEF MainSteps, MainNext
  <1> QED BY <1>5, <1>6, <1>7, <1>8, Steps

-----------------------------------------------------------------------------
(* The loss flag.  It is reset, or the worker is past saving, whenever the *)
(* main thread is on its way to connect_to_device.                         *)

FlagInv ==
    detected /\ (dev \/ mpc \in {"connect", "connwait", "device"}) =>
        rxpc = "ended" \/ wpc \in {"ending", "closed", "ended"}

LEMMA FlagStep ==
    ASSUME TypeOK, ThreadInv, FlagInv, Next
    PROVE  FlagInv'
  <1> USE DEF FlagInv
  <1>1. ASSUME EnvSteps PROVE FlagInv'
    BY <1>1, EnvFrame DEF callVars, rxVars, ioVars
  <1>2. ASSUME RxNext PROVE FlagInv'
    <2>1. UNCHANGED <<callVars, wpc>>
      BY <1>2, RxFrame DEF ioVars
    <2>2. rxpc' = "ended" \/ (rxpc \in {"read", "send"} /\ UNCHANGED detected)
      BY <1>2 DEF RxNext, RxReads, RxSends, RxCancelled
    <2> QED BY <2>1, <2>2 DEF callVars
  <1>3. ASSUME WorkerSteps PROVE FlagInv'
    <2>1. UNCHANGED <<callVars, rxpc>>
      BY <1>3, WorkerFrame
    <2>2. \/ wpc' \in {"ending", "closed", "ended"}
          \/ wpc \notin {"ending", "closed", "ended"} /\ UNCHANGED detected
      <3>1. CASE WorkerNext
        BY <3>1 DEF WorkerNext, hostiothread_connect_to_hostctrl,
              hostiothread_register_gw, HandleDisconnect, hostiothread_unregister_gw,
              HandleShutdown, FlagDeviceLoss, hostiothread_destroy, WorkerExits, FromMain
      <3>2. CASE RegisterTimesOut \/ UnregisterTimesOut \/ forward_devicerx_to_hostctrl
        BY <3>2 DEF RegisterTimesOut, UnregisterTimesOut, forward_devicerx_to_hostctrl
      <3>3. CASE \E s \in Session : hostiothread_rcv_from_hostctrl(s)
        BY <3>3 DEF hostiothread_rcv_from_hostctrl
      <3> QED BY <1>3, <3>1, <3>2, <3>3 DEF WorkerSteps
    <2> QED BY <2>1, <2>2 DEF callVars
  <1>4. ASSUME MainSteps PROVE FlagInv'
    <2>1. wpc' = wpc
      BY <1>4, MainFrame DEF ioVars
    <2>2. ASSUME MainCalls \/ osd_gateway_is_connected PROVE FlagInv'
      BY <2>1, <2>2 DEF MainCalls, osd_gateway_is_connected, osd_gateway_connect,
                  osd_gateway_disconnect, osd_gateway_free, SendToWorker, rxVars
    <2>3. ASSUME disconnect_from_device PROVE FlagInv'
      BY <2>1, <2>3 DEF disconnect_from_device, DeviceLeft
    <2>4. ASSUME disconnect_from_hostctrl PROVE FlagInv'
      BY <2>1, <2>4 DEF disconnect_from_hostctrl, Disconnected, SendToWorker, ThreadInv,
                        TypeOK
    <2>5. ASSUME DisconnectReceived PROVE FlagInv'
      BY <2>1, <2>5 DEF DisconnectReceived, Disconnected, ThreadInv, TypeOK
    <2>6. ASSUME connect_to_hostctrl PROVE FlagInv'
      BY <2>1, <2>6 DEF connect_to_hostctrl, SendToWorker, ThreadInv, rxVars
    <2>7. ASSUME ConnectReceived PROVE FlagInv'
      BY <2>1, <2>7 DEF ConnectReceived, ThreadInv, rxVars
    <2>8. ASSUME connect_to_device PROVE FlagInv'
      BY <2>1, <2>8 DEF connect_to_device, ThreadInv
    <2>9. ASSUME FreeReturns \/ JoinTimesOut PROVE FlagInv'
      BY <2>1, <2>9 DEF FreeReturns, JoinTimesOut, rxVars
    <2>10. ASSUME StatusTimesOut PROVE FlagInv'
      BY <2>1, <2>10 DEF StatusTimesOut, Disconnected, ThreadInv, TypeOK
    <2> QED
      BY <1>4, <2>2, <2>3, <2>4, <2>5, <2>6, <2>7, <2>8, <2>9, <2>10
         DEF MainSteps, MainNext
  <1> QED BY <1>1, <1>2, <1>3, <1>4, Steps

-----------------------------------------------------------------------------
(* What the worker asserts.                                                *)

LEMMA WaitsStep ==
    ASSUME TypeOK, WaitsOnSocket, Next
    PROVE  WaitsOnSocket'
  <1> USE DEF WaitsOnSocket
  <1>1. CASE MainSteps \/ RxNext \/ EnvSteps
    BY <1>1, MainFrame, RxFrame, EnvFrame DEF ioVars
  <1>2. ASSUME hostiothread_connect_to_hostctrl PROVE WaitsOnSocket'
    BY <1>2 DEF hostiothread_connect_to_hostctrl, FromMain, TypeOK
  <1>3. ASSUME hostiothread_register_gw \/ RegisterTimesOut \/ UnregisterTimesOut
        PROVE  WaitsOnSocket'
    BY <1>3 DEF hostiothread_register_gw, RegisterTimesOut, UnregisterTimesOut,
                EndDisconnect
  <1>4. ASSUME HandleDisconnect PROVE WaitsOnSocket'
    BY <1>4 DEF HandleDisconnect, StartDisconnect
  <1>5. ASSUME hostiothread_unregister_gw PROVE WaitsOnSocket'
    BY <1>5 DEF hostiothread_unregister_gw, EndDisconnect
  <1>6. ASSUME HandleShutdown \/ FlagDeviceLoss \/ hostiothread_destroy \/ WorkerExits
        PROVE  WaitsOnSocket'
    BY <1>6 DEF HandleShutdown, FlagDeviceLoss, hostiothread_destroy, WorkerExits
  <1>7. ASSUME forward_devicerx_to_hostctrl PROVE WaitsOnSocket'
    BY <1>7 DEF forward_devicerx_to_hostctrl, ioVars
  <1>8. ASSUME NEW s \in Session, hostiothread_rcv_from_hostctrl(s)
        PROVE  WaitsOnSocket'
    BY <1>8 DEF hostiothread_rcv_from_hostctrl, StartDisconnect
  <1> QED
    BY <1>1, <1>2, <1>3, <1>4, <1>5, <1>6, <1>7, <1>8, Steps
       DEF WorkerSteps, WorkerNext

(* No packet arrives before one is routed.                                 *)
NoPacket(q) == \A i \in 1 .. Len(q) : q[i] # "D"
TrafficInv == nwrite = 0 => \A s \in Session : NoPacket(fromctrl[s])

LEMMA NoPacketKept ==
    ASSUME NEW q \in Seq(FromCtrl), NoPacket(q)
    PROVE  /\ q # <<>> => NoPacket(Tail(q)) /\ Head(q) # "D"
           /\ NoPacket(<<>>)
           /\ \A m \in FromCtrl : m # "D" => NoPacket(Append(q, m))
  BY DEF NoPacket

LEMMA TrafficStep ==
    ASSUME TypeOK, TrafficInv, Next
    PROVE  TrafficInv'
  <1> SUFFICES ASSUME nwrite' = 0, NEW s \in Session
               PROVE  NoPacket(fromctrl'[s])
    BY DEF TrafficInv
  <1>0. /\ fromctrl \in [Session -> Seq(FromCtrl)] /\ fromctrl[s] \in Seq(FromCtrl)
        /\ nwrite \in Nat
    BY DEF TypeOK
  <1>1. SUFFICES ASSUME nwrite = 0 => NoPacket(fromctrl[s])
                 PROVE  NoPacket(fromctrl'[s])
    BY DEF TrafficInv
  <1>2. CASE MainSteps \/ RxNext
    BY <1>1, <1>2, MainFrame, RxFrame DEF ctrlVars
  <1>3. CASE WorkerSteps
    <2>1. nwrite' = nwrite
      BY <1>3, WorkerFrame
    <2>2. \/ fromctrl' = fromctrl
          \/ \E t \in Session \cup {0} : /\ fromctrl[t] # <<>>
                                         /\ fromctrl' = [fromctrl EXCEPT ![t] = Tail(@)]
          \/ \E t \in Session \cup {0} : fromctrl' = [fromctrl EXCEPT ![t] = <<>>]
      <3>0. hsock \in Session \cup {0}
        BY DEF TypeOK
      <3>1. CASE hostiothread_connect_to_hostctrl \/ HandleDisconnect
        BY <3>1 DEF hostiothread_connect_to_hostctrl, HandleDisconnect
      <3>2. CASE hostiothread_register_gw
        BY <3>0, <3>2 DEF hostiothread_register_gw, CloseSocket
      <3>3. CASE hostiothread_unregister_gw \/ RegisterTimesOut \/ UnregisterTimesOut
        BY <3>0, <3>3 DEF hostiothread_unregister_gw, RegisterTimesOut,
                          UnregisterTimesOut, EndDisconnect, CloseSocket
      <3>4. CASE \/ HandleShutdown \/ FlagDeviceLoss \/ hostiothread_destroy
                 \/ WorkerExits \/ forward_devicerx_to_hostctrl
        BY <3>4 DEF HandleShutdown, FlagDeviceLoss, hostiothread_destroy, WorkerExits,
                    forward_devicerx_to_hostctrl, ctrlVars
      <3>5. CASE \E t \in Session : hostiothread_rcv_from_hostctrl(t)
        BY <3>5 DEF hostiothread_rcv_from_hostctrl
      <3> QED BY <1>3, <3>1, <3>2, <3>3, <3>4, <3>5 DEF WorkerSteps, WorkerNext
    <2> QED BY <1>0, <1>1, <2>1, <2>2, NoPacketKept
  <1>4. CASE DeviceLost \/ DeviceReturns
    BY <1>1, <1>4 DEF DeviceLost, DeviceReturns, ctrlVars
  <1>5. CASE HostctrlRoutes
    BY <1>0, <1>5 DEF HostctrlRoutes
  <1>6. ASSUME NEW t \in Session, HostctrlTakes(t)
        PROVE  NoPacket(fromctrl'[s])
    <2>1. nwrite' = nwrite
      BY <1>6 DEF HostctrlTakes
    <2>2. \/ fromctrl' = fromctrl
          \/ \E m \in FromCtrl : /\ m # "D"
                                 /\ fromctrl' = [fromctrl EXCEPT ![t] = Append(@, m)]
      BY <1>6 DEF HostctrlTakes, Reply, FromCtrl
    <2> QED BY <1>0, <1>1, <2>1, <2>2, NoPacketKept
  <1> QED BY <1>2, <1>3, <1>4, <1>5, <1>6, Steps DEF EnvSteps

-----------------------------------------------------------------------------
(* The conversation of the main thread and the worker, as long as no       *)
(* status wait timed out: one command is under way at most, and hc follows *)
(* the socket.  A worker that leaves by itself (wpc = "lost") breaks into  *)
(* it with an I-DISCONNECT-DONE nobody asked for.                          *)

ConnectDone(v) == Done("I-CONNECT-DONE", v)
DisconnectDone == Done("I-DISCONNECT-DONE", 0)

HcInv ==
    /\ hc => dev \/ mpc \in {"device", "hcdisc", "discwait", "blocked"}
    /\ mpc = "discwait" => hc
    /\ mpc \in {"connwait", "free"} => ~hc

(* The worker is in its zloop.                                             *)
LoopInv ==
    /\ readers = IF hsock = 0 THEN {} ELSE {hsock}
    /\ mpc = "connwait" =>
          \/ to_io = <<"I-CONNECT">> /\ to_main = <<>> /\ hsock = 0
          \/ to_io = <<>> /\ to_main = <<ConnectDone(0)>> /\ hsock # 0
          \/ to_io = <<>> /\ to_main = <<ConnectDone(-1)>> /\ hsock = 0
    /\ mpc = "discwait" =>
          \/ to_io = <<"I-DISCONNECT">> /\ to_main = <<>> /\ hsock # 0
          \/ to_io = <<>> /\ to_main = <<DisconnectDone>> /\ hsock = 0
    /\ mpc = "free" => to_io = <<"I-SHUTDOWN">> /\ to_main = <<>> /\ hsock = 0
    /\ mpc \notin {"connwait", "discwait", "free"} =>
          to_io = <<>> /\ to_main = <<>> /\ (hc <=> hsock # 0)

(* The worker waits for the host controller.                               *)
BusyInv ==
    /\ hsock # 0 /\ readers = {}
    /\ wpc = "register" => mpc = "connwait" /\ to_io = <<>> /\ to_main = <<>>
    /\ wpc = "unregister" => mpc = "discwait" /\ to_io = <<>> /\ to_main = <<>>
    /\ wpc = "lost" => \/ hc /\ to_main = <<>>
                       \/ mpc = "connwait" /\ to_main = <<ConnectDone(0)>>

(* The worker is ending.  If the main thread still believes in the         *)
(* connection, it will learn of its end first, or from the flag.           *)
Late == {"flag", "ending", "closed", "ended"}
LateInv ==
    /\ hsock = 0 /\ readers = {}
    /\ hc => /\ to_main # <<>> /\ to_main[1].name = "I-DISCONNECT-DONE"
             /\ detected \/ wpc = "flag"
    /\ \A i \in 1 .. Len(to_main) :
          to_main[i].name = "I-CONNECT-DONE" =>
              /\ i = 1 /\ mpc = "connwait" /\ to_main[1].value = 0
              /\ Len(to_main) > 1 /\ to_main[2].name = "I-DISCONNECT-DONE"
              /\ detected \/ wpc = "flag"

CallInv ==
    /\ HcInv
    /\ wpc = "loop" => LoopInv
    /\ wpc \in {"register", "unregister", "lost"} => BusyInv
    /\ wpc \in Late => LateInv

LEMMA Queues ==
    ASSUME NEW x
    PROVE  /\ Append(<<>>, x) = <<x>> /\ Head(<<x>>) = x /\ Tail(<<x>>) = <<>>
           /\ <<x>> # <<>>
  <1>1. <<>> \in Seq({x}) /\ <<x>> \in Seq({x})
    OBVIOUS
  <1> QED BY <1>1

LEMMA TailFacts ==
    ASSUME NEW S, NEW q \in Seq(S), q # <<>>
    PROVE  /\ Tail(q) \in Seq(S) /\ Len(Tail(q)) = Len(q) - 1 /\ Len(q) > 0
           /\ Head(q) = q[1] /\ Len(q) \in Nat
           /\ \A i \in 1 .. Len(Tail(q)) : Tail(q)[i] = q[i + 1] /\ i + 1 \in 1 .. Len(q)
           /\ Len(q) > 1 => Tail(q) # <<>> /\ Tail(q)[1] = q[2]
  OBVIOUS

LEMMA AppendFacts ==
    ASSUME NEW S, NEW q \in Seq(S), NEW m \in S
    PROVE  /\ Append(q, m) \in Seq(S) /\ Len(Append(q, m)) = Len(q) + 1
           /\ Len(q) \in Nat /\ Append(q, m) # <<>>
           /\ \A i \in 1 .. Len(q) : Append(q, m)[i] = q[i]
           /\ Append(q, m)[Len(q) + 1] = m
  OBVIOUS

LEMMA DoneFields ==
    ASSUME NEW n, NEW v
    PROVE  Done(n, v).name = n /\ Done(n, v).value = v
  BY DEF Done

LEMMA MainCallsStep ==
    ASSUME TypeOK, ThreadInv, CallInv, MainCalls \/ osd_gateway_is_connected
    PROVE  CallInv'
  <1> USE DEF CallInv, HcInv, LoopInv, BusyInv, LateInv, Late, TypeOK
  <1>1. UNCHANGED <<hc, dev, wpc, hsock, readers, detected, to_main>>
    BY DEF MainCalls, osd_gateway_is_connected, osd_gateway_connect,
           osd_gateway_disconnect, osd_gateway_free, ioVars
  <1>2. CASE osd_gateway_connect \/ osd_gateway_disconnect \/ osd_gateway_is_connected
    <2>1. mpc = "idle" /\ mpc' \in {"join", "connect"} /\ to_io' = to_io
      BY <1>2 DEF osd_gateway_connect, osd_gateway_disconnect, osd_gateway_is_connected
    <2>2. mpc' = "connect" => ~dev
      BY <1>2, <2>1 DEF osd_gateway_connect, osd_gateway_disconnect,
                        osd_gateway_is_connected
    <2> QED BY <1>1, <2>1, <2>2
  <1>3. CASE osd_gateway_free
    <2>1. mpc = "idle" /\ ~dev /\ ~hc
      BY <1>3 DEF osd_gateway_free
    <2>2. CASE wpc = "ended" \/ wpc = "closed"
      BY <1>1, <1>3, <2>1, <2>2 DEF osd_gateway_free, SendToWorker, running
    <2>3. CASE wpc \notin {"ended", "closed"}
      <3>1. mpc' = "free" /\ to_io' = Append(to_io, "I-SHUTDOWN")
        BY <1>3, <2>3 DEF osd_gateway_free, SendToWorker, running
      <3> QED BY <1>1, <2>1, <2>3, <3>1, Queues
    <2> QED BY <2>2, <2>3
  <1> QED BY <1>2, <1>3 DEF MainCalls

LEMMA MainDisconnectStep ==
    ASSUME TypeOK, ThreadInv, CallInv,
           disconnect_from_device \/ JoinTimesOut \/ disconnect_from_hostctrl
             \/ DisconnectReceived
    PROVE  CallInv'
  <1> USE DEF CallInv, HcInv, LoopInv, BusyInv, LateInv, Late, TypeOK
  <1>1. UNCHANGED <<wpc, hsock, readers>>
    BY MainFrame DEF MainSteps, MainNext, ioVars
  <1>2. CASE disconnect_from_device \/ JoinTimesOut
    <2>1. /\ mpc \in {"join", "cancel"} /\ mpc' \in {"hcdisc", "cancel"}
          /\ UNCHANGED <<hc, detected, to_io, to_main>>
          /\ mpc' = "cancel" => dev'
      BY <1>2 DEF disconnect_from_device, DeviceLeft, JoinTimesOut, rxVars
    <2> QED BY <1>1, <2>1
  <1>3. CASE disconnect_from_hostctrl
    <2>1. mpc = "hcdisc" /\ ~dev /\ UNCHANGED <<dev, to_main>>
      BY <1>3 DEF disconnect_from_hostctrl, ThreadInv
    <2>2. CASE ~hc \/ wpc = "ended"
      <3>1. ~hc' /\ mpc' \in {"connect", "idle"} /\ to_io' = to_io
        <4>1. CASE ~hc
          <5>1. UNCHANGED <<hc, to_io>> /\ Disconnected
            BY <1>3, <4>1 DEF disconnect_from_hostctrl
          <5> QED BY <4>1, <5>1 DEF Disconnected
        <4>2. CASE hc /\ wpc = "ended"
          BY <1>3, <4>2 DEF disconnect_from_hostctrl, Disconnected, running
        <4> QED BY <2>2, <4>1, <4>2
      <3> QED BY <1>1, <2>1, <2>2, <3>1
    <2>3. CASE hc /\ wpc = "closed"
      <3>1. mpc' = "blocked" /\ UNCHANGED <<hc, detected, to_io>>
        BY <1>3, <2>3 DEF disconnect_from_hostctrl, SendToWorker, running
      <3> QED BY <1>1, <2>1, <2>3, <3>1
    <2>4. CASE hc /\ wpc \notin {"ended", "closed"}
      <3>1. /\ mpc' = "discwait" /\ to_io' = Append(to_io, "I-DISCONNECT")
            /\ UNCHANGED <<hc, detected>>
        BY <1>3, <2>4 DEF disconnect_from_hostctrl, SendToWorker, running
      <3> QED BY <1>1, <2>1, <2>4, <3>1, Queues
    <2> QED BY <2>2, <2>3, <2>4
  <1>4. CASE DisconnectReceived
    <2>1. /\ mpc = "discwait" /\ to_main # <<>> /\ to_main' = Tail(to_main)
          /\ hc' = (Head(to_main).name # "I-DISCONNECT-DONE")
          /\ mpc' \in {"connect", "idle"} /\ UNCHANGED <<dev, to_io>>
      BY <1>4 DEF DisconnectReceived, Disconnected
    <2>2. hc /\ ~dev
      BY <2>1 DEF ThreadInv
    <2>3. CASE wpc = "loop"
      <3>1. to_main = <<DisconnectDone>> /\ to_io = <<>> /\ hsock = 0
        BY <2>1, <2>3
      <3>2. to_main' = <<>> /\ Head(to_main) = DisconnectDone
        BY <2>1, <3>1, Queues
      <3>3. Head(to_main).name = "I-DISCONNECT-DONE"
        BY <3>2, DoneFields, SMTT(40) DEF DisconnectDone
      <3>4. ~hc'
        BY <2>1, <3>3
      <3> QED BY <1>1, <2>1, <2>3, <3>1, <3>2, <3>4
    <2>4. CASE wpc \in Late
      <3>1. ~hc'
        BY <2>1, <2>2, <2>4
      <3>2. \A i \in 1 .. Len(to_main') : to_main'[i].name # "I-CONNECT-DONE"
        BY <2>1, <2>4, SMTT(40)
      <3> QED BY <1>1, <2>1, <2>4, <3>1, <3>2
    <2>5. wpc \in {"register", "unregister", "lost"} => FALSE
      BY <2>1, Queues
    <2> QED BY <2>3, <2>4, <2>5 DEF WorkerPc
  <1> QED BY <1>2, <1>3, <1>4

LEMMA MainConnectStep ==
    ASSUME TypeOK, ThreadInv, CallInv,
           connect_to_hostctrl \/ ConnectReceived \/ connect_to_device \/ FreeReturns
    PROVE  CallInv'
  <1> USE DEF CallInv, HcInv, LoopInv, BusyInv, LateInv, Late, TypeOK
  <1>1. UNCHANGED <<wpc, hsock, readers>>
    BY MainFrame DEF MainSteps, MainNext, ioVars
  <1>2. CASE connect_to_hostctrl
    <2>1. mpc = "connect" /\ ~dev /\ ~hc /\ UNCHANGED <<hc, dev, to_main, detected>>
      BY <1>2 DEF connect_to_hostctrl, ThreadInv
    <2>2. CASE wpc = "ended"
      <3>1. mpc' = "idle" /\ to_io' = to_io
        BY <1>2, <2>1, <2>2 DEF connect_to_hostctrl, running
      <3> QED BY <1>1, <2>1, <2>2, <3>1
    <2>3. CASE wpc = "closed"
      <3>1. mpc' = "blocked" /\ to_io' = to_io
        BY <1>2, <2>1, <2>3 DEF connect_to_hostctrl, SendToWorker, running
      <3> QED BY <1>1, <2>1, <2>3, <3>1
    <2>4. CASE wpc \notin {"ended", "closed"}
      <3>1. mpc' = "connwait" /\ to_io' = Append(to_io, "I-CONNECT")
        BY <1>2, <2>1, <2>4 DEF connect_to_hostctrl, SendToWorker, running
      <3> QED BY <1>1, <2>1, <2>4, <3>1, Queues
    <2> QED BY <2>2, <2>3, <2>4
  <1>3. CASE ConnectReceived
    <2>1. /\ mpc = "connwait" /\ to_main # <<>> /\ to_main' = Tail(to_main)
          /\ hc' = (Head(to_main) = ConnectDone(0))
          /\ mpc' = IF hc' THEN "device" ELSE "idle"
          /\ UNCHANGED <<dev, to_io, detected>>
      BY <1>3 DEF ConnectReceived, ConnectDone
    <2>2. ~hc /\ ~dev
      BY <2>1 DEF ThreadInv
    <2>3. ConnectDone(0) # ConnectDone(-1)
      BY DEF ConnectDone, Done
    <2>4. CASE wpc = "loop" \/ wpc = "lost"
      <3>1. to_main = <<ConnectDone(0)>> \/ (to_main = <<ConnectDone(-1)>> /\ wpc = "loop")
        BY <2>1, <2>2, <2>4, Queues
      <3>2. to_main' = <<>> /\ (hc' <=> to_main = <<ConnectDone(0)>>)
        BY <2>1, <2>3, <3>1, Queues
      <3>3. CASE to_main = <<ConnectDone(0)>>
        <4>1. hc' /\ mpc' = "device" /\ (wpc = "loop" => hsock # 0 /\ to_io = <<>>)
          BY <2>1, <2>3, <3>2, <3>3, Queues
        <4> QED BY <1>1, <2>1, <2>2, <2>4, <3>2, <4>1
      <3>4. CASE to_main # <<ConnectDone(0)>>
        <4>1. ~hc' /\ mpc' = "idle" /\ wpc = "loop" /\ hsock = 0 /\ to_io = <<>>
          BY <2>1, <3>1, <3>2, <3>4, Queues
        <4> QED BY <1>1, <2>1, <2>2, <3>2, <4>1
      <3> QED BY <3>3, <3>4
    <2>5. CASE wpc \in Late
      <3>1. CASE hc'
        <4>1. to_main[1].name = "I-CONNECT-DONE" /\ Len(to_main) > 1
          BY <2>1, <2>5, <3>1, DoneFields, SMTT(40) DEF ConnectDone
        <4>2. /\ to_main' # <<>> /\ to_main'[1] = to_main[2] /\ Len(to_main') \in Nat
              /\ \A i \in 1 .. Len(to_main') : /\ to_main'[i] = to_main[i + 1]
                                               /\ i + 1 \in 1 .. Len(to_main)
          BY <2>1, <4>1, TailFacts
        <4>3. to_main[2].name = "I-DISCONNECT-DONE" /\ (detected \/ wpc = "flag")
          BY <2>5, <4>1
        <4>4. \A i \in 1 .. Len(to_main') : to_main'[i].name # "I-CONNECT-DONE"
          <5> SUFFICES ASSUME NEW i \in 1 .. Len(to_main')
                       PROVE  to_main'[i].name # "I-CONNECT-DONE"
            OBVIOUS
          <5> HIDE DEF CallInv, LateInv, LoopInv, BusyInv, HcInv, TypeOK
          <5>1. i + 1 \in 1 .. Len(to_main) /\ i + 1 # 1
            BY <4>2
          <5>2. to_main[i + 1].name # "I-CONNECT-DONE"
            BY <2>5, <5>1 DEF CallInv, LateInv
          <5> QED BY <4>2, <5>2
        <4>5. to_main'[1].name = "I-DISCONNECT-DONE" /\ mpc' = "device"
          BY <2>1, <3>1, <4>2, <4>3
        <4> QED BY <1>1, <2>1, <2>5, <3>1, <4>2, <4>3, <4>4, <4>5
      <3>2. CASE ~hc'
        <4>1. \A i \in 1 .. Len(to_main') : to_main'[i].name # "I-CONNECT-DONE"
          BY <2>1, <2>5, SMTT(40)
        <4> QED BY <1>1, <2>1, <2>5, <3>2, <4>1
      <3> QED BY <3>1, <3>2
    <2>6. wpc \in {"register", "unregister"} => FALSE
      BY <2>1, Queues
    <2> QED BY <2>4, <2>5, <2>6 DEF WorkerPc
  <1>4. CASE connect_to_device
    <2>1. /\ mpc = "device" /\ mpc' = "idle" /\ dev'
          /\ UNCHANGED <<hc, to_io, to_main, detected>>
      BY <1>4 DEF connect_to_device
    <2> QED BY <1>1, <2>1
  <1>5. CASE FreeReturns
    <2>1. /\ mpc = "free" /\ mpc' = "freed" /\ wpc = "ended"
          /\ UNCHANGED <<hc, dev, to_io, to_main, detected>>
      BY <1>5 DEF FreeReturns, running
    <2> QED BY <1>1, <2>1
  <1> QED BY <1>2, <1>3, <1>4, <1>5

LEMMA RxCallStep ==
    ASSUME TypeOK, CallInv, RxNext
    PROVE  CallInv'
  <1>1. /\ UNCHANGED <<hc, dev, mpc, wpc, hsock, readers, to_io, to_main>>
        /\ detected => detected'
    BY RxFrame DEF RxNext, RxReads, RxSends, RxCancelled, callVars, ioVars, TypeOK
  <1> QED BY <1>1 DEF CallInv, HcInv, LoopInv, BusyInv, LateInv

(* The worker takes a command: which one it is says where the main thread  *)
(* is.                                                                     *)
LEMMA CommandTaken ==
    ASSUME TypeOK, CallInv, NEW c, FromMain(c)
    PROVE  /\ wpc = "loop" /\ LoopInv /\ HcInv
           /\ to_io = <<c>> /\ to_io' = <<>> /\ to_main = <<>>
           /\ \/ mpc = "connwait" /\ c = "I-CONNECT" /\ hsock = 0
              \/ mpc = "discwait" /\ c = "I-DISCONNECT" /\ hsock # 0
              \/ mpc = "free" /\ c = "I-SHUTDOWN" /\ hsock = 0
  <1>1. /\ wpc = "loop" /\ to_io # <<>> /\ Head(to_io) = c /\ to_io' = Tail(to_io)
    BY DEF FromMain
  <1>2. LoopInv /\ HcInv
    BY <1>1 DEF CallInv
  <1>3. CASE mpc = "connwait"
    <2>1. to_io = <<"I-CONNECT">> /\ to_main = <<>> /\ hsock = 0
      BY <1>1, <1>2, <1>3 DEF LoopInv
    <2> QED BY <1>1, <1>2, <1>3, <2>1, Queues
  <1>4. CASE mpc = "discwait"
    <2>1. to_io = <<"I-DISCONNECT">> /\ to_main = <<>> /\ hsock # 0
      BY <1>1, <1>2, <1>4 DEF LoopInv
    <2> QED BY <1>1, <1>2, <1>4, <2>1, Queues
  <1>5. CASE mpc = "free"
    <2>1. to_io = <<"I-SHUTDOWN">> /\ to_main = <<>> /\ hsock = 0
      BY <1>1, <1>2, <1>5 DEF LoopInv
    <2> QED BY <1>1, <1>2, <1>5, <2>1, Queues
  <1> QED BY <1>1, <1>2, <1>3, <1>4, <1>5 DEF LoopInv

LEMMA WorkerCommandStep ==
    ASSUME TypeOK, CallInv, Alive',
           hostiothread_connect_to_hostctrl \/ HandleDisconnect \/ HandleShutdown
    PROVE  CallInv'
  <1>1. ASSUME hostiothread_connect_to_hostctrl PROVE CallInv'
    <2>1. /\ wpc = "loop" /\ LoopInv /\ HcInv /\ mpc = "connwait"
          /\ to_io' = <<>> /\ to_main = <<>> /\ hsock = 0
      BY <1>1, CommandTaken DEF hostiothread_connect_to_hostctrl
    <2>2. UNCHANGED <<hc, dev, mpc, detected, readers>> /\ readers = {}
      BY <1>1, <2>1 DEF hostiothread_connect_to_hostctrl, callVars, LoopInv
    <2>3. CASE wpc' = "register" /\ hsock' = sessions + 1 /\ to_main' = to_main
      <3>1. hsock' # 0
        BY <2>3 DEF TypeOK
      <3> QED BY <2>1, <2>2, <2>3, <3>1 DEF CallInv, HcInv, BusyInv, Late
    <2>4. CASE wpc' = wpc /\ hsock' = 0 /\ SendMain(Done("I-CONNECT-DONE", -1))
      <3>1. to_main' = <<ConnectDone(-1)>>
        BY <2>1, <2>4, Queues DEF SendMain, ConnectDone
      <3> QED BY <2>1, <2>2, <2>4, <3>1 DEF CallInv, HcInv, LoopInv, Late
    <2> QED BY <1>1, <2>3, <2>4 DEF hostiothread_connect_to_hostctrl
  <1>2. ASSUME HandleDisconnect PROVE CallInv'
    <2>1. /\ wpc = "loop" /\ LoopInv /\ HcInv /\ mpc = "discwait"
          /\ to_io' = <<>> /\ to_main = <<>> /\ hsock # 0
      BY <1>2, CommandTaken DEF HandleDisconnect
    <2>2. /\ UNCHANGED <<hc, dev, mpc, detected, hsock, to_main>>
          /\ wpc' = "unregister" /\ readers' = readers \ {hsock}
      BY <1>2, <2>1 DEF HandleDisconnect, StartDisconnect, callVars
    <2>3. readers' = {}
      BY <2>1, <2>2 DEF LoopInv
    <2> QED BY <2>1, <2>2, <2>3 DEF CallInv, HcInv, BusyInv, Late
  <1>3. ASSUME HandleShutdown PROVE CallInv'
    <2>1. /\ wpc = "loop" /\ LoopInv /\ HcInv /\ mpc = "free"
          /\ to_io' = <<>> /\ to_main = <<>> /\ hsock = 0
      BY <1>3, CommandTaken DEF HandleShutdown
    <2>2. /\ UNCHANGED <<hc, dev, mpc, detected, hsock, readers, to_main>>
          /\ wpc' = "ending" /\ readers = {} /\ ~hc
      BY <1>3, <2>1 DEF HandleShutdown, callVars, LoopInv, HcInv
    <2>3. Len(to_main') = 0
      BY <2>1, <2>2
    <2> QED BY <2>1, <2>2, <2>3 DEF CallInv, HcInv, LateInv, Late
  <1> QED BY <1>1, <1>2, <1>3

LEMMA WorkerReplyStep ==
    ASSUME TypeOK, CallInv, Alive',
           hostiothread_register_gw \/ RegisterTimesOut
             \/ hostiothread_unregister_gw \/ UnregisterTimesOut
    PROVE  CallInv'
  <1>1. /\ UNCHANGED <<hc, dev, mpc, detected, to_io>>
        /\ wpc \in {"register", "unregister", "lost"}
    BY DEF hostiothread_register_gw, RegisterTimesOut, hostiothread_unregister_gw,
           UnregisterTimesOut, callVars
  <1>2. BusyInv /\ HcInv
    BY <1>1 DEF CallInv
  <1>3. CASE hostiothread_register_gw \/ RegisterTimesOut
    <2>1. /\ wpc = "register" /\ wpc' = "loop"
          /\ \/ /\ hsock' = hsock /\ readers' = readers \cup {hsock}
                /\ SendMain(Done("I-CONNECT-DONE", 0))
             \/ /\ hsock' = 0 /\ readers' = readers
                /\ SendMain(Done("I-CONNECT-DONE", -1))
      BY <1>3 DEF hostiothread_register_gw, RegisterTimesOut, CloseSocket
    <2>2. mpc = "connwait" /\ to_io = <<>> /\ to_main = <<>> /\ readers = {} /\ hsock # 0
      BY <1>2, <2>1 DEF BusyInv
    <2>3. \/ hsock' = hsock /\ readers' = {hsock} /\ to_main' = <<ConnectDone(0)>>
          \/ hsock' = 0 /\ readers' = {} /\ to_main' = <<ConnectDone(-1)>>
      BY <2>1, <2>2, Queues DEF SendMain, ConnectDone
    <2> QED BY <1>1, <1>2, <2>1, <2>2, <2>3 DEF CallInv, HcInv, LoopInv, Late
  <1>4. CASE hostiothread_unregister_gw \/ UnregisterTimesOut
    <2>1. /\ wpc \in {"unregister", "lost"} /\ EndDisconnect /\ UNCHANGED readers
      BY <1>4 DEF hostiothread_unregister_gw, UnregisterTimesOut, Alive
    <2>2. /\ hsock' = 0 /\ to_main' = Append(to_main, DisconnectDone)
          /\ wpc' = IF wpc = "lost" THEN "flag" ELSE "loop"
      BY <2>1 DEF EndDisconnect, CloseSocket, SendMain, DisconnectDone
    <2>3. readers' = {}
      BY <1>2, <2>1 DEF BusyInv
    <2>4. CASE wpc = "unregister"
      <3>1. mpc = "discwait" /\ to_io = <<>> /\ to_main' = <<DisconnectDone>>
        BY <1>2, <2>2, <2>4, Queues DEF BusyInv
      <3> QED BY <1>1, <1>2, <2>2, <2>3, <2>4, <3>1 DEF CallInv, HcInv, LoopInv, Late
    <2>5. CASE wpc = "lost"
      <3>1. DisconnectDone \in Status /\ DisconnectDone.name = "I-DISCONNECT-DONE"
        BY MessageTypes, DoneFields DEF DisconnectDone
      <3>2. CASE hc /\ to_main = <<>>
        <4>1. to_main' = <<DisconnectDone>> /\ Len(to_main') = 1
          BY <2>2, <3>2, Queues
        <4>2. to_main' # <<>> /\ to_main'[1] = DisconnectDone
          BY <4>1
        <4>3. \A i \in 1 .. Len(to_main') : to_main'[i].name # "I-CONNECT-DONE"
          BY <3>1, <4>1, <4>2
        <4> QED BY <1>1, <1>2, <2>2, <2>3, <2>5, <3>1, <4>2, <4>3
                DEF CallInv, HcInv, LateInv, Late
      <3>3. CASE mpc = "connwait" /\ to_main = <<ConnectDone(0)>>
        <4>1. /\ Len(to_main) = 1 /\ to_main[1] = ConnectDone(0)
              /\ to_main \in Seq(Status)
          BY <3>3 DEF TypeOK
        <4>2. /\ Len(to_main') = 2 /\ to_main'[1] = ConnectDone(0)
              /\ to_main'[2] = DisconnectDone
          <5>1. /\ Len(to_main') = Len(to_main) + 1
                /\ \A i \in 1 .. Len(to_main) : to_main'[i] = to_main[i]
                /\ to_main'[Len(to_main) + 1] = DisconnectDone
            <6>1. to_main \in Seq(Status) /\ to_main' = Append(to_main, DisconnectDone)
              BY <2>2, <4>1
            <6> QED BY <3>1, <6>1, AppendFacts
          <5> QED BY <4>1, <5>1
        <4>3. ConnectDone(0).value = 0
          BY DoneFields DEF ConnectDone
        <4>4. ~hc
          BY <1>2, <3>3 DEF HcInv
        <4>5. LateInv'
          <5>1. ASSUME NEW i \in 1 .. Len(to_main'), to_main'[i].name = "I-CONNECT-DONE"
                PROVE  i = 1
            BY <3>1, <4>2, <5>1
          <5> QED BY <1>1, <2>2, <2>3, <2>5, <3>1, <3>3, <4>2, <4>3, <4>4, <5>1
                  DEF LateInv
        <4> QED BY <1>1, <1>2, <2>2, <2>5, <4>5 DEF CallInv, HcInv, Late
      <3> QED BY <1>2, <2>5, <3>2, <3>3 DEF BusyInv
    <2> QED BY <2>1, <2>4, <2>5
  <1> QED BY <1>3, <1>4

LEMMA WorkerLostStep ==
    ASSUME TypeOK, CallInv, Alive', NEW s \in Session, hostiothread_rcv_from_hostctrl(s)
    PROVE  CallInv'
  <1>1. /\ UNCHANGED <<hc, dev, mpc, detected, to_io, to_main, hsock>>
        /\ wpc = "loop" /\ s \in readers
    BY DEF hostiothread_rcv_from_hostctrl, callVars
  <1>2. LoopInv /\ HcInv /\ s # 0
    BY <1>1 DEF CallInv, Session
  <1>3. hsock # 0 /\ readers = {hsock}
    BY <1>1, <1>2 DEF LoopInv
  <1>4. CASE UNCHANGED <<readers, wpc>>
    BY <1>1, <1>2, <1>4 DEF CallInv, HcInv, LoopInv, Late
  <1>5. CASE StartDisconnect("lost")
    <2>1. wpc' = "lost" /\ readers' = {}
      BY <1>3, <1>5 DEF StartDisconnect
    <2>2. (hc /\ to_main = <<>>) \/ (mpc = "connwait" /\ to_main = <<ConnectDone(0)>>)
      BY <1>2, <1>3 DEF LoopInv, HcInv
    <2> QED BY <1>1, <1>2, <1>3, <2>1, <2>2 DEF CallInv, HcInv, BusyInv, Late
  <1> QED BY <1>4, <1>5 DEF hostiothread_rcv_from_hostctrl

LEMMA WorkerEndStep ==
    ASSUME TypeOK, CallInv, Alive',
           FlagDeviceLoss \/ hostiothread_destroy \/ WorkerExits
             \/ forward_devicerx_to_hostctrl
    PROVE  CallInv'
  <1>1. UNCHANGED <<hc, dev, mpc, hsock, readers>>
    BY DEF FlagDeviceLoss, hostiothread_destroy, WorkerExits,
           forward_devicerx_to_hostctrl, callVars, ioVars
  <1>2. CASE forward_devicerx_to_hostctrl
    <2>1. UNCHANGED <<wpc, to_io, to_main, detected>>
      BY <1>2 DEF forward_devicerx_to_hostctrl, ioVars
    <2> QED BY <1>1, <2>1 DEF CallInv, HcInv, LoopInv, BusyInv, LateInv
  <1>3. CASE FlagDeviceLoss \/ WorkerExits
    <2>1. /\ wpc \in Late /\ wpc' \in Late /\ UNCHANGED to_main
          /\ wpc' # "flag" /\ (wpc = "flag" => detected') /\ (detected => detected')
      BY <1>3 DEF FlagDeviceLoss, WorkerExits, Late
    <2> QED BY <1>1, <2>1 DEF CallInv, HcInv, LateInv, Late
  <1>4. CASE hostiothread_destroy
    <2>1. /\ wpc = "ending" /\ wpc' = "closed" /\ detected' = detected
          /\ to_main' = Append(to_main, Done("I-SHUTDOWN-DONE", 0))
      BY <1>4 DEF hostiothread_destroy, SendMain
    <2>2. LateInv /\ HcInv
      BY <2>1 DEF CallInv, Late
    <2>3. /\ Len(to_main') = Len(to_main) + 1 /\ Len(to_main) \in Nat /\ to_main' # <<>>
          /\ \A i \in 1 .. Len(to_main) : to_main'[i] = to_main[i]
          /\ to_main'[Len(to_main) + 1].name = "I-SHUTDOWN-DONE"
      <3>1. to_main \in Seq(Status) /\ Done("I-SHUTDOWN-DONE", 0) \in Status
        BY MessageTypes DEF TypeOK
      <3>2. Done("I-SHUTDOWN-DONE", 0).name = "I-SHUTDOWN-DONE"
        BY DoneFields
      <3> QED BY <2>1, <3>1, <3>2, AppendFacts
    <2>4. hc => to_main'[1] = to_main[1] /\ to_main[1].name = "I-DISCONNECT-DONE"
      BY <2>2, <2>3 DEF LateInv, TypeOK
    <2>5. ASSUME NEW i \in 1 .. Len(to_main'), to_main'[i].name = "I-CONNECT-DONE"
          PROVE  /\ i = 1 /\ mpc = "connwait" /\ to_main'[1].value = 0
                 /\ Len(to_main') > 1 /\ to_main'[2].name = "I-DISCONNECT-DONE"
                 /\ detected
      <3>1. i \in 1 .. Len(to_main)
        BY <2>3, <2>5
      <3>2. to_main'[i] = to_main[i]
        BY <2>3, <3>1
      <3>3. /\ i = 1 /\ mpc = "connwait" /\ to_main[1].value = 0 /\ Len(to_main) > 1
            /\ to_main[2].name = "I-DISCONNECT-DONE" /\ detected
        BY <2>1, <2>2, <2>5, <3>1, <3>2 DEF LateInv
      <3>4. to_main'[1] = to_main[1] /\ to_main'[2] = to_main[2]
        BY <2>3, <3>3
      <3> QED BY <2>3, <3>3, <3>4
    <2>6. hc => detected
      BY <2>1, <2>2 DEF LateInv
    <2>7. LateInv'
      BY <1>1, <2>1, <2>2, <2>3, <2>4, <2>5, <2>6 DEF LateInv
    <2> QED BY <1>1, <2>1, <2>2, <2>7 DEF CallInv, HcInv, Late
  <1> QED BY <1>2, <1>3, <1>4

LEMMA NoStatusTimeout ==
    ASSUME TypeOK, Next, stimeouts' = 0
    PROVE  stimeouts = 0 /\ ~StatusTimesOut
  <1>1. stimeouts \in Nat
    BY DEF TypeOK
  <1>2. ~StatusTimesOut
    BY <1>1 DEF StatusTimesOut
  <1>3. CASE RxNext \/ WorkerSteps \/ EnvSteps
    BY <1>2, <1>3, RxFrame, WorkerFrame, EnvFrame DEF callVars
  <1>4. CASE MainCalls \/ osd_gateway_is_connected \/ JoinTimesOut
    BY <1>2, <1>4 DEF MainCalls, osd_gateway_connect, osd_gateway_disconnect,
          osd_gateway_free, osd_gateway_is_connected, JoinTimesOut
  <1>5. CASE MainNext
    BY <1>2, <1>5 DEF MainNext, disconnect_from_device, disconnect_from_hostctrl,
          DisconnectReceived, connect_to_hostctrl, ConnectReceived, connect_to_device,
          FreeReturns
  <1> QED BY <1>2, <1>3, <1>4, <1>5, Steps DEF MainSteps

LEMMA AliveBefore ==
    ASSUME Next, Alive'
    PROVE  Alive
  BY Steps, MainFrame, RxFrame, WorkerFrame, EnvFrame DEF Alive

LEMMA CallStep ==
    ASSUME TypeOK, ThreadInv, stimeouts = 0 /\ Alive => CallInv, Next,
           stimeouts' = 0, Alive'
    PROVE  CallInv'
  <1>1. CallInv /\ ~StatusTimesOut
    BY NoStatusTimeout, AliveBefore
  <1>2. CASE MainSteps
    BY <1>1, <1>2, MainCallsStep, MainDisconnectStep, MainConnectStep
       DEF MainSteps, MainNext
  <1>3. CASE RxNext
    BY <1>1, <1>3, RxCallStep
  <1>4. CASE WorkerSteps
    BY <1>1, <1>4, WorkerCommandStep, WorkerReplyStep, WorkerLostStep, WorkerEndStep
       DEF WorkerSteps, WorkerNext
  <1>5. CASE EnvSteps
    <2>1. UNCHANGED <<hc, dev, mpc, wpc, hsock, readers, to_io, to_main, detected>>
      BY <1>5, EnvFrame DEF callVars, ioVars
    <2> QED BY <1>1, <2>1 DEF CallInv, HcInv, LoopInv, BusyInv, LateInv
  <1> QED BY <1>2, <1>3, <1>4, <1>5, Steps

-----------------------------------------------------------------------------
(* The conversation of the worker and the host controller, as long as      *)
(* neither kind of wait timed out: the queues of the present session hold  *)
(* the registration, packets, or packets in front of the unregistration,   *)
(* and the queues of all others are empty.                                 *)

AllData(q) == \A i \in 1 .. Len(q) : q[i] = "D"
AckThenData(q) == /\ q # <<>> /\ q[1] = "ACK"
                  /\ \A i \in 2 .. Len(q) : q[i] = "D"

OnlyData(q) == \A i \in 1 .. Len(q) : q[i].type = "D"
DataThenUnregister(q) ==
    /\ Len(q) > 0
    /\ \A i \in 1 .. Len(q) : q[i].type = IF i = Len(q) THEN "GW_UNREGISTER" ELSE "D"

CtrlInv ==
    /\ hsock <= sessions
    /\ \A s \in Session : s # hsock => toctrl[s] = <<>>
    /\ \A s \in Session : s > sessions => fromctrl[s] = <<>>
    /\ hsock = 0 => registered = 0
    /\ wpc = "register" =>
          \/ /\ toctrl[hsock] = <<[type |-> "GW_REGISTER"]>>
             /\ fromctrl[hsock] = <<>> /\ registered = 0
          \/ toctrl[hsock] = <<>> /\ AckThenData(fromctrl[hsock]) /\ registered = hsock
    /\ wpc = "loop" /\ hsock # 0 =>
          /\ OnlyData(toctrl[hsock]) /\ AllData(fromctrl[hsock]) /\ registered = hsock
    /\ wpc \in {"unregister", "lost"} =>
          \/ /\ DataThenUnregister(toctrl[hsock]) /\ AllData(fromctrl[hsock])
             /\ registered = hsock
          \/ toctrl[hsock] = <<>> /\ registered = 0

LEMMA FromQueues ==
    ASSUME NEW q \in Seq(FromCtrl)
    PROVE  /\ AllData(q) => AllData(Append(q, "D"))
           /\ AllData(q) /\ q # <<>> => AllData(Tail(q)) /\ Head(q) = "D"
           /\ AckThenData(q) => AckThenData(Append(q, "D"))
           /\ AckThenData(q) => AllData(Tail(q)) /\ Head(q) = "ACK"
           /\ AckThenData(<<"ACK">>)
  <1>0. "D" \in FromCtrl
    BY DEF FromCtrl
  <1>1. AllData(q) => AllData(Append(q, "D"))
    BY <1>0, AppendFacts DEF AllData
  <1>2. AllData(q) /\ q # <<>> => AllData(Tail(q)) /\ Head(q) = "D"
    BY TailFacts DEF AllData
  <1>3. AckThenData(q) => AckThenData(Append(q, "D"))
    BY <1>0, AppendFacts DEF AckThenData
  <1>4. AckThenData(q) => AllData(Tail(q)) /\ Head(q) = "ACK"
    BY TailFacts DEF AckThenData, AllData
  <1>5. AckThenData(<<"ACK">>)
    BY DEF AckThenData
  <1> QED BY <1>1, <1>2, <1>3, <1>4, <1>5

LEMMA ToQueues ==
    ASSUME NEW q \in Seq(ToCtrl)
    PROVE  /\ OnlyData(<<>>)
           /\ \A p \in Packet : OnlyData(q) => OnlyData(Append(q, [type |-> "D", id |-> p]))
           /\ OnlyData(q) /\ q # <<>> => OnlyData(Tail(q)) /\ Head(q).type = "D"
           /\ OnlyData(q) => DataThenUnregister(Append(q, [type |-> "GW_UNREGISTER"]))
           /\ DataThenUnregister(q) =>
                \/ Head(q).type = "GW_UNREGISTER" /\ Tail(q) = <<>>
                \/ Head(q).type = "D" /\ DataThenUnregister(Tail(q))
  <1>1. OnlyData(<<>>)
    BY DEF OnlyData
  <1>2. ASSUME NEW p \in Packet, OnlyData(q)
        PROVE  OnlyData(Append(q, [type |-> "D", id |-> p]))
    <2>1. [type |-> "D", id |-> p] \in ToCtrl
      BY MessageTypes
    <2> QED BY <1>2, <2>1, AppendFacts DEF OnlyData
  <1>3. OnlyData(q) /\ q # <<>> => OnlyData(Tail(q)) /\ Head(q).type = "D"
    BY TailFacts DEF OnlyData
  <1>4. OnlyData(q) => DataThenUnregister(Append(q, [type |-> "GW_UNREGISTER"]))
    BY AppendFacts, MessageTypes DEF OnlyData, DataThenUnregister
  <1>5. ASSUME DataThenUnregister(q)
        PROVE  \/ Head(q).type = "GW_UNREGISTER" /\ Tail(q) = <<>>
               \/ Head(q).type = "D" /\ DataThenUnregister(Tail(q))
    <2>1. q # <<>>
      BY <1>5 DEF DataThenUnregister
    <2>2. CASE Len(q) = 1
      BY <1>5, <2>1, <2>2, TailFacts DEF DataThenUnregister
    <2>3. CASE Len(q) > 1
      BY <1>5, <2>1, <2>3, TailFacts DEF DataThenUnregister
    <2> QED BY <1>5, <2>2, <2>3 DEF DataThenUnregister
  <1> QED BY <1>1, <1>2, <1>3, <1>4, <1>5

LEMMA CtrlTypes ==
    ASSUME TypeOK
    PROVE  /\ toctrl \in [Session -> Seq(ToCtrl)]
           /\ fromctrl \in [Session -> Seq(FromCtrl)]
           /\ hsock # 0 => /\ hsock \in Session
                           /\ toctrl[hsock] \in Seq(ToCtrl)
                           /\ fromctrl[hsock] \in Seq(FromCtrl)
           /\ sessions \in Nat /\ 0 \notin Session
  <1>1. 0 \notin Session
    BY GatewayAssumption DEF Session
  <1>2. sessions \in Nat
    BY GatewayAssumption DEF TypeOK
  <1> QED BY <1>1, <1>2 DEF TypeOK

LEMMA CtrlConnectStep ==
    ASSUME TypeOK, CallInv, CtrlInv, hostiothread_connect_to_hostctrl
    PROVE  CtrlInv'
  <1>1. wpc = "loop" /\ hsock = 0 /\ UNCHANGED <<fromctrl, registered>>
    BY CommandTaken DEF hostiothread_connect_to_hostctrl
  <1>2. /\ \A s \in Session : toctrl[s] = <<>>
        /\ \A s \in Session : s > sessions => fromctrl[s] = <<>>
        /\ registered = 0
    BY <1>1, CtrlTypes DEF CtrlInv
  <1>3. CASE hsock' = 0 /\ UNCHANGED <<sessions, toctrl, wpc>>
    BY <1>1, <1>2, <1>3, CtrlTypes DEF CtrlInv
  <1>4. CASE /\ sessions < MaxConnects /\ sessions' = sessions + 1
             /\ hsock' = sessions + 1 /\ wpc' = "register"
             /\ toctrl' = [toctrl EXCEPT ![sessions + 1] =
                              Append(@, [type |-> "GW_REGISTER"])]
    <2>1. sessions + 1 \in Session /\ sessions \in Nat
      BY <1>4, GatewayAssumption DEF TypeOK, Session
    <2>2. /\ toctrl'[hsock'] = <<[type |-> "GW_REGISTER"]>>
          /\ fromctrl'[hsock'] = <<>>
      <3>1. sessions + 1 > sessions /\ fromctrl[sessions + 1] = <<>>
        BY <1>2, <2>1
      <3>2. toctrl'[sessions + 1] = Append(<<>>, [type |-> "GW_REGISTER"])
        BY <1>2, <1>4, <2>1, CtrlTypes
      <3> QED BY <1>1, <1>4, <3>1, <3>2, Queues
    <2>3. \A s \in Session : s # hsock' => toctrl'[s] = <<>>
      BY <1>2, <1>4, CtrlTypes
    <2>4. \A s \in Session : s > sessions' => fromctrl'[s] = <<>>
      BY <1>1, <1>2, <1>4, <2>1 DEF Session
    <2> QED BY <1>1, <1>2, <1>4, <2>1, <2>2, <2>3, <2>4 DEF CtrlInv
  <1> QED BY <1>3, <1>4 DEF hostiothread_connect_to_hostctrl

LEMMA CtrlRegisterStep ==
    ASSUME TypeOK, WaitsOnSocket, CtrlInv, hostiothread_register_gw
    PROVE  CtrlInv'
  <1>1. wpc = "register" /\ hsock # 0 /\ fromctrl[hsock] # <<>> /\ wpc' = "loop"
    BY DEF hostiothread_register_gw, WaitsOnSocket
  <1>2. toctrl[hsock] = <<>> /\ AckThenData(fromctrl[hsock]) /\ registered = hsock
    BY <1>1 DEF CtrlInv
  <1>3. Head(fromctrl[hsock]) = "ACK" /\ AllData(Tail(fromctrl[hsock]))
    BY <1>1, <1>2, CtrlTypes, FromQueues
  <1>4. /\ fromctrl' = [fromctrl EXCEPT ![hsock] = Tail(@)]
        /\ UNCHANGED <<hsock, toctrl, sessions, registered>>
    BY <1>3 DEF hostiothread_register_gw
  <1>5. fromctrl'[hsock] = Tail(fromctrl[hsock])
    BY <1>1, <1>4, CtrlTypes
  <1>6. OnlyData(toctrl[hsock])
    BY <1>1, <1>2, CtrlTypes, ToQueues
  <1>7. \A s \in Session : s > sessions => fromctrl'[s] = <<>>
    BY <1>1, <1>4, CtrlTypes DEF CtrlInv
  <1> QED BY <1>1, <1>2, <1>3, <1>4, <1>5, <1>6, <1>7 DEF CtrlInv

(* GW_UNREGISTER goes behind the packets.                                  *)
LEMMA CtrlStartStep ==
    ASSUME TypeOK, CtrlInv, hsock # 0, wpc = "loop",
           NEW next \in {"unregister", "lost"}, StartDisconnect(next),
           UNCHANGED <<hsock, sessions, registered>>,
           AllData(fromctrl'[hsock]),
           \A s \in Session : s > sessions => fromctrl'[s] = <<>>
    PROVE  CtrlInv'
  <1>1. /\ wpc' = next
        /\ toctrl' = [toctrl EXCEPT ![hsock] = Append(@, [type |-> "GW_UNREGISTER"])]
    BY DEF StartDisconnect
  <1>2. /\ toctrl'[hsock] = Append(toctrl[hsock], [type |-> "GW_UNREGISTER"])
        /\ \A s \in Session : s # hsock => toctrl'[s] = toctrl[s]
    BY <1>1, CtrlTypes
  <1>3. DataThenUnregister(toctrl'[hsock]) /\ registered = hsock
    BY <1>2, CtrlTypes, ToQueues DEF CtrlInv
  <1> QED BY <1>1, <1>2, <1>3 DEF CtrlInv

LEMMA CtrlDisconnectStep ==
    ASSUME TypeOK, CallInv, CtrlInv, HandleDisconnect
    PROVE  CtrlInv'
  <1>1. wpc = "loop" /\ hsock # 0
    BY CommandTaken DEF HandleDisconnect
  <1>2. StartDisconnect("unregister") /\ UNCHANGED <<hsock, sessions, registered, fromctrl>>
    BY DEF HandleDisconnect
  <1> QED BY <1>1, <1>2, CtrlStartStep DEF CtrlInv

LEMMA CtrlReceiveStep ==
    ASSUME TypeOK, CallInv, CtrlInv, NEW s \in Session, hostiothread_rcv_from_hostctrl(s)
    PROVE  CtrlInv'
  <1>1. /\ wpc = "loop" /\ s \in readers /\ fromctrl[s] # <<>>
        /\ fromctrl' = [fromctrl EXCEPT ![s] = Tail(@)]
        /\ UNCHANGED <<hsock, sessions, registered>>
    BY DEF hostiothread_rcv_from_hostctrl
  <1>2. s = hsock /\ hsock # 0
    BY <1>1, CtrlTypes DEF CallInv, LoopInv
  <1>3. /\ AllData(fromctrl[hsock]) /\ OnlyData(toctrl[hsock]) /\ registered = hsock
        /\ hsock <= sessions
    BY <1>1, <1>2 DEF CtrlInv
  <1>4. AllData(fromctrl'[hsock])
    BY <1>1, <1>2, <1>3, CtrlTypes, FromQueues
  <1>5. \A t \in Session : t > sessions => fromctrl'[t] = <<>>
    BY <1>1, <1>2, <1>3, CtrlTypes DEF CtrlInv
  <1>6. CASE UNCHANGED <<toctrl, wpc>>
    BY <1>1, <1>2, <1>3, <1>4, <1>5, <1>6 DEF CtrlInv
  <1>7. CASE StartDisconnect("lost")
    BY <1>1, <1>2, <1>4, <1>5, <1>7, CtrlStartStep
  <1> QED BY <1>6, <1>7 DEF hostiothread_rcv_from_hostctrl

(* The answer is there, so the unregistration has been taken.              *)
LEMMA CtrlUnregisterStep ==
    ASSUME TypeOK, WaitsOnSocket, CtrlInv, hostiothread_unregister_gw, Alive'
    PROVE  CtrlInv'
  <1>1. /\ wpc \in {"unregister", "lost"} /\ hsock # 0 /\ fromctrl[hsock] # <<>>
        /\ Head(fromctrl[hsock]) # "D" /\ EndDisconnect
        /\ UNCHANGED <<sessions, registered>>
    BY DEF hostiothread_unregister_gw, WaitsOnSocket, Alive
  <1>2. ~AllData(fromctrl[hsock])
    BY <1>1, CtrlTypes, FromQueues
  <1>3. toctrl[hsock] = <<>> /\ registered = 0
    BY <1>1, <1>2 DEF CtrlInv
  <1>4. PICK k \in 0 .. Len(toctrl[hsock]) :
           toctrl' = [toctrl EXCEPT ![hsock] = SubSeq(@, 1, k)]
    BY <1>1 DEF EndDisconnect, CloseSocket
  <1>5. k = 0 /\ SubSeq(<<>>, 1, 0) = <<>>
    BY <1>3, <1>4
  <1>6. \A s \in Session : toctrl'[s] = <<>>
    BY <1>1, <1>3, <1>4, <1>5, CtrlTypes DEF CtrlInv
  <1>7. /\ hsock' = 0 /\ fromctrl' = [fromctrl EXCEPT ![hsock] = <<>>]
        /\ wpc' \in {"loop", "flag"}
    BY <1>1 DEF EndDisconnect, CloseSocket
  <1>8. \A s \in Session : s > sessions => fromctrl'[s] = <<>>
    BY <1>7, CtrlTypes DEF CtrlInv
  <1> QED BY <1>1, <1>3, <1>6, <1>7, <1>8, CtrlTypes DEF CtrlInv

LEMMA CtrlForwardStep ==
    ASSUME TypeOK, CtrlInv, forward_devicerx_to_hostctrl, Alive'
    PROVE  CtrlInv'
  <1>1. /\ wpc = "loop" /\ devq # <<>> /\ hsock # 0
        /\ toctrl' = [toctrl EXCEPT ![hsock] =
                         Append(@, [type |-> "D", id |-> Head(devq)])]
        /\ UNCHANGED <<wpc, hsock, sessions, registered, fromctrl>>
    BY DEF forward_devicerx_to_hostctrl, ioVars, Alive
  <1>2. Head(devq) \in Packet
    BY <1>1 DEF TypeOK
  <1>3. /\ toctrl'[hsock] = Append(toctrl[hsock], [type |-> "D", id |-> Head(devq)])
        /\ \A s \in Session : s # hsock => toctrl'[s] = toctrl[s]
    BY <1>1, CtrlTypes
  <1>4. OnlyData(toctrl'[hsock])
    BY <1>1, <1>2, <1>3, CtrlTypes, ToQueues DEF CtrlInv
  <1> QED BY <1>1, <1>3, <1>4 DEF CtrlInv

LEMMA CtrlEndStep ==
    ASSUME TypeOK, CallInv, CtrlInv,
           HandleShutdown \/ FlagDeviceLoss \/ hostiothread_destroy \/ WorkerExits
    PROVE  CtrlInv'
  <1>1. /\ UNCHANGED <<hsock, sessions, toctrl, fromctrl, registered>>
        /\ wpc' \in {"ending", "closed", "ended"}
    BY DEF HandleShutdown, FlagDeviceLoss, hostiothread_destroy, WorkerExits, ctrlVars
  <1> QED BY <1>1 DEF CtrlInv

(* A session that is not open yet stays empty if only the present one      *)
(* receives.                                                               *)
LEMMA CtrlUnopened ==
    ASSUME TypeOK, CtrlInv, sessions' = sessions,
           \A t \in Session : t # hsock => fromctrl'[t] = fromctrl[t]
    PROVE  \A t \in Session : t > sessions' => fromctrl'[t] = <<>>
  <1> SUFFICES ASSUME NEW t \in Session, t > sessions
               PROVE  fromctrl'[t] = <<>>
    OBVIOUS
  <1>1. hsock \in Int /\ sessions \in Int /\ t \in Int /\ hsock <= sessions
    BY GatewayAssumption DEF TypeOK, Session, CtrlInv
  <1>2. t # hsock
    BY <1>1
  <1> QED BY <1>2 DEF CtrlInv

(* The controller only has something to take from the present session, and *)
(* its answers and packets go there.                                       *)
LEMMA CtrlTakesStep ==
    ASSUME TypeOK, CallInv, CtrlInv, NEW s \in Session, HostctrlTakes(s)
    PROVE  CtrlInv'
  <1>1. /\ toctrl[s] # <<>> /\ toctrl' = [toctrl EXCEPT ![s] = Tail(@)]
        /\ UNCHANGED <<wpc, hsock, sessions>>
    BY DEF HostctrlTakes, ioVars
  <1>2. s = hsock /\ hsock # 0 /\ hsock <= sessions
    BY <1>1, CtrlTypes DEF CtrlInv
  <1>3. /\ toctrl'[hsock] = Tail(toctrl[hsock])
        /\ \A t \in Session : t # hsock => toctrl'[t] = toctrl[t]
    BY <1>1, <1>2, CtrlTypes
  <1>4. IsOpen(s)
    BY <1>2 DEF IsOpen
  <1>5. CASE wpc = "register"
    <2>1. /\ toctrl[hsock] = <<[type |-> "GW_REGISTER"]>>
          /\ fromctrl[hsock] = <<>> /\ registered = 0
      BY <1>1, <1>2, <1>5 DEF CtrlInv
    <2>2. Head(toctrl[s]).type = "GW_REGISTER" /\ toctrl'[hsock] = <<>>
      BY <1>2, <1>3, <2>1, Queues
    <2>3. registered' = s /\ fromctrl' = [fromctrl EXCEPT ![s] = Append(@, "ACK")]
      BY <1>4, <2>1, <2>2 DEF HostctrlTakes, Reply
    <2>4. /\ fromctrl'[hsock] = <<"ACK">>
          /\ \A t \in Session : t # hsock => fromctrl'[t] = fromctrl[t]
      BY <1>2, <2>1, <2>3, CtrlTypes, Queues
    <2>5. AckThenData(fromctrl'[hsock])
      BY <1>2, <2>4, CtrlTypes, FromQueues
    <2>6. \A t \in Session : t > sessions' => fromctrl'[t] = <<>>
      BY <1>1, <2>4, CtrlUnopened
    <2> QED BY <1>1, <1>2, <1>3, <1>5, <2>2, <2>3, <2>5, <2>6 DEF CtrlInv
  <1>6. CASE wpc = "loop"
    <2>1. OnlyData(toctrl[hsock]) /\ AllData(fromctrl[hsock]) /\ registered = hsock
      BY <1>2, <1>6 DEF CtrlInv
    <2>2. Head(toctrl[s]).type = "D" /\ OnlyData(toctrl'[hsock])
      BY <1>1, <1>2, <1>3, <2>1, CtrlTypes, ToQueues
    <2>3. UNCHANGED <<fromctrl, registered>>
      BY <2>2 DEF HostctrlTakes
    <2> QED BY <1>1, <1>2, <1>3, <1>6, <2>1, <2>2, <2>3 DEF CtrlInv
  <1>7. CASE wpc \in {"unregister", "lost"}
    <2>1. /\ DataThenUnregister(toctrl[hsock]) /\ AllData(fromctrl[hsock])
          /\ registered = hsock
      BY <1>1, <1>2, <1>7 DEF CtrlInv
    <2>2. CASE Head(toctrl[hsock]).type = "GW_UNREGISTER" /\ Tail(toctrl[hsock]) = <<>>
      <3>1. registered' = 0 /\ fromctrl' = [fromctrl EXCEPT ![s] = Append(@, "ACK")]
        BY <1>2, <1>4, <2>1, <2>2 DEF HostctrlTakes, Reply
      <3>2. \A t \in Session : t # hsock => fromctrl'[t] = fromctrl[t]
        BY <1>2, <3>1, CtrlTypes
      <3>3. \A t \in Session : t > sessions' => fromctrl'[t] = <<>>
        BY <1>1, <3>2, CtrlUnopened
      <3> QED BY <1>1, <1>2, <1>3, <1>7, <2>2, <3>1, <3>3 DEF CtrlInv
    <2>3. CASE Head(toctrl[hsock]).type = "D" /\ DataThenUnregister(Tail(toctrl[hsock]))
      <3>1. UNCHANGED <<fromctrl, registered>>
        BY <1>2, <2>3 DEF HostctrlTakes
      <3> QED BY <1>1, <1>2, <1>3, <1>7, <2>1, <2>3, <3>1 DEF CtrlInv
    <2> QED BY <1>2, <2>1, <2>2, <2>3, CtrlTypes, ToQueues
  <1>8. wpc \in Late => FALSE
    BY <1>2 DEF CallInv, LateInv
  <1> QED BY <1>5, <1>6, <1>7, <1>8 DEF Late, TypeOK, WorkerPc

LEMMA CtrlRoutesStep ==
    ASSUME TypeOK, CallInv, CtrlInv, HostctrlRoutes
    PROVE  CtrlInv'
  <1>1. /\ registered # 0 /\ Reply(registered, "D")
        /\ UNCHANGED <<wpc, hsock, sessions, toctrl, registered>>
    BY DEF HostctrlRoutes, ioVars
  <1>2. hsock # 0 /\ hsock <= sessions
    BY <1>1 DEF CtrlInv
  <1>3. wpc \notin Late
    BY <1>2 DEF CallInv, LateInv
  <1>4. registered = hsock
    BY <1>1, <1>2, <1>3 DEF CtrlInv, TypeOK, WorkerPc, Late
  <1>5. fromctrl' = [fromctrl EXCEPT ![hsock] = Append(@, "D")]
    BY <1>1, <1>4 DEF Reply, IsOpen
  <1>6. /\ fromctrl'[hsock] = Append(fromctrl[hsock], "D")
        /\ \A t \in Session : t # hsock => fromctrl'[t] = fromctrl[t]
    BY <1>2, <1>5, CtrlTypes
  <1>7. /\ AllData(fromctrl[hsock]) => AllData(fromctrl'[hsock])
        /\ AckThenData(fromctrl[hsock]) => AckThenData(fromctrl'[hsock])
    BY <1>2, <1>6, CtrlTypes, FromQueues
  <1>8. \A t \in Session : t > sessions' => fromctrl'[t] = <<>>
    BY <1>1, <1>6, CtrlUnopened
  <1> QED BY <1>1, <1>2, <1>3, <1>4, <1>7, <1>8 DEF CtrlInv

LEMMA NoReplyTimeout ==
    ASSUME TypeOK, Next, rtimeouts' = 0
    PROVE  rtimeouts = 0 /\ ~RegisterTimesOut /\ ~UnregisterTimesOut
  <1>1. rtimeouts \in Nat
    BY DEF TypeOK
  <1>2. ~RegisterTimesOut /\ ~UnregisterTimesOut
    BY <1>1 DEF RegisterTimesOut, UnregisterTimesOut
  <1>3. CASE MainSteps \/ RxNext \/ EnvSteps
    BY <1>2, <1>3, MainFrame, RxFrame, EnvFrame DEF ioVars
  <1>4. CASE WorkerNext
    BY <1>2, <1>4 DEF WorkerNext, hostiothread_connect_to_hostctrl,
          hostiothread_register_gw, HandleDisconnect, hostiothread_unregister_gw,
          HandleShutdown, FlagDeviceLoss, hostiothread_destroy, WorkerExits
  <1>5. CASE \/ forward_devicerx_to_hostctrl
             \/ \E s \in Session : hostiothread_rcv_from_hostctrl(s)
    BY <1>2, <1>5 DEF forward_devicerx_to_hostctrl, hostiothread_rcv_from_hostctrl, ioVars
  <1> QED BY <1>2, <1>3, <1>4, <1>5, Steps DEF WorkerSteps

LEMMA CtrlStep ==
    ASSUME TypeOK, WaitsOnSocket, stimeouts = 0 /\ Alive => CallInv,
           stimeouts = 0 /\ rtimeouts = 0 /\ Alive => CtrlInv, Next,
           stimeouts' = 0, rtimeouts' = 0, Alive'
    PROVE  CtrlInv'
  <1>1. CallInv /\ CtrlInv /\ ~RegisterTimesOut /\ ~UnregisterTimesOut
    BY NoStatusTimeout, NoReplyTimeout, AliveBefore
  <1>2. CASE MainSteps \/ RxNext
    <2>1. UNCHANGED <<wpc, hsock, sessions, toctrl, fromctrl, registered>>
      BY <1>2, MainFrame, RxFrame DEF ioVars, ctrlVars
    <2> QED BY <1>1, <2>1 DEF CtrlInv
  <1>3. CASE WorkerSteps
    BY <1>1, <1>3, CtrlConnectStep, CtrlRegisterStep, CtrlDisconnectStep,
       CtrlReceiveStep, CtrlUnregisterStep, CtrlForwardStep, CtrlEndStep
       DEF WorkerSteps, WorkerNext
  <1>4. CASE DeviceLost \/ DeviceReturns
    <2>1. UNCHANGED <<wpc, hsock, sessions, toctrl, fromctrl, registered>>
      BY <1>4 DEF DeviceLost, DeviceReturns, ioVars, ctrlVars
    <2> QED BY <1>1, <2>1 DEF CtrlInv
  <1> QED BY <1>1, <1>2, <1>3, <1>4, CtrlTakesStep, CtrlRoutesStep, Steps DEF EnvSteps

-----------------------------------------------------------------------------
(* The assertions.                                                         *)

(* Packets and timeouts that happened have happened.                       *)
LEMMA CountsGrow ==
    ASSUME TypeOK, Next
    PROVE  /\ nwrite > 0 => nwrite' > 0
           /\ nread > 0 => nread' > 0
           /\ stimeouts > 0 => stimeouts' > 0
  <1>1. nwrite > 0 => nwrite' > 0
    <2>1. CASE MainSteps \/ RxNext \/ WorkerSteps
      BY <2>1, MainFrame, RxFrame, WorkerFrame DEF ctrlVars
    <2>2. CASE HostctrlRoutes
      BY <2>2 DEF HostctrlRoutes, TypeOK
    <2>3. CASE (\E s \in Session : HostctrlTakes(s)) \/ DeviceLost \/ DeviceReturns
      BY <2>3 DEF HostctrlTakes, DeviceLost, DeviceReturns, ctrlVars
    <2> QED BY <2>1, <2>2, <2>3, Steps DEF EnvSteps
  <1>2. nread > 0 => nread' > 0
    <2>1. CASE MainSteps \/ WorkerSteps \/ EnvSteps
      BY <2>1, MainFrame, WorkerFrame, EnvFrame DEF rxVars
    <2>2. CASE RxNext
      BY <2>2 DEF RxNext, RxReads, RxSends, RxCancelled, TypeOK
    <2> QED BY <2>1, <2>2, Steps
  <1>3. stimeouts > 0 => stimeouts' > 0
    <2>1. stimeouts \in Nat
      BY DEF TypeOK
    <2>2. CASE StatusTimesOut
      BY <2>1, <2>2 DEF StatusTimesOut
    <2>3. CASE RxNext \/ WorkerSteps \/ EnvSteps
      BY <2>3, RxFrame, WorkerFrame, EnvFrame DEF callVars
    <2>4. CASE MainCalls \/ osd_gateway_is_connected \/ JoinTimesOut
      BY <2>4 DEF MainCalls, osd_gateway_connect, osd_gateway_disconnect,
            osd_gateway_free, osd_gateway_is_connected, JoinTimesOut
    <2>5. CASE MainNext
      BY <2>5 DEF MainNext, disconnect_from_device, disconnect_from_hostctrl,
            DisconnectReceived, connect_to_hostctrl, ConnectReceived, connect_to_device,
            FreeReturns
    <2> QED BY <2>2, <2>3, <2>4, <2>5, Steps DEF MainSteps
  <1> QED BY <1>1, <1>2, <1>3

LEMMA AbortStep ==
    ASSUME TypeOK, WaitsOnSocket, PipeInv, TrafficInv, AbortsOnlyWithTraffic,
           stimeouts = 0 /\ Alive => CallInv, Next
    PROVE  AbortsOnlyWithTraffic'
  <1>0. ASSUME UNCHANGED abort PROVE AbortsOnlyWithTraffic'
    BY <1>0, CountsGrow DEF AbortsOnlyWithTraffic
  <1>1. CASE MainSteps \/ RxNext \/ EnvSteps
    BY <1>0, <1>1, MainFrame, RxFrame, EnvFrame
  <1>2. nread \in Nat /\ stimeouts \in Nat /\ nwrite \in Nat
    BY DEF TypeOK
  <1>3. CASE WorkerSteps
    <2>1. /\ Alive /\ UNCHANGED <<nread, nwrite, stimeouts>>
      BY <1>3, WorkerFrame DEF callVars
    <2>2. CASE hostiothread_unregister_gw
      <3>1. hsock \in Session
        BY <2>2 DEF hostiothread_unregister_gw, WaitsOnSocket, TypeOK
      <3>2. abort' # "no" => abort' = "not_mgmt" /\ Head(fromctrl[hsock]) = "D"
                               /\ fromctrl[hsock] # <<>>
        BY <2>1, <2>2 DEF hostiothread_unregister_gw, Alive
      <3>3. abort' # "no" => nwrite > 0
        BY <1>2, <3>1, <3>2, NoPacketKept DEF TrafficInv, TypeOK
      <3> QED BY <2>1, <3>2, <3>3 DEF AbortsOnlyWithTraffic
    <2>3. CASE forward_devicerx_to_hostctrl
      <3>1. nread > 0 /\ abort' # "not_mgmt"
        BY <1>2, <2>1, <2>3 DEF forward_devicerx_to_hostctrl, PipeInv, Alive
      <3> QED BY <2>1, <3>1 DEF AbortsOnlyWithTraffic
    <2>4. CASE HandleDisconnect
      <3>1. hsock = 0 => stimeouts > 0
        BY <1>2, <2>1, <2>4, CommandTaken DEF HandleDisconnect
      <3>2. abort' # "no" => abort' = "no_socket" /\ hsock = 0
        BY <2>1, <2>4 DEF HandleDisconnect, StartDisconnect, Alive
      <3> QED BY <2>1, <3>1, <3>2 DEF AbortsOnlyWithTraffic
    <2>5. ASSUME NEW s \in Session, hostiothread_rcv_from_hostctrl(s)
          PROVE  AbortsOnlyWithTraffic'
      <3>1. hsock = 0 => stimeouts > 0
        BY <1>2, <2>1, <2>5 DEF hostiothread_rcv_from_hostctrl, CallInv, LoopInv
      <3>2. abort' # "no" => abort' = "no_socket" /\ hsock = 0
        BY <2>1, <2>5 DEF hostiothread_rcv_from_hostctrl, StartDisconnect, Alive
      <3> QED BY <2>1, <3>1, <3>2 DEF AbortsOnlyWithTraffic
    <2>6. CASE \/ hostiothread_connect_to_hostctrl \/ hostiothread_register_gw
               \/ RegisterTimesOut \/ UnregisterTimesOut
      BY <1>0, <2>6 DEF hostiothread_connect_to_hostctrl, hostiothread_register_gw,
                        RegisterTimesOut, UnregisterTimesOut
    <2>7. CASE HandleShutdown \/ FlagDeviceLoss \/ hostiothread_destroy \/ WorkerExits
      BY <1>0, <2>7 DEF HandleShutdown, FlagDeviceLoss, hostiothread_destroy, WorkerExits
    <2> QED BY <1>3, <2>2, <2>3, <2>4, <2>5, <2>6, <2>7 DEF WorkerSteps, WorkerNext
  <1> QED BY <1>1, <1>3, Steps

-----------------------------------------------------------------------------
(* The inductive invariant and what it implies.                            *)

IInv ==
    /\ TypeOK /\ WaitsOnSocket /\ ThreadInv
    /\ PipeInv /\ ForwardedInOrder
    /\ FlagInv
    /\ TrafficInv /\ AbortsOnlyWithTraffic
    /\ stimeouts = 0 /\ Alive => CallInv
    /\ stimeouts = 0 /\ rtimeouts = 0 /\ Alive => CtrlInv

LEMMA InitIInv == Init => IInv
  <1> SUFFICES ASSUME Init PROVE IInv
    OBVIOUS
  <1>1. TypeOK
    BY InitType
  <1>2. WaitsOnSocket /\ ThreadInv /\ PipeInv /\ FlagInv /\ AbortsOnlyWithTraffic
    BY DEF Init, WaitsOnSocket, ThreadInv, PipeInv, FlagInv, AbortsOnlyWithTraffic
  <1>3. ForwardedInOrder
    BY DEF Init, ForwardedInOrder
  <1>4. TrafficInv
    BY DEF Init, TrafficInv, NoPacket
  <1>5. CallInv
    BY DEF Init, CallInv, HcInv, LoopInv, Late
  <1>6. CtrlInv
    BY DEF Init, CtrlInv
  <1> QED BY <1>1, <1>2, <1>3, <1>4, <1>5, <1>6 DEF IInv

LEMMA StutterIInv ==
    ASSUME IInv, UNCHANGED vars
    PROVE  IInv'
  <1> USE DEF vars, callVars, rxVars, ioVars, ctrlVars
  <1>1. TypeOK'
    BY DEF IInv, TypeOK
  <1>2. (WaitsOnSocket /\ ThreadInv /\ PipeInv /\ FlagInv /\ AbortsOnlyWithTraffic)'
    BY DEF IInv, WaitsOnSocket, ThreadInv, PipeInv, FlagInv, AbortsOnlyWithTraffic
  <1>3. (ForwardedInOrder /\ TrafficInv)'
    BY DEF IInv, ForwardedInOrder, TrafficInv, Alive
  <1>4. (stimeouts = 0 /\ Alive => CallInv)'
    BY DEF IInv, CallInv, HcInv, LoopInv, BusyInv, LateInv, Alive
  <1>5. (stimeouts = 0 /\ rtimeouts = 0 /\ Alive => CtrlInv)'
    BY DEF IInv, CtrlInv, Alive
  <1> QED BY <1>1, <1>2, <1>3, <1>4, <1>5 DEF IInv

LEMMA NextIInv ==
    ASSUME IInv, [Next]_vars
    PROVE  IInv'
  <1>1. CASE Next
    <2>1. /\ TypeOK /\ WaitsOnSocket /\ ThreadInv /\ PipeInv /\ ForwardedInOrder
          /\ FlagInv /\ TrafficInv /\ AbortsOnlyWithTraffic
          /\ stimeouts = 0 /\ Alive => CallInv
          /\ stimeouts = 0 /\ rtimeouts = 0 /\ Alive => CtrlInv
      BY DEF IInv
    <2>2. TypeOK' /\ WaitsOnSocket' /\ ThreadInv'
      BY <1>1, <2>1, NextType, WaitsStep, ThreadStep
    <2>3. PipeInv' /\ ForwardedInOrder' /\ FlagInv'
      BY <1>1, <2>1, PipeStep, OrderStep, FlagStep
    <2>4. TrafficInv' /\ AbortsOnlyWithTraffic'
      BY <1>1, <2>1, TrafficStep, AbortStep
    <2>5. stimeouts' = 0 /\ Alive' => CallInv'
      BY <1>1, <2>1, CallStep
    <2>6. stimeouts' = 0 /\ rtimeouts' = 0 /\ Alive' => CtrlInv'
      BY <1>1, <2>1, CtrlStep
    <2> QED BY <2>2, <2>3, <2>4, <2>5, <2>6 DEF IInv
  <1>2. CASE UNCHANGED vars
    BY <1>2, StutterIInv
  <1> QED BY <1>1, <1>2

LEMMA Invariance == Spec => []IInv
  BY InitIInv, NextIInv, PTL DEF Spec

(* In every behaviour of the gateway the RX thread runs only while the     *)
(* gateway is connected to the device and its socket is open:              *)
(* disconnect_from_device joins before it destroys.                        *)
THEOREM RxThreadSafe == Spec => []RxThreadHasSocket
  <1>1. IInv => RxThreadHasSocket
    BY DEF IInv, ThreadInv, RxThreadHasSocket
  <1> QED BY <1>1, Invariance, PTL

(* Two threads and two queues lose, duplicate and reorder no packet of the *)
(* device on the first connection.                                         *)
THEOREM OrderKept == Spec => []ForwardedInOrder
  <1>1. IInv => ForwardedInOrder
    BY DEF IInv
  <1> QED BY <1>1, Invariance, PTL

(* When a call acts on device_disconnect_detected, a thread of the present *)
(* connection has given up: the flag never outlives its connection.        *)
THEOREM FlagIsCurrent == Spec => []LossFlagIsCurrent
  <1>1. IInv => LossFlagIsCurrent
    BY DEF IInv, FlagInv, LossFlagIsCurrent
  <1> QED BY <1>1, Invariance, PTL

(* The assertions of the gateway fail only if a packet is in the way, or a *)
(* status wait timed out.                                                  *)
THEOREM AbortCauses == Spec => []AbortsOnlyWithTraffic
  <1>1. IInv => AbortsOnlyWithTraffic
    BY DEF IInv
  <1> QED BY <1>1, Invariance, PTL

(* Without timeouts, is_connected_to_hostctrl and the registration at the  *)
(* host controller agree whenever the main thread is outside of a call.    *)
THEOREM RegistrationAgrees == Spec => []RegistrationFollowsConnection
  <1>1. IInv => RegistrationFollowsConnection
    <2> SUFFICES ASSUME IInv, mpc = "idle", Alive, stimeouts = 0, rtimeouts = 0,
                        wpc \in {"loop", "ended"}
                 PROVE  \/ hc /\ wpc = "loop" /\ registered = hsock /\ hsock \in readers
                        \/ hc /\ wpc = "ended" /\ detected /\ registered = 0
                        \/ ~hc /\ registered = 0
      BY DEF RegistrationFollowsConnection
    <2>1. CallInv /\ CtrlInv
      BY DEF IInv
    <2>2. CASE wpc = "loop"
      BY <2>1, <2>2 DEF CallInv, LoopInv, CtrlInv
    <2>3. CASE wpc = "ended"
      BY <2>1, <2>3 DEF CallInv, LateInv, Late, CtrlInv
    <2> QED BY <2>2, <2>3
  <1> QED BY <1>1, Invariance, PTL
-----------------------------------------------------------------------------
(* The byte stream: words and their two bytes.                             *)

LEMMA Division ==
    ASSUME NEW w \in Int, NEW b \in Int, b > 1
    PROVE  w = (w \div b) * b + (w % b) /\ w \div b \in Int /\ w % b \in 0 .. (b - 1)
  OBVIOUS

LEMMA ByteIsNat == BYTE \in Nat /\ BYTE > 1 /\ BYTE \in Int
  BY GlipAssumption

(* A word is its high byte and its low byte.                               *)
LEMMA WordBytes ==
    ASSUME NEW w \in Word
    PROVE  w \div BYTE \in Byte /\ w % BYTE \in Byte /\ (w \div BYTE) * BYTE + (w % BYTE) = w
<1>1. w \div BYTE \in Byte
  BY ByteIsNat DEF Byte, Word
<1>2. w \in Int
  BY DEF Word
<1> QED BY <1>1, <1>2, Division, ByteIsNat DEF Byte

LEMMA Composed ==
    ASSUME NEW a \in Byte, NEW b \in Byte
    PROVE  /\ a * BYTE + b \in Word
           /\ (a * BYTE + b) % BYTE = b /\ (a * BYTE + b) \div BYTE = a
  BY ByteIsNat DEF Byte, Word

(* bswap_16() makes a word of two bytes in memory, and puts them there.    *)
LEMMA Swapped ==
    ASSUME NEW a \in Byte, NEW b \in Byte
    PROVE  bswap_16(Native(a, b)) = a * BYTE + b
<1>1. Native(a, b) = b * BYTE + a
  BY ByteIsNat DEF Native, Byte
<1>2. Native(a, b) % BYTE = a /\ Native(a, b) \div BYTE = b
  BY <1>1, Composed
<1> QED BY ONLY <1>2 DEF bswap_16

LEMMA InMemorySwapped ==
    ASSUME NEW w \in Word
    PROVE  InMemory(bswap_16(w)) = <<w \div BYTE, w % BYTE>>
<1>1. w \div BYTE \in Byte /\ w % BYTE \in Byte
  BY WordBytes
<1>2. bswap_16(w) % BYTE = w \div BYTE /\ bswap_16(w) \div BYTE = w % BYTE
  BY <1>1, Composed DEF bswap_16
<1> QED BY ONLY <1>2 DEF InMemory

(* What a read makes of the bytes.                                         *)
LEMMA ReadWords ==
    ASSUME NEW bytes \in Seq(Byte), NEW n \in Nat, Len(bytes) >= 2 * n
    PROVE  /\ device_read(bytes, n) \in Seq(Word) /\ Len(device_read(bytes, n)) = n
           /\ \A w \in 1 .. n :
                 device_read(bytes, n)[w] = bytes[2 * w - 1] * BYTE + bytes[2 * w]
<1>1. ASSUME NEW w \in 1 .. n
      PROVE  bytes[2 * w - 1] \in Byte /\ bytes[2 * w] \in Byte
  OBVIOUS
<1>2. ASSUME NEW w \in 1 .. n
      PROVE  /\ bswap_16(Native(bytes[2 * w - 1], bytes[2 * w]))
                  = bytes[2 * w - 1] * BYTE + bytes[2 * w]
             /\ bytes[2 * w - 1] * BYTE + bytes[2 * w] \in Word
  BY <1>1, Swapped, Composed
<1> QED BY <1>2 DEF device_read

-----------------------------------------------------------------------------
(* Datagrams: the size and the words of a packet.                          *)

LinkPacket == {p \in Seq(Word) : Len(p) < BYTE * BYTE}
Size(p) == 2 * (Len(p) + 1)
Framed(p) == <<Len(p)>> \o p

LEMMA PacketsAreLinkPackets == ASSUME NEW p \in Packets PROVE p \in LinkPacket
  BY GlipAssumption DEF LinkPacket, Word

LEMMA FramedWords ==
    ASSUME NEW p \in LinkPacket
    PROVE  /\ Framed(p) \in Seq(Word) /\ Len(Framed(p)) = Len(p) + 1 /\ Len(p) \in Nat
           /\ Framed(p)[1] = Len(p) /\ \A i \in 1 .. Len(p) : Framed(p)[i + 1] = p[i]
<1>1. p \in Seq(Word) /\ Len(p) \in Nat /\ Len(p) < BYTE * BYTE
  BY DEF LinkPacket
<1>2. Len(p) \in Word
  BY ONLY <1>1, ByteIsNat DEF Word
<1>3. <<Len(p)>> \in Seq(Word)
  BY ONLY <1>2
<1> QED BY ONLY <1>1, <1>2, <1>3 DEF Framed

LEMMA DatagramBytes ==
    ASSUME NEW p \in LinkPacket
    PROVE  /\ Datagram(p) \in Seq(Byte) /\ Len(Datagram(p)) = Size(p)
           /\ \A j \in 1 .. (Len(p) + 1) :
                 /\ Datagram(p)[2 * j - 1] = Framed(p)[j] \div BYTE
                 /\ Datagram(p)[2 * j] = Framed(p)[j] % BYTE
<1> DEFINE words == Framed(p)
           byte(i) == IF i % 2 = 1 THEN words[(i + 1) \div 2] \div BYTE
                      ELSE words[i \div 2] % BYTE
<1>1. Datagram(p) = [i \in 1 .. (2 * Len(words)) |-> byte(i)]
  BY DEF Datagram, Framed
<1>2. words \in Seq(Word) /\ Len(words) = Len(p) + 1 /\ Len(p) \in Nat
  BY FramedWords
<1> HIDE DEF words
<1>3. ASSUME NEW i \in 1 .. (2 * Len(words))
      PROVE  byte(i) \in Byte
  <2>1. (i % 2 = 1 => (i + 1) \div 2 \in 1 .. Len(words))
        /\ (i % 2 # 1 => i \div 2 \in 1 .. Len(words))
    BY <1>2
  <2>2. \A j \in 1 .. Len(words) : words[j] \in Word
    BY <1>2
  <2> QED BY <2>1, <2>2, WordBytes
<1>4. ASSUME NEW j \in 1 .. (Len(p) + 1)
      PROVE  /\ 2 * j - 1 \in 1 .. (2 * Len(words)) /\ 2 * j \in 1 .. (2 * Len(words))
             /\ (2 * j - 1) % 2 = 1 /\ (2 * j) % 2 = 0
             /\ ((2 * j - 1) + 1) \div 2 = j /\ (2 * j) \div 2 = j
  BY ONLY <1>2, <1>4
<1> HIDE DEF byte
<1>5. Datagram(p) \in Seq(Byte) /\ Len(Datagram(p)) = 2 * Len(words)
  BY ONLY <1>1, <1>2, <1>3
<1>6. ASSUME NEW j \in 1 .. (Len(p) + 1)
      PROVE  Datagram(p)[2 * j - 1] = byte(2 * j - 1) /\ Datagram(p)[2 * j] = byte(2 * j)
  BY ONLY <1>1, <1>4, <1>6
<1>7. ASSUME NEW j \in 1 .. (Len(p) + 1)
      PROVE  byte(2 * j - 1) = words[j] \div BYTE /\ byte(2 * j) = words[j] % BYTE
  BY ONLY <1>4, <1>7 DEF byte
<1> QED BY <1>2, <1>5, <1>6, <1>7 DEF Size, words

(* The two ways to write a datagram are the same.                          *)
LEMMA WriteIsDatagram ==
    ASSUME NEW p \in LinkPacket
    PROVE  device_write(Framed(p)) = Datagram(p)
<1> DEFINE words == Framed(p)
<1>1. words \in Seq(Word) /\ Len(words) = Len(p) + 1 /\ Len(p) \in Nat
  BY FramedWords
<1>2. ASSUME NEW i \in 1 .. (2 * Len(words))
      PROVE  device_write(words)[i] = Datagram(p)[i]
  <2>1. PICK j \in 1 .. Len(words) : i = 2 * j - 1 \/ i = 2 * j
    <3>1. (i + 1) \div 2 \in 1 .. Len(words)
          /\ (i = 2 * ((i + 1) \div 2) - 1 \/ i = 2 * ((i + 1) \div 2))
      BY ONLY <1>1, <1>2
    <3> QED BY ONLY <3>1
  <2>2. words[j] \in Word
    BY ONLY <1>1, <2>1
  <2>3. InMemory(bswap_16(words[j])) = <<words[j] \div BYTE, words[j] % BYTE>>
    BY ONLY <2>2, InMemorySwapped
  <2>4. device_write(words)[i] = InMemory(bswap_16(words[(i + 1) \div 2]))[2 - (i % 2)]
    BY <1>1, <1>2 DEF device_write
  <2>5. (i + 1) \div 2 = j
    BY ONLY <1>1, <2>1
  <2>6. CASE i = 2 * j - 1
    <3>1. 2 - (i % 2) = 1
      BY ONLY <1>1, <2>1, <2>6
    <3>2. Datagram(p)[i] = words[j] \div BYTE
      BY <1>1, <2>6, DatagramBytes
    <3> QED BY ONLY <2>3, <2>4, <2>5, <3>1, <3>2
  <2>7. CASE i = 2 * j
    <3>1. 2 - (i % 2) = 2
      BY ONLY <1>1, <2>1, <2>7
    <3>2. Datagram(p)[i] = words[j] % BYTE
      BY <1>1, <2>7, DatagramBytes
    <3> QED BY ONLY <2>3, <2>4, <2>5, <3>1, <3>2
  <2> QED BY ONLY <2>1, <2>6, <2>7
<1>3. Len(Datagram(p)) = 2 * Len(words) /\ Datagram(p) \in Seq(Byte)
  BY <1>1, DatagramBytes DEF Size
<1>4. DOMAIN device_write(words) = 1 .. (2 * Len(words))
  BY DEF device_write
<1>5. device_write(words) = [i \in 1 .. (2 * Len(words)) |-> device_write(words)[i]]
  BY DEF device_write
<1>6. Datagram(p) = [i \in 1 .. (2 * Len(words)) |-> Datagram(p)[i]]
  BY ONLY <1>3
<1> QED BY ONLY <1>2, <1>5, <1>6

(* What was sent comes out again.                                          *)
LEMMA DatagramReads ==
    ASSUME NEW p \in LinkPacket
    PROVE  /\ Datagram(p)[1] * BYTE + Datagram(p)[2] = Len(p)
           /\ \A w \in 1 .. Len(p) :
                 Datagram(p)[2 * w + 1] * BYTE + Datagram(p)[2 * w + 2] = p[w]
<1>1. /\ Framed(p) \in Seq(Word) /\ Len(Framed(p)) = Len(p) + 1 /\ Len(p) \in Nat
      /\ Framed(p)[1] = Len(p) /\ \A i \in 1 .. Len(p) : Framed(p)[i + 1] = p[i]
  BY FramedWords
<1>2. ASSUME NEW j \in 1 .. (Len(p) + 1)
      PROVE  Datagram(p)[2 * j - 1] * BYTE + Datagram(p)[2 * j] = Framed(p)[j]
  <2>1. Framed(p)[j] \in Word
    BY ONLY <1>1, <1>2
  <2> QED BY <2>1, WordBytes, DatagramBytes
<1>3. Datagram(p)[1] * BYTE + Datagram(p)[2] = Len(p)
  <2>1. 1 \in 1 .. (Len(p) + 1) /\ 2 * 1 - 1 = 1 /\ 2 * 1 = 2
    BY ONLY <1>1
  <2> QED BY ONLY <1>1, <1>2, <2>1
<1>4. ASSUME NEW w \in 1 .. Len(p)
      PROVE  Datagram(p)[2 * w + 1] * BYTE + Datagram(p)[2 * w + 2] = p[w]
  <2>1. w + 1 \in 1 .. (Len(p) + 1) /\ 2 * (w + 1) - 1 = 2 * w + 1 /\ 2 * (w + 1) = 2 * w + 2
    BY ONLY <1>1, <1>4
  <2>2. Datagram(p)[2 * (w + 1) - 1] * BYTE + Datagram(p)[2 * (w + 1)] = Framed(p)[w + 1]
    BY ONLY <1>2, <2>1
  <2> QED BY ONLY <1>1, <2>1, <2>2, <1>4
<1> QED BY <1>3, <1>4
-----------------------------------------------------------------------------
(* A stream carries the datagrams of the packets from the first one on,    *)
(* but for the skipped bytes: there are places at which they begin.        *)

Fits(bytes, pkts, first, skip, place) ==
    /\ place[first] = -skip /\ place[Len(pkts) + 1] = Len(bytes)
    /\ \A i, j \in first .. (Len(pkts) + 1) : i <= j => place[i] <= place[j]
    /\ \A i \in first .. Len(pkts) :
          /\ place[i + 1] = place[i] + Size(pkts[i])
          /\ \A k \in 1 .. Size(pkts[i]) :
                place[i] + k > 0 => bytes[place[i] + k] = Datagram(pkts[i])[k]
Carries(bytes, pkts, first, skip) ==
    \E place \in [Nat -> Int] : Fits(bytes, pkts, first, skip, place)

LEMMA SizeIsNat == ASSUME NEW p \in Seq(Word) PROVE Size(p) \in Nat /\ Size(p) >= 2
  BY DEF Size

LEMMA BytesJoin ==
    ASSUME NEW S, NEW r \in Seq(S), NEW q \in Seq(S)
    PROVE  /\ r \o q \in Seq(S) /\ Len(r \o q) = Len(r) + Len(q)
           /\ \A i \in 1 .. Len(r) : (r \o q)[i] = r[i]
           /\ \A i \in 1 .. Len(q) : (r \o q)[Len(r) + i] = q[i]
  OBVIOUS

LEMMA PlaceInt ==
    ASSUME NEW place \in [Nat -> Int]
    PROVE  \A i \in Nat : place[i] \in Int /\ place[i + 1] \in Int
  OBVIOUS

LEMMA SumIsMore == ASSUME NEW a \in Nat, NEW b \in Nat
                   PROVE  a \in Int /\ a + b \in Int /\ a <= a + b
  OBVIOUS

LEMMA InRange == ASSUME NEW size \in Nat, NEW k \in 1 .. size
                 PROVE  k \in Nat /\ k <= size
  OBVIOUS

LEMMA Within ==
    ASSUME NEW o \in Int, NEW k \in Nat, NEW size \in Nat, NEW len \in Nat, NEW n \in Nat,
           k <= size, o + size <= len, o - n + k > 0
    PROVE  /\ o + k > 0 /\ o + k \in 1 .. len /\ o - n + k \in 1 .. (len - n)
           /\ (o - n + k) + n = o + k
  OBVIOUS

LEMMA TwoPlaces ==
    ASSUME NEW n \in Nat, NEW first \in 1 .. (n + 1), NEW i \in first .. (n + 2),
           NEW j \in first .. (n + 2), i <= j
    PROVE  /\ i \in Nat /\ j \in Nat /\ n + 1 \in Nat /\ n + 1 \in first .. (n + 1)
           /\ j # n + 2 => i # n + 2 /\ i \in first .. (n + 1) /\ j \in first .. (n + 1)
           /\ i # n + 2 => i \in first .. (n + 1) /\ i <= n + 1
  OBVIOUS

LEMMA CarriesNothing == Carries(<<>>, <<>>, 1, 0)
<1> DEFINE place == [i \in Nat |-> 0]
<1>1. place \in [Nat -> Int] /\ \A i \in Nat : place[i] = 0
  OBVIOUS
<1>2. Len(<<>>) = 0 /\ 1 \in Nat
  OBVIOUS
<1> HIDE DEF place
<1>3. Fits(<<>>, <<>>, 1, 0, place)
  BY ONLY <1>1, <1>2 DEF Fits
<1> QED BY <1>1, <1>3 DEF Carries

(* A packet that is sent comes last.                                       *)
LEMMA CarriesAppend ==
    ASSUME NEW bytes, NEW pkts, bytes \in Seq(Byte), pkts \in Seq(Seq(Word)), NEW p \in LinkPacket,
           NEW first \in 1 .. (Len(pkts) + 1), NEW skip \in Nat,
           Carries(bytes, pkts, first, skip)
    PROVE  Carries(bytes \o Datagram(p), Append(pkts, p), first, skip)
<1>1. PICK old : old \in [Nat -> Int] /\ Fits(bytes, pkts, first, skip, old)
  BY DEF Carries
<1> DEFINE n == Len(pkts)
           d == Datagram(p)
           more == Append(pkts, p)
           b == bytes \o d
           place == [i \in Nat |-> IF i = n + 2 THEN Len(bytes) + Size(p) ELSE old[i]]
<1>2. /\ n \in Nat /\ Len(bytes) \in Nat /\ p \in Seq(Word) /\ Size(p) \in Nat /\ Size(p) >= 2
      /\ d \in Seq(Byte) /\ Len(d) = Size(p)
  BY SizeIsNat, DatagramBytes DEF LinkPacket
<1>3. Len(more) = n + 1 /\ more[n + 1] = p /\ \A i \in 1 .. n : more[i] = pkts[i]
  BY <1>2
<1>4. /\ Len(b) = Len(bytes) + Size(p)
      /\ \A i \in 1 .. Len(bytes) : b[i] = bytes[i]
      /\ \A k \in 1 .. Size(p) : b[Len(bytes) + k] = d[k]
  <2>1. /\ Len(b) = Len(bytes) + Len(d)
        /\ \A i \in 1 .. Len(bytes) : b[i] = bytes[i]
        /\ \A k \in 1 .. Len(d) : b[Len(bytes) + k] = d[k]
    <3>1. bytes \in Seq(Byte) /\ d \in Seq(Byte)
      BY <1>2
    <3> HIDE DEF d
    <3> QED BY ONLY <3>1, BytesJoin DEF b
  <2> HIDE DEF b, d
  <2> QED BY ONLY <1>2, <2>1
<1>5. /\ place \in [Nat -> Int] /\ place[n + 2] = Len(bytes) + Size(p)
      /\ \A i \in Nat : (i # n + 2 => place[i] = old[i]) /\ old[i] \in Int
  <2>0. \A i \in Nat : old[i] \in Int
    BY <1>1, PlaceInt
  <2>1. n + 2 \in Nat /\ Len(bytes) + Size(p) \in Int
    BY ONLY <1>2
  <2> HIDE DEF n
  <2> QED BY ONLY <2>0, <2>1
<1>6. /\ old[first] = -skip /\ old[n + 1] = Len(bytes)
      /\ \A i, j \in first .. (n + 1) : i <= j => old[i] <= old[j]
      /\ \A i \in first .. n :
            /\ old[i + 1] = old[i] + Size(pkts[i])
            /\ \A k \in 1 .. Size(pkts[i]) :
                  old[i] + k > 0 => bytes[old[i] + k] = Datagram(pkts[i])[k]
  BY ONLY <1>1 DEF Fits
<1>7. \A i \in 1 .. n : Size(pkts[i]) \in Nat
  <2>1. \A i \in 1 .. n : pkts[i] \in Seq(Word)
    OBVIOUS
  <2> QED BY <2>1, SizeIsNat
<1> HIDE DEF n, d, more, b, place
<1>8. first \in 1 .. (n + 1) /\ old \in [Nat -> Int]
  BY <1>1 DEF n
<1>9. place[first] = -skip /\ place[Len(more) + 1] = Len(b)
  BY ONLY <1>2, <1>3, <1>4, <1>5, <1>6, <1>8
<1>0. Len(more) + 1 = n + 2
  BY ONLY <1>2, <1>3
<1>10. ASSUME NEW i, NEW j, i \in first .. (Len(more) + 1), j \in first .. (Len(more) + 1),
              i <= j
       PROVE  place[i] <= place[j]
  <2>1. /\ i \in Nat /\ j \in Nat /\ n + 1 \in Nat /\ n + 1 \in first .. (n + 1)
        /\ j # n + 2 => i # n + 2 /\ i \in first .. (n + 1) /\ j \in first .. (n + 1)
        /\ i # n + 2 => i \in first .. (n + 1) /\ i <= n + 1
    BY ONLY <1>0, <1>2, <1>8, <1>10, TwoPlaces
  <2>2. i \in Nat /\ j \in Nat /\ old[i] \in Int /\ old[n + 1] \in Int
    BY ONLY <1>5, <2>1
  <2>3. CASE j # n + 2
    BY ONLY <1>5, <1>6, <1>10, <2>2, <2>3, <2>1
  <2>4. CASE j = n + 2 /\ i # n + 2
    <3>1. old[i] <= Len(bytes)
      BY ONLY <1>6, <2>4, <2>1
    <3>2. place[i] = old[i] /\ place[j] = Len(bytes) + Size(p)
      BY ONLY <1>5, <2>2, <2>4
    <3>3. Len(bytes) <= Len(bytes) + Size(p) /\ Len(bytes) + Size(p) \in Int
          /\ Len(bytes) \in Int /\ old[i] \in Int
      BY ONLY <1>2, <2>2, SumIsMore
    <3> QED BY ONLY <3>1, <3>2, <3>3
  <2>5. CASE j = n + 2 /\ i = n + 2
    BY ONLY <1>2, <1>5, <2>5
  <2> QED BY <2>3, <2>4, <2>5
<1>11. ASSUME NEW i \in first .. Len(more)
       PROVE  /\ place[i + 1] = place[i] + Size(more[i])
              /\ \A k \in 1 .. Size(more[i]) :
                    place[i] + k > 0 => b[place[i] + k] = Datagram(more[i])[k]
  <2>1. CASE i = n + 1
    <3>1. place[i] = Len(bytes) /\ place[i + 1] = Len(bytes) + Size(p) /\ more[i] = p
      <4>1. /\ i \in Nat /\ i # n + 2 /\ i + 1 = n + 2 /\ old[n + 1] = Len(bytes)
            /\ more[n + 1] = p
        BY ONLY <1>2, <1>3, <1>6, <2>1
      <4> QED BY ONLY <1>5, <2>1, <4>1
    <3> QED BY ONLY <1>4, <3>1 DEF d
  <2>2. CASE i \in first .. n
    <3>1. /\ place[i] = old[i] /\ place[i + 1] = old[i + 1] /\ more[i] = pkts[i]
          /\ Size(pkts[i]) \in Nat /\ old[i] \in Int
      <4>1. i \in Nat /\ i + 1 \in Nat /\ i # n + 2 /\ i + 1 # n + 2 /\ i \in 1 .. n
        BY ONLY <1>2, <1>8, <2>2
      <4> QED BY ONLY <1>3, <1>5, <1>7, <4>1
    <3>2. place[i + 1] = place[i] + Size(more[i])
      BY ONLY <1>6, <2>2, <3>1
    <3>3. ASSUME NEW k \in 1 .. Size(pkts[i]), old[i] + k > 0
          PROVE  b[old[i] + k] = Datagram(pkts[i])[k]
      <4>1. bytes[old[i] + k] = Datagram(pkts[i])[k]
        BY ONLY <1>6, <2>2, <3>3
      <4>2. old[i + 1] <= Len(bytes)
        <5>1. i + 1 \in first .. (n + 1) /\ n + 1 \in first .. (n + 1) /\ i + 1 <= n + 1
          BY ONLY <1>2, <1>8, <2>2
        <5> QED BY ONLY <1>6, <5>1
      <4>3. old[i] + k \in 1 .. Len(bytes)
        <5>1. old[i + 1] = old[i] + Size(pkts[i])
          BY ONLY <1>6, <2>2
        <5>2. old[i] + Size(pkts[i]) <= Len(bytes) /\ Len(bytes) \in Int
          BY ONLY <1>2, <4>2, <5>1
        <5>3. k \in Nat /\ k <= Size(pkts[i])
          BY ONLY <3>1, <3>3, InRange
        <5>4. old[i] - 0 + k > 0 /\ Len(bytes) \in Nat /\ 0 \in Nat
          BY ONLY <1>2, <3>1, <3>3, <5>3
        <5> QED BY ONLY <3>1, <5>2, <5>3, <5>4, Within
      <4> QED BY ONLY <1>4, <4>1, <4>3
    <3> QED BY ONLY <3>1, <3>2, <3>3
  <2>3. i = n + 1 \/ i \in first .. n
    BY ONLY <1>2, <1>3, <1>8, <1>11
  <2> QED BY <2>1, <2>2, <2>3
<1>12. Fits(b, more, first, skip, place)
  BY ONLY <1>9, <1>10, <1>11 DEF Fits
<1>13. Carries(b, more, first, skip)
  BY ONLY <1>5, <1>12 DEF Carries
<1> QED BY ONLY <1>13 DEF b, d, more

(* What is next in the stream: nothing, or the rest of a datagram.         *)
LEMMA CarriesHead ==
    ASSUME NEW bytes, NEW pkts, bytes \in Seq(Byte), pkts \in Seq(Seq(Word)),
           NEW first \in 1 .. (Len(pkts) + 1), NEW skip \in {0, 2},
           Carries(bytes, pkts, first, skip), skip = 2 \/ bytes # <<>>
    PROVE  /\ first <= Len(pkts) /\ Size(pkts[first]) - skip <= Len(bytes)
           /\ \A k \in 1 .. (Size(pkts[first]) - skip) :
                 bytes[k] = Datagram(pkts[first])[k + skip]
<1>1. PICK place : place \in [Nat -> Int] /\ Fits(bytes, pkts, first, skip, place)
  BY DEF Carries
<1>2. Len(bytes) \in Nat /\ Len(pkts) \in Nat /\ (bytes # <<>> => Len(bytes) > 0)
  OBVIOUS
<1>3. /\ place[first] = -skip /\ place[Len(pkts) + 1] = Len(bytes)
      /\ \A i, j \in first .. (Len(pkts) + 1) : i <= j => place[i] <= place[j]
      /\ \A i \in first .. Len(pkts) :
            /\ place[i + 1] = place[i] + Size(pkts[i])
            /\ \A k \in 1 .. Size(pkts[i]) :
                  place[i] + k > 0 => bytes[place[i] + k] = Datagram(pkts[i])[k]
  BY ONLY <1>1 DEF Fits
<1>4. first \in 1 .. Len(pkts)
  BY ONLY <1>2, <1>3, first \in 1 .. (Len(pkts) + 1), skip \in {0, 2}, skip = 2 \/ bytes # <<>>
<1>5. pkts[first] \in Seq(Word)
  BY <1>4
<1>6. Size(pkts[first]) \in Nat /\ Size(pkts[first]) >= 2
  BY ONLY <1>5, SizeIsNat
<1>7. place[first + 1] = Size(pkts[first]) - skip
  BY ONLY <1>2, <1>3, <1>4, <1>6, skip \in {0, 2}
<1>8. place[first + 1] <= Len(bytes)
  <2>1. /\ first + 1 \in first .. (Len(pkts) + 1) /\ Len(pkts) + 1 \in first .. (Len(pkts) + 1)
        /\ first + 1 <= Len(pkts) + 1
    BY ONLY <1>2, <1>4
  <2> QED BY ONLY <1>3, <2>1
<1>9. ASSUME NEW k \in 1 .. (Size(pkts[first]) - skip)
      PROVE  bytes[k] = Datagram(pkts[first])[k + skip]
  <2>1. k + skip \in 1 .. Size(pkts[first]) /\ place[first] + (k + skip) = k /\ k > 0
    <3>1. place[first] = -skip /\ skip \in Nat
      BY ONLY <1>3, skip \in {0, 2}
    <3> QED BY ONLY <1>6, <1>9, <3>1
  <2>2. first \in first .. Len(pkts)
    BY ONLY <1>2, <1>4
  <2> QED BY ONLY <1>3, <2>1, <2>2
<1> QED BY <1>2, <1>4, <1>7, <1>8, <1>9

(* What is left when bytes of the datagram are taken.                      *)
LEMMA CarriesRest ==
    ASSUME NEW bytes, NEW pkts, bytes \in Seq(Byte), pkts \in Seq(Seq(Word)),
           NEW first \in 1 .. Len(pkts), NEW skip \in {0, 2},
           Carries(bytes, pkts, first, skip),
           NEW n \in Nat, n <= Len(bytes), NEW next \in Nat, NEW left \in Nat,
           \/ next = first /\ skip + n = left
           \/ next = first + 1 /\ skip + n = Size(pkts[first]) /\ left = 0
    PROVE  Carries(SubSeq(bytes, n + 1, Len(bytes)), pkts, next, left)
<1>1. PICK old : old \in [Nat -> Int] /\ Fits(bytes, pkts, first, skip, old)
  BY DEF Carries
<1> DEFINE b == SubSeq(bytes, n + 1, Len(bytes))
           place == [i \in Nat |-> old[i] - n]
<1>2. Len(bytes) \in Nat /\ Len(pkts) \in Nat
  OBVIOUS
<1>3. /\ Len(b) = Len(bytes) - n
      /\ \A i \in 1 .. (Len(bytes) - n) : b[i] = bytes[i + n]
  BY <1>2
<1>4. place \in [Nat -> Int] /\ \A i \in Nat : place[i] = old[i] - n /\ old[i] \in Int
  <2>1. \A i \in Nat : old[i] \in Int
    BY <1>1, PlaceInt
  <2> QED BY ONLY <2>1, n \in Nat
<1>5. /\ old[first] = -skip /\ old[Len(pkts) + 1] = Len(bytes)
      /\ \A i, j \in first .. (Len(pkts) + 1) : i <= j => old[i] <= old[j]
      /\ \A i \in first .. Len(pkts) :
            /\ old[i + 1] = old[i] + Size(pkts[i])
            /\ \A k \in 1 .. Size(pkts[i]) :
                  old[i] + k > 0 => bytes[old[i] + k] = Datagram(pkts[i])[k]
  BY ONLY <1>1 DEF Fits
<1>6. \A i \in 1 .. Len(pkts) : Size(pkts[i]) \in Nat /\ Size(pkts[i]) >= 2
  <2>1. \A i \in 1 .. Len(pkts) : pkts[i] \in Seq(Word)
    OBVIOUS
  <2> QED BY <2>1, SizeIsNat
<1> HIDE DEF b, place
<1>7. /\ first \in Nat /\ next \in first .. (Len(pkts) + 1) /\ skip \in Nat
  BY ONLY <1>2, first \in 1 .. Len(pkts), skip \in {0, 2}, next = first \/ next = first + 1
<1>8. place[next] = -left /\ place[Len(pkts) + 1] = Len(b)
  <2>1. first \in first .. Len(pkts) /\ Size(pkts[first]) \in Nat
    BY ONLY <1>6, first \in 1 .. Len(pkts), <1>2
  <2>2. place[Len(pkts) + 1] = Len(b)
    <3>1. Len(pkts) + 1 \in Nat
      BY ONLY <1>2
    <3> QED BY ONLY <1>3, <1>4, <1>5, <3>1
  <2>3. CASE next = first /\ skip + n = left
    <3>1. place[first] = old[first] - n
      BY ONLY <1>4, <1>7
    <3>2. place[first] = -skip - n
      BY ONLY <1>5, <3>1
    <3> QED BY ONLY <1>7, <2>2, <2>3, <3>2, n \in Nat
  <2>4. CASE next = first + 1 /\ skip + n = Size(pkts[first]) /\ left = 0
    <3>1. old[next] = -skip + Size(pkts[first])
      BY ONLY <1>5, <2>1, <2>4
    <3>2. next \in Nat /\ place[next] = old[next] - n
      BY ONLY <1>4, <1>7, <2>4
    <3>3. place[next] = (-skip + Size(pkts[first])) - n
      BY ONLY <3>1, <3>2
    <3>4. (-skip + Size(pkts[first])) - n = 0
      BY ONLY <1>7, <2>1, <2>4, n \in Nat
    <3> QED BY ONLY <2>2, <2>4, <3>3, <3>4
  <2> QED BY <2>2, <2>3, <2>4
<1>9. ASSUME NEW i \in next .. (Len(pkts) + 1), NEW j \in next .. (Len(pkts) + 1), i <= j
      PROVE  place[i] <= place[j]
  <2>1. i \in first .. (Len(pkts) + 1) /\ j \in first .. (Len(pkts) + 1)
        /\ i \in Nat /\ j \in Nat
    BY ONLY <1>2, <1>7, <1>9
  <2>2. old[i] <= old[j] /\ old[i] \in Int /\ old[j] \in Int
    BY ONLY <1>4, <1>5, <1>9, <2>1
  <2> QED BY ONLY <1>4, <2>1, <2>2, n \in Nat, SMTT(40)
<1>10. ASSUME NEW i \in next .. Len(pkts)
       PROVE  /\ place[i + 1] = place[i] + Size(pkts[i])
              /\ \A k \in 1 .. Size(pkts[i]) :
                    place[i] + k > 0 => b[place[i] + k] = Datagram(pkts[i])[k]
  <2>1. /\ i \in first .. Len(pkts) /\ i \in Nat /\ i + 1 \in Nat /\ i \in 1 .. Len(pkts)
        /\ i + 1 \in first .. (Len(pkts) + 1) /\ Len(pkts) + 1 \in first .. (Len(pkts) + 1)
    BY ONLY <1>2, <1>7, <1>10, first \in 1 .. Len(pkts)
  <2>2. Size(pkts[i]) \in Nat /\ old[i] \in Int /\ old[i + 1] \in Int
    BY ONLY <1>4, <1>6, <2>1
  <2>3. old[i + 1] = old[i] + Size(pkts[i]) /\ old[i + 1] <= Len(bytes)
    <3>1. i + 1 <= Len(pkts) + 1
      BY ONLY <1>2, <2>1
    <3> QED BY ONLY <1>5, <2>1, <3>1
  <2>4. place[i + 1] = place[i] + Size(pkts[i])
    <3>1. place[i] = old[i] - n /\ place[i + 1] = old[i + 1] - n
      BY ONLY <1>4, <2>1
    <3>2. old[i + 1] = old[i] + Size(pkts[i])
      BY ONLY <2>3
    <3> QED BY ONLY <2>2, <3>1, <3>2, n \in Nat
  <2>5. ASSUME NEW k \in 1 .. Size(pkts[i]), place[i] + k > 0
        PROVE  b[place[i] + k] = Datagram(pkts[i])[k]
    <3>1. place[i] = old[i] - n
      BY ONLY <1>4, <2>1
    <3>2. old[i] + k > 0 /\ place[i] + k \in 1 .. (Len(bytes) - n)
          /\ (place[i] + k) + n = old[i] + k
      <4>1. old[i] + Size(pkts[i]) <= Len(bytes)
        BY ONLY <2>3
      <4>2. old[i] - n + k > 0 /\ place[i] + k = old[i] - n + k
        BY ONLY <2>5, <3>1
      <4>3. old[i] + k > 0 /\ old[i] - n + k \in 1 .. (Len(bytes) - n)
            /\ (old[i] - n + k) + n = old[i] + k
        <5>1. k \in Nat /\ k <= Size(pkts[i])
          BY ONLY <2>2, <2>5, InRange
        <5>2. /\ old[i] \in Int /\ Size(pkts[i]) \in Nat /\ Len(bytes) \in Nat /\ n \in Nat
              /\ old[i] + Size(pkts[i]) <= Len(bytes) /\ old[i] - n + k > 0
          BY ONLY <1>2, <2>2, <4>1, <4>2, n \in Nat
        <5> QED BY ONLY <5>1, <5>2, Within, SMTT(40)
      <4> QED BY ONLY <4>2, <4>3
    <3>3. bytes[old[i] + k] = Datagram(pkts[i])[k]
      BY ONLY <1>5, <2>1, <2>5, <3>2
    <3> QED BY ONLY <1>3, <3>2, <3>3
  <2> QED BY <2>4, <2>5
<1>11. Fits(b, pkts, next, left, place)
  BY ONLY <1>8, <1>9, <1>10 DEF Fits
<1>12. Carries(b, pkts, next, left)
  BY ONLY <1>4, <1>11 DEF Carries
<1> QED BY ONLY <1>12 DEF b
-----------------------------------------------------------------------------
(* The state of the link.                                                  *)

LinkTypes ==
    /\ is_open \in BOOLEAN /\ gw_connected \in BOOLEAN /\ torn \in BOOLEAN
    /\ rx \in {"off", "size", "data", "ended"} /\ io \in {"runs", "ended"}
    /\ pkg_size_words \in Word
    /\ up \in Seq(Byte) /\ down \in Seq(Byte)
    /\ sent \in Seq(LinkPacket) /\ written \in Seq(LinkPacket)
    /\ taken \in Seq(Seq(Word)) /\ got \in Seq(Seq(Word))
    /\ links \in 0 .. MaxLinks /\ failures \in 0 .. MaxFailures

Begins(s, t) == Len(s) <= Len(t) /\ \A i \in 1 .. Len(s) : s[i] = t[i]
Skipped == IF rx = "data" THEN 2 ELSE 0
UpInv ==
    /\ Begins(taken, sent)
    /\ is_open => /\ Carries(up, sent, Len(taken) + 1, Skipped)
                  /\ rx = "data" => pkg_size_words = Len(sent[Len(taken) + 1])
DownInv ==
    /\ Begins(got, written)
    /\ is_open => Carries(down, written, Len(got) + 1, 0)
LinkInv == LinkTypes /\ (~torn => UpInv /\ DownInv)

LEMMA AppendOne ==
    ASSUME NEW S, NEW s \in Seq(S), NEW e \in S
    PROVE  /\ Append(s, e) \in Seq(S) /\ Len(Append(s, e)) = Len(s) + 1 /\ Len(s) \in Nat
           /\ Append(s, e)[Len(s) + 1] = e /\ \A i \in 1 .. Len(s) : Append(s, e)[i] = s[i]
  OBVIOUS

LEMMA NoneLeft == /\ \A S : <<>> \in Seq(S)
                  /\ Len(<<>>) = 0 /\ 0 + 1 = 1
  OBVIOUS

LEMMA PacketsAreWords ==
    ASSUME NEW s \in Seq(LinkPacket)
    PROVE  /\ s \in Seq(Seq(Word)) /\ Len(s) \in Nat
           /\ \A i \in 1 .. Len(s) : s[i] \in LinkPacket
<1>1. \A i \in 1 .. Len(s) : s[i] \in LinkPacket
  OBVIOUS
<1>2. \A i \in 1 .. Len(s) : s[i] \in Seq(Word)
  BY <1>1 DEF LinkPacket
<1>3. Len(s) \in Nat /\ s = [i \in 1 .. Len(s) |-> s[i]]
  OBVIOUS
<1>4. s \in Seq(Seq(Word))
  BY ONLY <1>2, <1>3
<1> QED BY <1>1, <1>3, <1>4

LEMMA PacketIsWords ==
    ASSUME NEW p \in LinkPacket
    PROVE  /\ p \in Seq(Word) /\ Len(p) \in Nat /\ Len(p) \in Word
           /\ Size(p) = 2 * Len(p) + 2 /\ Size(p) \in Nat
<1>1. p \in Seq(Word) /\ Len(p) \in Nat /\ Len(p) < BYTE * BYTE
  BY DEF LinkPacket
<1>2. Len(p) \in Word
  BY ONLY <1>1, ByteIsNat DEF Word
<1> QED BY ONLY <1>1, <1>2 DEF Size

LEMMA RestTypes ==
    ASSUME NEW bytes \in Seq(Byte), NEW n \in Nat, Len(bytes) >= 2 * n
    PROVE  Rest(bytes, n) \in Seq(Byte)
<1>1. Rest(bytes, n) = SubSeq(bytes, 2 * n + 1, Len(bytes))
  BY DEF Rest
<1>2. \A i \in (2 * n + 1) .. Len(bytes) : bytes[i] \in Byte
  OBVIOUS
<1> QED BY <1>1, <1>2

(* What the device makes of the bytes it receives is a packet.             *)
Received(n) == [i \in 1 .. n |-> down[2 * i + 1] * BYTE + down[2 * i + 2]]

LEMMA ReceivedTypes ==
    ASSUME NEW n \in Nat, down \in Seq(Byte), Len(down) >= 2 * (n + 1)
    PROVE  Received(n) \in Seq(Word) /\ Len(Received(n)) = n
<1>1. ASSUME NEW i \in 1 .. n
      PROVE  down[2 * i + 1] \in Byte /\ down[2 * i + 2] \in Byte
  OBVIOUS
<1>2. ASSUME NEW i \in 1 .. n
      PROVE  down[2 * i + 1] * BYTE + down[2 * i + 2] \in Word
  BY <1>1, Composed
<1> QED BY ONLY <1>2, n \in Nat DEF Received

LEMMA WrittenTypes ==
    ASSUME NEW p \in LinkPacket, NEW n \in 0 .. Len(p)
    PROVE  device_write(SubSeq(<<Len(p)>> \o p, 1, n)) \in Seq(Byte)
<1> DEFINE words == SubSeq(Framed(p), 1, n)
<1>1. words \in Seq(Word) /\ Len(words) = n /\ n \in Nat
  <2>1. Framed(p) \in Seq(Word) /\ Len(Framed(p)) = Len(p) + 1 /\ Len(p) \in Nat
    BY FramedWords
  <2>2. n \in 0 .. Len(Framed(p)) /\ n \in Nat
    BY <2>1
  <2> HIDE DEF Framed
  <2>3. \A i \in 1 .. n : Framed(p)[i] \in Word
    BY <2>1, <2>2
  <2> QED BY <2>1, <2>2, <2>3
<1>2. words = SubSeq(<<Len(p)>> \o p, 1, n)
  BY DEF Framed
<1> HIDE DEF words
<1>3. ASSUME NEW i \in 1 .. (2 * Len(words))
      PROVE  InMemory(bswap_16(words[(i + 1) \div 2]))[2 - (i % 2)] \in Byte
  <2>1. (i + 1) \div 2 \in 1 .. Len(words) /\ 2 - (i % 2) \in {1, 2}
    BY <1>1
  <2>2. words[(i + 1) \div 2] \in Word
    BY <1>1, <2>1
  <2> QED BY <2>1, <2>2, InMemorySwapped, WordBytes
<1>4. device_write(words) \in Seq(Byte)
  <2>1. 2 * Len(words) \in Nat
    BY ONLY <1>1
  <2> QED BY ONLY <1>3, <2>1 DEF device_write
<1> QED BY ONLY <1>2, <1>4

LEMMA JoinTypes ==
    ASSUME NEW S, NEW r \in Seq(S), NEW q \in Seq(S)
    PROVE  r \o q \in Seq(S)
  OBVIOUS

LEMMA LinkTypesNext ==
    ASSUME LinkTypes, [LinkNext]_linkVars
    PROVE  LinkTypes'
<1> USE DEF LinkTypes, connVars, upVars, downVars
<1>0. /\ up \in Seq(Byte) /\ down \in Seq(Byte) /\ sent \in Seq(LinkPacket)
      /\ written \in Seq(LinkPacket) /\ taken \in Seq(Seq(Word)) /\ got \in Seq(Seq(Word))
      /\ pkg_size_words \in Word /\ links \in 0 .. MaxLinks /\ failures \in 0 .. MaxFailures
  OBVIOUS
<1>00. MaxLinks \in Nat /\ MaxFailures \in Nat
  BY GlipAssumption
<1>a. links < MaxLinks /\ links' = links + 1 => links' \in 0 .. MaxLinks
  BY ONLY <1>0, <1>00
<1>b. failures < MaxFailures /\ failures' = failures + 1 => failures' \in 0 .. MaxFailures
  BY ONLY <1>0, <1>00
<1>1. CASE osd_gateway_glip_connect
  BY ONLY <1>1, <1>a, LinkTypes, NoneLeft DEF osd_gateway_glip_connect, glip_open, LinkTypes,
     upVars, downVars
<1>2. CASE ConnectFails
  BY ONLY <1>2, <1>a, LinkTypes DEF ConnectFails, LinkTypes, upVars, downVars
<1>3. CASE osd_gateway_glip_disconnect \/ DisconnectJoins \/ LinkLost
  BY ONLY <1>3, LinkTypes, NoneLeft DEF osd_gateway_glip_disconnect, DisconnectJoins, LinkLost,
     LinkTypes, upVars, downVars
<1>4. ASSUME NEW p \in Packets, DeviceSends(p)
      PROVE  LinkTypes'
  <2>1. p \in LinkPacket
    BY PacketsAreLinkPackets
  <2>2. Append(sent, p) \in Seq(LinkPacket) /\ Datagram(p) \in Seq(Byte)
    BY ONLY <1>0, <2>1, AppendOne, DatagramBytes
  <2>3. up \o Datagram(p) \in Seq(Byte)
    BY ONLY <1>0, <2>2, JoinTypes
  <2> QED BY ONLY <1>4, <2>2, <2>3, LinkTypes DEF DeviceSends, LinkTypes, connVars, downVars
<1>5. CASE ReadSize
  <2>1. Len(up) >= 2 * 1 /\ 1 \in Nat
    BY ONLY <1>5 DEF ReadSize, Available
  <2>2. device_read(up, 1)[1] \in Word
    <3>1. device_read(up, 1) \in Seq(Word) /\ Len(device_read(up, 1)) = 1
      BY ONLY <1>0, <2>1, ReadWords
    <3> QED BY ONLY <3>1
  <2>3. Rest(up, 1) \in Seq(Byte)
    BY ONLY <1>0, <2>1, RestTypes
  <2> QED BY ONLY <1>5, <2>2, <2>3, LinkTypes DEF ReadSize, LinkTypes, connVars, downVars
<1>6. CASE ReadData
  <2>1. Len(up) >= 2 * pkg_size_words /\ pkg_size_words \in Nat
    BY ONLY <1>0, <1>6 DEF ReadData, Available, Word
  <2>2. device_read(up, pkg_size_words) \in Seq(Word) /\ Rest(up, pkg_size_words) \in Seq(Byte)
    BY ONLY <1>0, <2>1, ReadWords, RestTypes
  <2>3. Append(taken, device_read(up, pkg_size_words)) \in Seq(Seq(Word))
    BY ONLY <1>0, <2>2, AppendOne
  <2> QED BY ONLY <1>6, <2>2, <2>3, LinkTypes DEF ReadData, LinkTypes, connVars, downVars
<1>7. CASE ReadEnds
  BY ONLY <1>7, LinkTypes DEF ReadEnds, LinkTypes, connVars, upVars, downVars
<1>8. CASE ReadFails
  <2>1. PICK n \in 0 .. (Len(up) \div 2) : up' = Rest(up, n)
    BY <1>8 DEF ReadFails
  <2>2. n \in Nat /\ Len(up) >= 2 * n
    <3>1. Len(up) \in Nat
      BY ONLY <1>0
    <3> QED BY ONLY <3>1, n \in 0 .. (Len(up) \div 2)
  <2>3. up' \in Seq(Byte)
    BY ONLY <1>0, <2>1, <2>2, RestTypes
  <2> QED BY ONLY <1>8, <1>b, <2>3, LinkTypes DEF ReadFails, LinkTypes, connVars, downVars
<1>9. ASSUME NEW p \in Packets, packet_write_to_device(p)
      PROVE  LinkTypes'
  <2>1. p \in LinkPacket
    BY PacketsAreLinkPackets
  <2>2. Append(written, p) \in Seq(LinkPacket) /\ device_write(<<Len(p)>> \o p) \in Seq(Byte)
    BY ONLY <1>0, <2>1, AppendOne, DatagramBytes, WriteIsDatagram DEF Framed
  <2>3. down \o device_write(<<Len(p)>> \o p) \in Seq(Byte)
    BY ONLY <1>0, <2>2, JoinTypes
  <2> QED
    BY ONLY <1>9, <2>2, <2>3, LinkTypes DEF packet_write_to_device, LinkTypes, connVars, upVars
<1>10. ASSUME NEW p \in Packets, WriteFails(p)
       PROVE  LinkTypes'
  <2>1. p \in LinkPacket
    BY PacketsAreLinkPackets
  <2>2. down' \in Seq(Byte)
    <3>1. \A n \in 0 .. Len(p) : device_write(SubSeq(<<Len(p)>> \o p, 1, n)) \in Seq(Byte)
      BY ONLY <2>1, WrittenTypes
    <3>2. \A n \in 0 .. Len(p) :
              down \o device_write(SubSeq(<<Len(p)>> \o p, 1, n)) \in Seq(Byte)
      BY ONLY <1>0, <3>1, JoinTypes
    <3> QED BY ONLY <1>0, <1>10, <3>2 DEF WriteFails
  <2> QED BY ONLY <1>10, <1>b, <2>2, LinkTypes DEF WriteFails, LinkTypes, connVars, upVars
<1>11. CASE DeviceReceives
  <2> DEFINE n == down[1] * BYTE + down[2]
  <2>1. Len(down) >= 2 /\ Len(down) >= 2 * (n + 1) /\ got' = Append(got, Received(n))
        /\ down' = Rest(down, n + 1)
    BY ONLY <1>11 DEF DeviceReceives, Received
  <2>2. n \in Nat /\ n + 1 \in Nat
    <3>1. down[1] \in Byte /\ down[2] \in Byte
      BY ONLY <1>0, <2>1
    <3>2. n \in Word
      BY ONLY <3>1, Composed
    <3> QED BY ONLY <3>2 DEF Word
  <2> HIDE DEF n
  <2>3. down' \in Seq(Byte)
    BY ONLY <1>0, <2>1, <2>2, RestTypes
  <2>4. Received(n) \in Seq(Word)
    BY ONLY <1>0, <2>1, <2>2, ReceivedTypes
  <2>5. got' \in Seq(Seq(Word))
    BY ONLY <1>0, <2>1, <2>4, AppendOne
  <2> QED
    BY ONLY <1>11, <2>3, <2>5, LinkTypes DEF DeviceReceives, LinkTypes, connVars, upVars
<1>12. CASE UNCHANGED linkVars
  BY ONLY <1>12, LinkTypes DEF linkVars, LinkTypes
<1> QED
  BY <1>1, <1>2, <1>3, <1>4, <1>5, <1>6, <1>7, <1>8, <1>9, <1>10, <1>11, <1>12
     DEF LinkNext, RxStep
-----------------------------------------------------------------------------
(* The two directions, action by action.                                   *)

LEMMA StreamTypes ==
    ASSUME LinkTypes
    PROVE  /\ up \in Seq(Byte) /\ down \in Seq(Byte)
           /\ sent \in Seq(Seq(Word)) /\ written \in Seq(Seq(Word))
           /\ Len(sent) \in Nat /\ Len(written) \in Nat /\ Len(taken) \in Nat /\ Len(got) \in Nat
           /\ \A i \in 1 .. Len(sent) : sent[i] \in LinkPacket
           /\ \A i \in 1 .. Len(written) : written[i] \in LinkPacket
<1>1. sent \in Seq(LinkPacket) /\ written \in Seq(LinkPacket)
      /\ taken \in Seq(Seq(Word)) /\ got \in Seq(Seq(Word))
  BY DEF LinkTypes
<1>2. Len(taken) \in Nat /\ Len(got) \in Nat
  BY ONLY <1>1
<1> QED BY <1>1, <1>2, PacketsAreWords DEF LinkTypes

(* A packet that begins nothing, one more, or one more to begin.           *)
LEMMA BeginsNone == \A t : Len(t) \in Nat => Begins(<<>>, t)
  BY DEF Begins

LEMMA BeginsLonger ==
    ASSUME NEW S, NEW s, NEW t \in Seq(S), NEW e \in S, Len(s) \in Nat, Begins(s, t)
    PROVE  Begins(s, Append(t, e)) /\ Len(s) + 1 <= Len(Append(t, e))
<1>1. Len(s) <= Len(t) /\ \A i \in 1 .. Len(s) : s[i] = t[i]
  BY DEF Begins
<1>2. Len(Append(t, e)) = Len(t) + 1 /\ Len(t) \in Nat
      /\ \A i \in 1 .. Len(t) : Append(t, e)[i] = t[i]
  BY AppendOne
<1> QED BY ONLY <1>1, <1>2, Len(s) \in Nat DEF Begins

LEMMA BeginsMore ==
    ASSUME NEW S, NEW s \in Seq(S), NEW t, NEW e \in S, Len(t) \in Nat, Begins(s, t),
           Len(s) + 1 <= Len(t), e = t[Len(s) + 1]
    PROVE  Begins(Append(s, e), t)
<1>1. \A i \in 1 .. Len(s) : s[i] = t[i]
  BY DEF Begins
<1>2. /\ Len(Append(s, e)) = Len(s) + 1 /\ Len(s) \in Nat /\ Append(s, e)[Len(s) + 1] = e
      /\ \A i \in 1 .. Len(s) : Append(s, e)[i] = s[i]
  BY AppendOne
<1>3. ASSUME NEW i \in 1 .. (Len(s) + 1)
      PROVE  Append(s, e)[i] = t[i]
  <2>1. i \in 1 .. Len(s) \/ i = Len(s) + 1
    BY ONLY <1>2, i \in 1 .. (Len(s) + 1)
  <2> QED BY ONLY <1>1, <1>2, <2>1, e = t[Len(s) + 1]
<1> QED BY ONLY <1>2, <1>3, Len(s) + 1 <= Len(t), Len(t) \in Nat DEF Begins

LEMMA LinkCloses ==
    ASSUME UpInv, DownInv, ~is_open', UNCHANGED <<sent, taken, written, got>>
    PROVE  UpInv' /\ DownInv'
  BY DEF UpInv, DownInv, Begins

LEMMA UpStays ==
    ASSUME UpInv, UNCHANGED <<is_open, up, sent, taken, pkg_size_words>>,
           rx' = rx \/ (rx # "data" /\ rx' # "data")
    PROVE  UpInv'
<1>1. Skipped' = Skipped /\ (rx' = "data" => rx = "data")
  BY DEF Skipped
<1> QED BY <1>1 DEF UpInv, Begins

LEMMA DownStays ==
    ASSUME DownInv, UNCHANGED <<is_open, down, written, got>>
    PROVE  DownInv'
  BY DEF DownInv, Begins

(* A new link: both directions are empty.                                  *)
LEMMA LinkOpens ==
    ASSUME glip_open, rx' # "data"
    PROVE  UpInv' /\ DownInv'
<1>1. up' = <<>> /\ down' = <<>> /\ sent' = <<>> /\ taken' = <<>> /\ written' = <<>>
      /\ got' = <<>>
  BY DEF glip_open
<1>2. Skipped' = 0
  BY DEF Skipped
<1>3. Begins(<<>>, <<>>) /\ Len(<<>>) + 1 = 1
  BY NoneLeft, BeginsNone
<1> QED BY ONLY <1>1, <1>2, <1>3, CarriesNothing, rx' # "data" DEF UpInv, DownInv

LEMMA UpSends ==
    ASSUME LinkTypes, UpInv, NEW p \in Packets, DeviceSends(p)
    PROVE  UpInv'
<1>1. /\ is_open /\ sent' = Append(sent, p) /\ up' = up \o Datagram(p)
      /\ UNCHANGED <<is_open, rx, pkg_size_words, taken>>
  BY DEF DeviceSends, connVars
<1>2. p \in LinkPacket /\ p \in Seq(Word)
  BY PacketsAreLinkPackets DEF LinkPacket
<1>3. /\ up \in Seq(Byte) /\ sent \in Seq(Seq(Word)) /\ Len(taken) \in Nat /\ Len(sent) \in Nat
  BY StreamTypes
<1>4. Begins(taken, sent) /\ Len(taken) <= Len(sent)
      /\ Carries(up, sent, Len(taken) + 1, Skipped)
      /\ (rx = "data" => pkg_size_words = Len(sent[Len(taken) + 1]))
  BY <1>1 DEF UpInv, Begins
<1>5. Skipped' = Skipped /\ Skipped \in {0, 2} /\ Skipped \in Nat
      /\ (rx = "data" => Skipped = 2)
  BY <1>1 DEF Skipped
<1>6. Len(taken) + 1 \in 1 .. (Len(sent) + 1)
  BY ONLY <1>3, <1>4
<1>7. Carries(up \o Datagram(p), Append(sent, p), Len(taken) + 1, Skipped)
  BY ONLY <1>2, <1>3, <1>4, <1>5, <1>6, CarriesAppend
<1>8. Begins(taken, Append(sent, p))
  BY ONLY <1>2, <1>3, <1>4, BeginsLonger
<1>9. ASSUME rx = "data"
      PROVE  Append(sent, p)[Len(taken) + 1] = sent[Len(taken) + 1]
  <2>1. Len(taken) + 1 <= Len(sent)
    BY ONLY <1>3, <1>4, <1>5, <1>6, <1>9, CarriesHead
  <2>2. \A i \in 1 .. Len(sent) : Append(sent, p)[i] = sent[i]
    BY ONLY <1>2, <1>3, AppendOne
  <2> QED BY ONLY <1>3, <2>1, <2>2
<1> QED BY ONLY <1>1, <1>4, <1>5, <1>7, <1>8, <1>9 DEF UpInv

(* The first read: the size is the one of the next packet.                 *)
LEMMA UpReadsSize ==
    ASSUME LinkTypes, UpInv, ReadSize
    PROVE  UpInv'
<1> DEFINE p == sent[Len(taken) + 1]
<1>1. /\ is_open /\ rx = "size" /\ rx' = "data" /\ Len(up) >= 2
      /\ pkg_size_words' = device_read(up, 1)[1]
      /\ up' = SubSeq(up, 3, Len(up)) /\ UNCHANGED <<is_open, sent, taken>>
  BY DEF ReadSize, Available, Rest, connVars
<1>2. /\ up \in Seq(Byte) /\ sent \in Seq(Seq(Word)) /\ Len(taken) \in Nat /\ Len(sent) \in Nat
      /\ \A i \in 1 .. Len(sent) : sent[i] \in LinkPacket
  BY StreamTypes
<1>3. Begins(taken, sent) /\ Len(taken) <= Len(sent) /\ Carries(up, sent, Len(taken) + 1, 0)
  BY <1>1 DEF UpInv, Begins, Skipped
<1>4. Len(taken) + 1 \in 1 .. (Len(sent) + 1) /\ up # <<>>
  BY ONLY <1>1, <1>2, <1>3
<1>5. /\ Len(taken) + 1 <= Len(sent)
      /\ \A k \in 1 .. (Size(p) - 0) : up[k] = Datagram(p)[k + 0]
  BY ONLY <1>2, <1>3, <1>4, CarriesHead
<1>6. Len(taken) + 1 \in 1 .. Len(sent) /\ p \in LinkPacket
  BY ONLY <1>2, <1>4, <1>5
<1> HIDE DEF p
<1>7. up[1] = Datagram(p)[1] /\ up[2] = Datagram(p)[2]
  <2>1. Size(p) \in Nat /\ Size(p) >= 2
    BY ONLY <1>6, SizeIsNat DEF LinkPacket
  <2>2. 1 \in 1 .. (Size(p) - 0) /\ 2 \in 1 .. (Size(p) - 0) /\ 1 + 0 = 1 /\ 2 + 0 = 2
    BY ONLY <2>1
  <2> QED BY ONLY <1>5, <2>2
<1>8. device_read(up, 1)[1] = up[1] * BYTE + up[2]
  <2>1. 1 \in Nat /\ Len(up) >= 2 * 1 /\ 2 * 1 - 1 = 1 /\ 2 * 1 = 2 /\ 1 \in 1 .. 1
    BY ONLY <1>1
  <2>2. \A w \in 1 .. 1 : device_read(up, 1)[w] = up[2 * w - 1] * BYTE + up[2 * w]
    BY ONLY <1>2, <2>1, ReadWords
  <2>3. device_read(up, 1)[1] = up[2 * 1 - 1] * BYTE + up[2 * 1]
    BY ONLY <2>1, <2>2
  <2> QED BY ONLY <2>1, <2>3
<1>9. pkg_size_words' = Len(p)
  BY ONLY <1>1, <1>6, <1>7, <1>8, DatagramReads
<1>10. Carries(SubSeq(up, 2 + 1, Len(up)), sent, Len(taken) + 1, 2)
  <2>1. /\ 2 \in Nat /\ 0 \in {0, 2} /\ 0 + 2 = 2 /\ 2 <= Len(up) /\ Len(taken) + 1 \in Nat
    BY ONLY <1>1, <1>2
  <2> QED BY ONLY <1>2, <1>3, <1>6, <2>1, CarriesRest
<1>11. Skipped' = 2 /\ 2 + 1 = 3
  BY <1>1 DEF Skipped
<1> QED BY ONLY <1>1, <1>3, <1>9, <1>10, <1>11 DEF UpInv, p

(* The second read: the packet is the next one the device sent.            *)
LEMMA UpReadsData ==
    ASSUME LinkTypes, UpInv, ReadData
    PROVE  UpInv'
<1> DEFINE p == sent[Len(taken) + 1]
           read == device_read(up, pkg_size_words)
<1>1. /\ is_open /\ rx = "data" /\ rx' = "size" /\ Len(up) >= 2 * pkg_size_words
      /\ taken' = Append(taken, read)
      /\ up' = SubSeq(up, 2 * pkg_size_words + 1, Len(up)) /\ UNCHANGED <<is_open, sent>>
  BY DEF ReadData, Available, Rest, connVars
<1>2. /\ up \in Seq(Byte) /\ sent \in Seq(Seq(Word)) /\ Len(taken) \in Nat /\ Len(sent) \in Nat
      /\ \A i \in 1 .. Len(sent) : sent[i] \in LinkPacket
  BY StreamTypes
<1>3. /\ Begins(taken, sent) /\ Len(taken) <= Len(sent) /\ Carries(up, sent, Len(taken) + 1, 2)
      /\ pkg_size_words = Len(p)
  BY <1>1 DEF UpInv, Begins, Skipped
<1>4. Len(taken) + 1 \in 1 .. (Len(sent) + 1) /\ 2 \in {0, 2}
  BY ONLY <1>2, <1>3
<1>5. /\ Len(taken) + 1 <= Len(sent)
      /\ \A k \in 1 .. (Size(p) - 2) : up[k] = Datagram(p)[k + 2]
  BY ONLY <1>2, <1>3, <1>4, CarriesHead
<1>6. Len(taken) + 1 \in 1 .. Len(sent) /\ p \in LinkPacket
  BY ONLY <1>2, <1>4, <1>5
<1>7. taken \in Seq(Seq(Word))
  BY DEF LinkTypes
<1> HIDE DEF p
<1>8. p \in Seq(Word) /\ Len(p) \in Nat /\ Size(p) = 2 * Len(p) + 2
  BY ONLY <1>6, PacketIsWords
<1>9. /\ read \in Seq(Word) /\ Len(read) = Len(p)
      /\ \A w \in 1 .. Len(p) : read[w] = up[2 * w - 1] * BYTE + up[2 * w]
  BY ONLY <1>1, <1>2, <1>3, <1>8, ReadWords
<1> HIDE DEF read
<1>10. ASSUME NEW w \in 1 .. Len(p)
       PROVE  read[w] = p[w]
  <2>1. /\ 2 * w - 1 \in 1 .. (Size(p) - 2) /\ 2 * w \in 1 .. (Size(p) - 2)
        /\ (2 * w - 1) + 2 = 2 * w + 1
    BY ONLY <1>8, w \in 1 .. Len(p)
  <2>2. up[2 * w - 1] = Datagram(p)[2 * w + 1] /\ up[2 * w] = Datagram(p)[2 * w + 2]
    BY ONLY <1>5, <2>1
  <2> QED BY ONLY <1>6, <1>9, <2>2, w \in 1 .. Len(p), DatagramReads
<1>11. read = p
  BY ONLY <1>8, <1>9, <1>10
<1>12. Begins(taken', sent) /\ Len(taken') = Len(taken) + 1
  <2>1. Begins(Append(taken, read), sent)
    BY ONLY <1>2, <1>3, <1>5, <1>7, <1>8, <1>11, BeginsMore DEF p
  <2>2. Len(Append(taken, read)) = Len(taken) + 1
    BY ONLY <1>7, <1>8, <1>11, AppendOne
  <2> QED BY ONLY <1>1, <2>1, <2>2
<1>13. Carries(SubSeq(up, 2 * pkg_size_words + 1, Len(up)), sent, Len(taken) + 2, 0)
  <2>1. /\ 2 * pkg_size_words \in Nat /\ 2 + 2 * pkg_size_words = Size(p)
        /\ 2 * pkg_size_words <= Len(up)
        /\ Len(taken) + 2 \in Nat /\ Len(taken) + 2 = (Len(taken) + 1) + 1 /\ 0 \in Nat
    BY ONLY <1>1, <1>2, <1>3, <1>8
  <2> QED BY ONLY <1>2, <1>3, <1>4, <1>6, <2>1, CarriesRest DEF p
<1>14. Skipped' = 0 /\ Len(taken') + 1 = Len(taken) + 2
  <2>1. Skipped' = 0
    BY <1>1 DEF Skipped
  <2> QED BY ONLY <1>2, <1>12, <2>1
<1> QED BY ONLY <1>1, <1>12, <1>13, <1>14 DEF UpInv

LEMMA DownWrites ==
    ASSUME LinkTypes, DownInv, NEW p \in Packets, packet_write_to_device(p)
    PROVE  DownInv'
<1>1. /\ is_open /\ written' = Append(written, p)
      /\ down' = down \o device_write(Framed(p)) /\ UNCHANGED <<is_open, got>>
  BY DEF packet_write_to_device, connVars, Framed
<1>2. p \in LinkPacket /\ p \in Seq(Word)
  BY PacketsAreLinkPackets DEF LinkPacket
<1>3. /\ down \in Seq(Byte) /\ written \in Seq(Seq(Word))
      /\ Len(got) \in Nat /\ Len(written) \in Nat
  BY StreamTypes
<1>4. Begins(got, written) /\ Len(got) <= Len(written) /\ Carries(down, written, Len(got) + 1, 0)
  BY <1>1 DEF DownInv, Begins
<1>5. Len(got) + 1 \in 1 .. (Len(written) + 1) /\ 0 \in Nat
  BY ONLY <1>3, <1>4
<1>6. Carries(down \o Datagram(p), Append(written, p), Len(got) + 1, 0)
  BY ONLY <1>2, <1>3, <1>4, <1>5, CarriesAppend
<1>7. Begins(got, Append(written, p))
  BY ONLY <1>2, <1>3, <1>4, BeginsLonger
<1>8. device_write(Framed(p)) = Datagram(p)
  BY ONLY <1>2, WriteIsDatagram
<1> QED BY ONLY <1>1, <1>6, <1>7, <1>8 DEF DownInv

LEMMA DownReceives ==
    ASSUME LinkTypes, DownInv, DeviceReceives
    PROVE  DownInv'
<1> DEFINE p == written[Len(got) + 1]
           n == down[1] * BYTE + down[2]
<1>1. /\ is_open /\ Len(down) >= 2 /\ Len(down) >= 2 * (n + 1)
      /\ got' = Append(got, Received(n))
      /\ down' = SubSeq(down, 2 * (n + 1) + 1, Len(down)) /\ UNCHANGED <<is_open, written>>
  BY DEF DeviceReceives, Rest, connVars, Received
<1>2. /\ down \in Seq(Byte) /\ written \in Seq(Seq(Word))
      /\ Len(got) \in Nat /\ Len(written) \in Nat
      /\ \A i \in 1 .. Len(written) : written[i] \in LinkPacket
  BY StreamTypes
<1>3. Begins(got, written) /\ Len(got) <= Len(written) /\ Carries(down, written, Len(got) + 1, 0)
  BY <1>1 DEF DownInv, Begins
<1>4. Len(got) + 1 \in 1 .. (Len(written) + 1) /\ down # <<>> /\ 0 \in {0, 2}
  BY ONLY <1>1, <1>2, <1>3
<1>5. /\ Len(got) + 1 <= Len(written)
      /\ \A k \in 1 .. (Size(p) - 0) : down[k] = Datagram(p)[k + 0]
  BY ONLY <1>2, <1>3, <1>4, CarriesHead
<1>6. Len(got) + 1 \in 1 .. Len(written) /\ p \in LinkPacket
  BY ONLY <1>2, <1>4, <1>5
<1>7. got \in Seq(Seq(Word))
  BY DEF LinkTypes
<1> HIDE DEF p
<1>8. p \in Seq(Word) /\ Len(p) \in Nat /\ Size(p) = 2 * Len(p) + 2
  BY ONLY <1>6, PacketIsWords
<1>9. n = Len(p)
  <2>1. 1 \in 1 .. (Size(p) - 0) /\ 2 \in 1 .. (Size(p) - 0) /\ 1 + 0 = 1 /\ 2 + 0 = 2
    BY ONLY <1>8
  <2>2. down[1] = Datagram(p)[1] /\ down[2] = Datagram(p)[2]
    BY ONLY <1>5, <2>1
  <2> QED BY ONLY <1>6, <2>2, DatagramReads
<1> HIDE DEF n
<1>10. Received(n) \in Seq(Word) /\ Len(Received(n)) = Len(p)
  BY ONLY <1>1, <1>2, <1>8, <1>9, ReceivedTypes
<1>11. ASSUME NEW w \in 1 .. Len(p)
       PROVE  Received(n)[w] = p[w]
  <2>1. /\ 2 * w + 1 \in 1 .. (Size(p) - 0) /\ 2 * w + 2 \in 1 .. (Size(p) - 0)
        /\ (2 * w + 1) + 0 = 2 * w + 1 /\ (2 * w + 2) + 0 = 2 * w + 2
    BY ONLY <1>8, w \in 1 .. Len(p)
  <2>2. down[2 * w + 1] = Datagram(p)[2 * w + 1] /\ down[2 * w + 2] = Datagram(p)[2 * w + 2]
    BY ONLY <1>5, <2>1
  <2>3. Received(n)[w] = down[2 * w + 1] * BYTE + down[2 * w + 2]
    BY ONLY <1>9, w \in 1 .. Len(p) DEF Received
  <2> QED BY ONLY <1>6, <2>2, <2>3, w \in 1 .. Len(p), DatagramReads
<1>12. Received(n) = p
  BY ONLY <1>8, <1>10, <1>11
<1>13. Begins(got', written) /\ Len(got') = Len(got) + 1
  <2>1. Begins(Append(got, Received(n)), written)
    BY ONLY <1>2, <1>3, <1>5, <1>7, <1>8, <1>12, BeginsMore DEF p
  <2>2. Len(Append(got, Received(n))) = Len(got) + 1
    BY ONLY <1>7, <1>8, <1>12, AppendOne
  <2> QED BY ONLY <1>1, <2>1, <2>2
<1>14. Carries(SubSeq(down, 2 * (n + 1) + 1, Len(down)), written, Len(got) + 2, 0)
  <2>1. /\ 2 * (n + 1) \in Nat /\ 0 + 2 * (n + 1) = Size(p) /\ 2 * (n + 1) <= Len(down)
        /\ Len(got) + 2 \in Nat /\ Len(got) + 2 = (Len(got) + 1) + 1 /\ 0 \in Nat
    BY ONLY <1>1, <1>2, <1>8, <1>9
  <2> QED BY ONLY <1>2, <1>3, <1>4, <1>6, <2>1, CarriesRest DEF p
<1>15. Len(got') + 1 = Len(got) + 2
  BY ONLY <1>2, <1>13
<1> QED BY ONLY <1>1, <1>13, <1>14, <1>15 DEF DownInv
-----------------------------------------------------------------------------
LEMMA LinkInvInit == LinkInit => LinkInv
<1> SUFFICES ASSUME LinkInit PROVE LinkInv
  OBVIOUS
<1>1. LinkTypes
  <2>1. 0 \in Word /\ 0 \in 0 .. MaxLinks /\ 0 \in 0 .. MaxFailures
    BY GlipAssumption DEF Word
  <2> QED BY <2>1, NoneLeft DEF LinkInit, LinkTypes
<1>2. UpInv /\ DownInv
  BY NoneLeft, BeginsNone DEF LinkInit, UpInv, DownInv
<1> QED BY ONLY <1>1, <1>2 DEF LinkInv

LEMMA LinkInvNext ==
    ASSUME LinkInv, [LinkNext]_linkVars
    PROVE  LinkInv'
<1>1. LinkTypes /\ (~torn => UpInv /\ DownInv)
  BY DEF LinkInv
<1>2. LinkTypes'
  BY ONLY <1>1, [LinkNext]_linkVars, LinkTypesNext
<1> SUFFICES ASSUME ~torn' PROVE UpInv' /\ DownInv'
  BY <1>2 DEF LinkInv
<1> USE DEF connVars, upVars, downVars
<1>3. CASE osd_gateway_glip_connect
  <2>1. rx = "off" /\ rx' \in {"off", "size"}
    BY ONLY <1>3 DEF osd_gateway_glip_connect
  <2>2. CASE glip_open
    BY ONLY <2>1, <2>2, LinkOpens
  <2>3. CASE UNCHANGED <<is_open, upVars, downVars, torn>>
    <3>1. UNCHANGED pkg_size_words
      BY ONLY <1>3 DEF osd_gateway_glip_connect
    <3> QED BY <1>1, <2>1, <2>3, <3>1, UpStays, DownStays
  <2> QED BY ONLY <1>3, <2>2, <2>3 DEF osd_gateway_glip_connect
<1>4. CASE ConnectFails
  BY <1>1, <1>4, UpStays, DownStays DEF ConnectFails
<1>5. CASE osd_gateway_glip_disconnect \/ LinkLost
  BY <1>1, <1>5, LinkCloses DEF osd_gateway_glip_disconnect, LinkLost
<1>6. CASE DisconnectJoins \/ ReadEnds
  BY <1>1, <1>6, LinkCloses DEF DisconnectJoins, ReadEnds
<1>7. ASSUME NEW p \in Packets, DeviceSends(p)
      PROVE  UpInv' /\ DownInv'
  BY <1>1, <1>7, UpSends, DownStays DEF DeviceSends
<1>8. CASE ReadSize
  BY <1>1, <1>8, UpReadsSize, DownStays DEF ReadSize
<1>9. CASE ReadData
  BY <1>1, <1>9, UpReadsData, DownStays DEF ReadData
<1>10. CASE ReadFails
  BY <1>10 DEF ReadFails
<1>11. ASSUME NEW p \in Packets, packet_write_to_device(p)
       PROVE  UpInv' /\ DownInv'
  <2>1. UNCHANGED <<is_open, up, sent, taken, pkg_size_words, rx, torn>>
    BY ONLY <1>11 DEF packet_write_to_device
  <2>2. UpInv /\ DownInv
    BY <1>1, <2>1
  <2>3. DownInv'
    BY ONLY <1>1, <1>11, <2>2, DownWrites
  <2> QED BY ONLY <2>1, <2>2, <2>3, UpStays
<1>12. ASSUME NEW p \in Packets, WriteFails(p)
       PROVE  UpInv' /\ DownInv'
  <2>1. torn' = torn
    BY <1>12 DEF WriteFails
  <2>2. UNCHANGED <<is_open, up, sent, taken, pkg_size_words, rx, down, written, got>>
    BY <1>12 DEF WriteFails
  <2>3. UpInv /\ DownInv
    BY <1>1, <2>1
  <2> QED BY ONLY <2>2, <2>3, UpStays, DownStays
<1>13. CASE DeviceReceives
  <2>1. UNCHANGED <<is_open, up, sent, taken, pkg_size_words, rx, torn>>
    BY ONLY <1>13 DEF DeviceReceives
  <2>2. UpInv /\ DownInv
    BY <1>1, <2>1
  <2>3. DownInv'
    BY ONLY <1>1, <1>13, <2>2, DownReceives
  <2> QED BY ONLY <2>1, <2>2, <2>3, UpStays
<1>14. CASE UNCHANGED linkVars
  <2>1. /\ UNCHANGED <<is_open, up, sent, taken, pkg_size_words, rx, torn>>
        /\ UNCHANGED <<down, written, got>>
    BY ONLY <1>14 DEF linkVars
  <2>2. UpInv /\ DownInv
    BY <1>1, <2>1
  <2> QED BY ONLY <2>1, <2>2, UpStays, DownStays
<1> QED
  BY <1>3, <1>4, <1>5, <1>6, <1>7, <1>8, <1>9, <1>10, <1>11, <1>12, <1>13, <1>14
     DEF LinkNext, RxStep

LEMMA BeginsIsPrefix ==
    ASSUME NEW S, NEW s \in Seq(S), NEW t \in Seq(S), Begins(s, t)
    PROVE  IsPrefix(s, t)
<1>1. Len(s) \in Nat /\ Len(t) \in Nat /\ Len(s) <= Len(t)
      /\ \A i \in 1 .. Len(s) : s[i] = t[i]
  BY DEF Begins
<1>2. SubSeq(s, 1, Len(s)) = SubSeq(t, 1, Len(s))
  BY <1>1
<1> QED BY <1>1, <1>2 DEF IsPrefix

LEMMA LinkInvSuffices == LinkInv => StreamsAreKept
<1> SUFFICES ASSUME LinkInv PROVE StreamsAreKept
  OBVIOUS
<1>1. LinkTypes /\ (~torn => UpInv /\ DownInv)
  BY DEF LinkInv
<1>2. /\ up \in Seq(Byte) /\ sent \in Seq(Seq(Word)) /\ written \in Seq(Seq(Word))
      /\ Len(taken) \in Nat /\ Len(sent) \in Nat
  BY <1>1, StreamTypes
<1>3. taken \in Seq(Seq(Word)) /\ got \in Seq(Seq(Word))
  BY <1>1 DEF LinkTypes
<1>4. LinkTypeOK
  BY <1>1, <1>2, <1>3 DEF LinkTypes, LinkTypeOK
<1>5. ASSUME ~torn
      PROVE  IsPrefix(taken, sent) /\ IsPrefix(got, written)
  BY <1>1, <1>2, <1>3, <1>5, BeginsIsPrefix DEF UpInv, DownInv
<1>6. ASSUME ~torn, is_open, rx = "data"
      PROVE  Len(taken) < Len(sent) /\ pkg_size_words = Len(sent[Len(taken) + 1])
  <2>1. /\ Begins(taken, sent) /\ Len(taken) <= Len(sent)
        /\ Carries(up, sent, Len(taken) + 1, 2)
        /\ pkg_size_words = Len(sent[Len(taken) + 1])
    BY <1>1, <1>6 DEF UpInv, Begins, Skipped
  <2>2. Len(taken) + 1 \in 1 .. (Len(sent) + 1) /\ 2 \in {0, 2}
    BY ONLY <1>2, <2>1
  <2>3. Len(taken) + 1 <= Len(sent)
    BY ONLY <1>2, <2>1, <2>2, CarriesHead
  <2> QED BY ONLY <1>2, <2>1, <2>3
<1> QED BY ONLY <1>4, <1>5, <1>6 DEF StreamsAreKept

(* packet_read_from_device(), packet_write_to_device() and bswap_16() keep *)
(* the stream aligned: until a read or a write fails, the RX thread's two  *)
(* reads meet the size and the words of the packet the device sent next,   *)
(* and the device receives the packets as osd_gateway_glip wrote them,     *)
(* whatever the packets are and whenever the link is lost and opened again *)
(* by osd_gateway_glip_connect().                                          *)
THEOREM StreamsStayAligned == LinkSpec => []StreamsAreKept
<1>1. LinkSpec => []LinkInv
  <2>1. LinkInv /\ [LinkNext]_linkVars => LinkInv'
    BY LinkInvNext
  <2> QED BY LinkInvInit, <2>1, PTL DEF LinkSpec
<1> QED BY <1>1, LinkInvSuffices, PTL
=============================================================================
