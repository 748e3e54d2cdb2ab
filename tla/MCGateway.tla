----------------------------- MODULE MCGateway -----------------------------
(* The gateway: a behaviour is one of its threads (Gateway), with packets  *)
(* as units, or one of the byte stream that the packets travel in          *)
(* (GlipLink). Bytes have three values, so that the words 3 and 4, the     *)
(* sizes of the packets on the link, have different bytes.                 *)
EXTENDS Gateway, GlipLink

TwoPackets == {<<1, 2, 6>>, <<1, 2, 6, 5>>}

VARIABLE part    \* what the behaviour is about

allVars == <<part, vars, linkVars>>

GatewayInit == part \in {"threads", "link"} /\ Init /\ LinkInit

GatewayNext ==
    /\ UNCHANGED part
    /\ \/ part = "threads" /\ Next /\ UNCHANGED linkVars
       \/ part = "link" /\ LinkNext /\ UNCHANGED vars

Threads(A) == part = "threads" /\ A /\ UNCHANGED <<part, linkVars>>
Link(A) == part = "link" /\ A /\ UNCHANGED <<part, vars>>

GatewaySpec ==
    /\ GatewayInit /\ [][GatewayNext]_allVars
    /\ WF_allVars(Threads(MainNext)) /\ WF_allVars(Threads(JoinTimesOut))
    /\ WF_allVars(Threads(RxNext)) /\ WF_allVars(Threads(WorkerNext))
    /\ WF_allVars(Threads(forward_devicerx_to_hostctrl))
    /\ \A s \in Session : /\ WF_allVars(Threads(hostiothread_rcv_from_hostctrl(s)))
                          /\ WF_allVars(Threads(HostctrlTakes(s)))
    /\ WF_allVars(Threads(osd_gateway_is_connected))
    /\ WF_allVars(Link(RxStep)) /\ WF_allVars(Link(DisconnectJoins))
=============================================================================
