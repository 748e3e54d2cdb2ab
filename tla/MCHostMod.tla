----------------------------- MODULE MCHostMod -----------------------------
(* The host module: a behaviour is one of its two threads (HostMod), with  *)
(* or without an event handler, or one of its I/O thread that puts split   *)
(* events together (EventReassembly).                                      *)
EXTENDS HostMod, EventReassembly

VARIABLE part    \* what the behaviour is about

allVars == <<part, vars, evVars>>

HostModInit ==
    /\ part \in {"calls", "events"} /\ Init /\ EvInit
    /\ part = "events" => has_handler

HostModNext ==
    /\ UNCHANGED part
    /\ \/ part = "calls" /\ Next /\ UNCHANGED evVars
       \/ part = "events" /\ EvNext /\ UNCHANGED vars

Calls(A) == part = "calls" /\ A /\ UNCHANGED <<part, evVars>>

HostModSpec ==
    /\ HostModInit /\ [][HostModNext]_allVars
    /\ WF_allVars(Calls(MainReturns)) /\ WF_allVars(Calls(IoNext))
    /\ \A s \in Session : /\ WF_allVars(Calls(iothread_rcv_from_hostctrl(s)))
                          /\ WF_allVars(Calls(HostctrlTakes(s)))
    /\ WF_allVars(Calls(ModuleAnswers))
=============================================================================
