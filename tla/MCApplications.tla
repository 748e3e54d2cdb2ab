--------------------------- MODULE MCApplications ---------------------------
(* What uses the library: a behaviour is one of a command line tool        *)
(* (TargetRun), of a terminal on its own (Terminal), of a Python program   *)
(* with an object of any class and two threads (PyBindings), or of one     *)
(* that works on packets (PyPacket). The tools run with every set of       *)
(* options.                                                                *)
EXTENDS TargetRun, Terminal, PyBindings, PyPacket

AllTools == {"target-run", "host-controller", "device-gateway"}
AllOptions == SUBSET {"coretrace", "systrace", "terminal"}
Indices == {-1, 0, 3, 4}
Words == {NotAWord, 1}

VARIABLE part    \* what the behaviour is about

allVars == <<part, toolVars, termVars, pyVars, pktVars>>

(* What a behaviour is not about is the same in all behaviours.            *)
ApplicationsInit ==
    /\ part \in {"tool", "terminal", "python", "packets"}
    /\ ToolInit /\ TermInit /\ PyInit /\ PktInit
    /\ part # "tool" => tool = "target-run" /\ opts = {}
    /\ part # "python" => cls = "Log"

Tool(A) == part = "tool" /\ A /\ UNCHANGED <<part, termVars, pyVars, pktVars>>
Term(A) == part = "terminal" /\ A /\ UNCHANGED <<part, toolVars, pyVars, pktVars>>
Python(A) == part = "python" /\ A /\ UNCHANGED <<part, toolVars, termVars, pktVars>>

ApplicationsNext ==
    /\ UNCHANGED part
    /\ \/ part = "tool" /\ ToolNext /\ UNCHANGED <<termVars, pyVars, pktVars>>
       \/ part = "terminal" /\ TermNext /\ UNCHANGED <<toolVars, pyVars, pktVars>>
       \/ part = "python" /\ PyNext /\ UNCHANGED <<toolVars, termVars, pktVars>>
       \/ part = "packets" /\ PktNext /\ UNCHANGED <<toolVars, termVars, pyVars>>

ApplicationsSpec ==
    /\ ApplicationsInit /\ [][ApplicationsNext]_allVars
    /\ WF_allVars(Tool(MainStep)) /\ WF_allVars(Tool(interrupted /\ Signal))
    /\ WF_allVars(Term(TxStep)) /\ WF_allVars(Term(StopStep))
    /\ WF_allVars(Python(IoStep))
    /\ \A t \in PyThread : /\ SF_allVars(Python(Returns(t)))
                           /\ WF_allVars(Python(DropGil(t)))
                           /\ SF_allVars(Python(TakeGil(t)))
-----------------------------------------------------------------------------
(* What was asked to end does: a tool that gets signals as long as it      *)
(* runs, and a terminal that is stopped while its thread polls or sends.   *)
ToolsEnd == AskedEnds /\ StopReturns
=============================================================================
