-------------------------- MODULE ApplicationProofs --------------------------
(***************************************************************************)
(* For any number of events and failing calls, every tool and every set of *)
(* options: what can end the process, and that nothing of a trace is lost  *)
(* on the way to the log files. For every buffer size and any number of    *)
(* characters, starts and failures: what is typed on the pseudo-terminal   *)
(* is sent in its order, and a stop that succeeded leaves nothing of the   *)
(* terminal running.                                                       *)
(***************************************************************************)
EXTENDS TargetRun, Terminal, TLAPS

(* Where run() of osd-target-run can be, in the order of its calls.        *)
Early   == {"hostctrl", "gateway", "memaccess", "cpus_stop", "tracing"}
CtSetup == {"ct", "ct_files", "ct_start"}
StSetup == {"st", "st_files", "st_start"}
Program == {"terminal", "find", "loadelf", "cpus_start", "mem_disconnect"}
Waiting == {"wait", "to_pause", "pause"}
Taking  == {"cleanup", "term_free", "st_stop", "st_disconnect", "st_free"}
CtTaking == {"ct_stop", "ct_disconnect", "ct_free"}
Closing == {"files", "gw_disconnect", "hc_end", "end"}
TargetPc == Early \cup CtSetup \cup StSetup \cup {"ct_undo", "st_undo", "tracing_done"}
            \cup Program \cup Waiting \cup Taking \cup CtTaking \cup Closing
OtherPc == {"hc_new", "hc_stop", "dg_options", "dg_disconnect", "end"} \cup Waiting

(* Before a logger is started, while it is observed, and after its free.   *)
Before(l) == Early \cup CtSetup \cup (IF l = "ct" THEN {} ELSE StSetup \cup {"ct_undo"})
Setup(l)  == {Pc[l].files, Pc[l].start}
While(l)  == {"tracing_done"} \cup Program \cup Waiting
             \cup (IF l = "ct" THEN StSetup ELSE {})
Past(l)   == Closing \cup (IF l = "ct" THEN {} ELSE CtTaking)
TakenDown(l) == {Pc[l].undo, Pc[l].disconnect, Pc[l].free}

Chars == Seq(1 .. MaxEvents)
Objs  == [Objects -> {"null", "undef", "new", "on", "freed"}]
Regs  == [Hosts -> [active : BOOLEAN, dest : BOOLEAN]]

Types ==
    /\ tool \in Tools /\ opts \in OptionSets /\ obj \in Objs /\ module \in Regs
    /\ files \in [Loggers -> {"none", "open", "closed"}]
    /\ sysprint_buf \in Chars /\ printlog \in Chars /\ prints \in Chars
    /\ cpus \in {"free", "stopped", "started"} /\ tx \in {"none", "poll", "send", "ended"}
    /\ events \in 0 .. MaxEvents /\ toolFails \in 0 .. MaxToolFails

(* Each tool goes its own way; only osd-target-run starts the CPUs.        *)
PcInv ==
    /\ pc \in IF tool = "target-run" THEN TargetPc ELSE OtherPc
    /\ cpus = "started" => /\ tool = "target-run"
                           /\ pc \in {"mem_disconnect"} \cup Waiting \cup Taking
                                     \cup CtTaking \cup Closing

(* The life of a logger against the position of the main thread: its       *)
(* module is only active without it after one of the two failures, and     *)
(* only after its files were opened.                                       *)
LoggerInv(l) ==
    /\ pc \in Before(l) => ~module[l].active
    /\ pc \in Setup(l) => obj[l] = "on"
    /\ pc = Pc[l].start => files[l] = "open"
    /\ tool = "target-run" /\ pc \in Past(l) => obj[l] # "on"
    /\ module[l].active /\ obj[l] = "on" => files[l] = "open"
    /\ module[l].active => \/ cause \cap {"logger_start", "logger_stop"} # {}
                           \/ obj[l] = "on" /\ pc \notin TakenDown(l)
    /\ pc = Pc[l].free /\ obj[l] = "on" => "logger_disconnect" \in cause
    /\ tool = "target-run" /\ pc \in While(l) /\ Option(l) \in opts =>
          /\ module[l] = [active |-> TRUE, dest |-> TRUE]
          /\ obj[l] = "on" /\ files[l] = "open"

(* What the cleanup finds: a pointer is only NULL after a failure.         *)
ObjectInv ==
    /\ pc = "term_free" /\ obj["term"] = "on" => "term_disconnect" \in cause
    /\ module["term"].active \/ tx \in {"poll", "send"} => "terminal" \in opts
    /\ tool = "target-run" /\ pc # "hostctrl" /\ obj["hostctrl"] = "null" =>
          "hostctrl_new" \in cause
    /\ tool = "target-run" /\ pc \notin {"hostctrl", "gateway"} /\ obj["gateway"] = "null" =>
          cause \cap {"hostctrl_new", "hostctrl_start", "gateway_new"} # {}

(* Nothing is printed before the CPUs run; then it is in one of two places.*)
PrintInv ==
    /\ cpus # "started" => prints = <<>> /\ printlog = <<>> /\ sysprint_buf = <<>>
    /\ PrintsKept

CrashInv ==
    /\ crash = "assert" => cause \cap {"get_modules", "logger_disconnect", "terminal",
          "mem_disconnect", "term_disconnect", "hostctrl_new", "hostctrl_stop"} # {}
    /\ crash = "undefined" => cause \cap {"enum_connect", "hostctrl_new", "gateway_new"} # {}
    /\ crash = "null" => cause \cap {"hostctrl_new", "hostctrl_start", "gateway_new"} # {}
    /\ crash = "router" => "terminal" \in opts \/ cause \cap {"logger_start", "logger_stop"} # {}
    /\ crash = "tx_freed" => "terminal" \in opts
    /\ crash # "closedfile"

IInv == /\ Types /\ PcInv /\ (\A l \in Loggers : LoggerInv(l))
        /\ ObjectInv /\ PrintInv /\ CrashInv
-----------------------------------------------------------------------------
(* Values of the tables.                                                   *)

LEMMA PcValues ==
    /\ Pc["ct"].files = "ct_files" /\ Pc["ct"].start = "ct_start" /\ Pc["ct"].undo = "ct_undo"
    /\ Pc["ct"].stop = "ct_stop" /\ Pc["ct"].disconnect = "ct_disconnect"
    /\ Pc["ct"].free = "ct_free"
    /\ Pc["st"].files = "st_files" /\ Pc["st"].start = "st_start" /\ Pc["st"].undo = "st_undo"
    /\ Pc["st"].stop = "st_stop" /\ Pc["st"].disconnect = "st_disconnect"
    /\ Pc["st"].free = "st_free"
  BY DEF Pc

LEMMA AfterWaitValue ==
    ASSUME tool \in Tools
    PROVE  \/ tool = "target-run" /\ AfterWait = "cleanup"
           \/ tool # "target-run" /\ AfterWait \in {"hc_stop", "dg_disconnect"}
  BY TargetRunAssumption DEF AfterWait

(* What was printed, in two parts: a character or the rest moves on.       *)
LEMMA PrintFacts ==
    ASSUME NEW S, NEW s \in Seq(S), NEW t \in Seq(S), NEW x \in S
    PROVE  /\ s \o <<>> = s /\ (s \o t) \o <<>> = s \o t
           /\ s \o Append(t, x) = Append(s \o t, x)
           /\ (s \o Append(t, x)) \o <<>> = Append(s \o t, x)
           /\ s \o t \in Seq(S) /\ s \o Append(t, x) \in Seq(S)
           /\ Append(t, x) \in Seq(S) /\ <<>> \in Seq(S)
  OBVIOUS

LEMMA RegFacts ==
    ASSUME NEW m \in Regs, NEW h \in Hosts, NEW a \in BOOLEAN, NEW d \in BOOLEAN
    PROVE  /\ [m EXCEPT ![h] = [active |-> a, dest |-> d]] \in Regs
           /\ [m EXCEPT ![h].active = FALSE] \in Regs
           /\ [m EXCEPT ![h] = [active |-> a, dest |-> d]][h] = [active |-> a, dest |-> d]
           /\ [m EXCEPT ![h].active = FALSE][h].active = FALSE
           /\ \A g \in Hosts \ {h} :
                 /\ [m EXCEPT ![h] = [active |-> a, dest |-> d]][g] = m[g]
                 /\ [m EXCEPT ![h].active = FALSE][g] = m[g]
  BY DEF Regs
-----------------------------------------------------------------------------
(* The steps of the main thread, and the signal: those that deal with a    *)
(* logger, and the others.                                                 *)
ControlStep ==
    \/ run_hostctrl \/ run_gateway_glip \/ osd_memaccess_connect
    \/ osd_memaccess_cpus_stop \/ run_tracing \/ TracingDone \/ run_terminal
    \/ osd_memaccess_find_memories_all \/ LoadMemories \/ osd_memaccess_cpus_start
    \/ osd_memaccess_free \/ Wait \/ Pause \/ Signal
    \/ osd_terminal_disconnect \/ osd_terminal_free
    \/ CloseFiles \/ FreeGateway \/ FreeHostctrl
    \/ HostControllerStarts \/ HostControllerStops
    \/ DeviceGatewayStarts \/ DeviceGatewayStops

LoggerStep(l) ==
    \/ SkipLogger(l) \/ ConnectLogger(l) \/ OpenFiles(l) \/ StartLogger(l)
    \/ UndoLogger(l) \/ StopLogger(l) \/ DisconnectLogger(l) \/ FreeLogger(l)

(* No step of the main thread is an event or undoes a failure.             *)
Counted ==
    /\ UNCHANGED <<tool, opts, events>> /\ cause \subseteq cause'
    /\ toolFails' = toolFails \/ (toolFails < MaxToolFails /\ toolFails' = toolFails + 1)

LEMMA ControlCounted ==
    ASSUME IInv, ControlStep
    PROVE  Counted
<1>1. CASE run_hostctrl
  BY <1>1 DEF run_hostctrl, OK, Failed, Counted, envVars
<1>2. CASE run_gateway_glip
  BY <1>2 DEF run_gateway_glip, OK, Failed, Counted, envVars
<1>3. CASE osd_memaccess_connect
  BY <1>3 DEF osd_memaccess_connect, OK, Failed, Counted, envVars
<1>4. CASE osd_memaccess_cpus_stop
  BY <1>4 DEF osd_memaccess_cpus_stop, OK, Failed, Counted, envVars
<1>5. CASE run_tracing
  BY <1>5 DEF run_tracing, OK, Failed, FailsAndDies, Counted, envVars
<1>6. CASE TracingDone
  BY <1>6 DEF TracingDone, OK, Failed, Counted, envVars
<1>7. CASE run_terminal
  BY <1>7 DEF run_terminal, OK, Failed, FailsAndDies, Counted, envVars
<1>8. CASE osd_memaccess_find_memories_all
  BY <1>8 DEF osd_memaccess_find_memories_all, OK, Failed, Counted, envVars
<1>9. CASE LoadMemories
  BY <1>9 DEF LoadMemories, OK, Failed, Counted, envVars
<1>10. CASE osd_memaccess_cpus_start
  BY <1>10 DEF osd_memaccess_cpus_start, OK, Failed, Counted, envVars
<1>11. CASE osd_memaccess_free
  BY <1>11 DEF osd_memaccess_free, OK, FailsAndDies, Counted, envVars
<1>12. CASE Wait
  BY <1>12 DEF Wait, OK, Counted, envVars
<1>13. CASE Pause
  BY <1>13 DEF Pause, OK, Counted, envVars
<1>14. CASE Signal
  BY <1>14 DEF Signal, Counted, envVars
<1>15. CASE osd_terminal_disconnect
  BY <1>15 DEF osd_terminal_disconnect, OK, Failed, Counted, envVars
<1>16. CASE osd_terminal_free
  BY <1>16 DEF osd_terminal_free, OK, Dies, Counted, envVars, FreeHostmod
<1>17. CASE CloseFiles
  BY <1>17 DEF CloseFiles, OK, Counted, envVars
<1>18. CASE FreeGateway
  BY <1>18 DEF FreeGateway, OK, Dies, Counted, envVars
<1>19. CASE FreeHostctrl
  BY <1>19 DEF FreeHostctrl, OK, Dies, FailsAndDies, Counted, envVars
<1>20. CASE HostControllerStarts
  BY <1>20 DEF HostControllerStarts, OK, Failed, FailsAndDies, Counted, envVars
<1>21. CASE HostControllerStops
  BY <1>21 DEF HostControllerStops, OK, FailsAndDies, Counted, envVars
<1>22. CASE DeviceGatewayStarts
  BY <1>22 DEF DeviceGatewayStarts, OK, Failed, FailsAndDies, Counted, envVars
<1>23. CASE DeviceGatewayStops
  BY <1>23 DEF DeviceGatewayStops, OK, Counted, envVars
<1> QED BY <1>1, <1>2, <1>3, <1>4, <1>5, <1>6, <1>7, <1>8, <1>9, <1>10, <1>11,
   <1>12, <1>13, <1>14, <1>15, <1>16, <1>17, <1>18, <1>19, <1>20, <1>21, <1>22,
   <1>23 DEF ControlStep

LEMMA LoggerCounted ==
    ASSUME IInv, NEW l \in Loggers, LoggerStep(l)
    PROVE  Counted
<1>1. CASE SkipLogger(l)
  BY <1>1 DEF SkipLogger, OK, Counted, envVars, After
<1>2. CASE ConnectLogger(l)
  BY <1>2 DEF ConnectLogger, OK, Failed, Counted, envVars
<1>3. CASE OpenFiles(l)
  BY <1>3 DEF OpenFiles, OK, Failed, Counted, envVars
<1>4. CASE StartLogger(l)
  BY <1>4 DEF StartLogger, OK, Failed, Counted, envVars, After
<1>5. CASE UndoLogger(l)
  BY <1>5 DEF UndoLogger, OK, FailsAndDies, Counted, envVars
<1>6. CASE StopLogger(l)
  BY <1>6 DEF StopLogger, OK, Failed, Counted, envVars, Stopped
<1>7. CASE DisconnectLogger(l)
  BY <1>7 DEF DisconnectLogger, OK, Failed, Counted, envVars
<1>8. CASE FreeLogger(l)
  BY <1>8 DEF FreeLogger, OK, Dies, Counted, envVars, FreeHostmod, Stopped
<1> QED BY <1>1, <1>2, <1>3, <1>4, <1>5, <1>6, <1>7, <1>8 DEF LoggerStep

-----------------------------------------------------------------------------
(* Typing, one part of the state at a time.                                *)

LEMMA ControlObjs ==
    ASSUME IInv, ControlStep
    PROVE  obj' \in Objs
<1>1. CASE run_hostctrl
  BY <1>1 DEF run_hostctrl, IInv, Types, Objs, OK, Failed, Set
<1>2. CASE run_gateway_glip
  BY <1>2 DEF run_gateway_glip, IInv, Types, Objs, OK, Failed, Set
<1>3. CASE osd_memaccess_connect
  BY <1>3 DEF osd_memaccess_connect, IInv, Types, Objs, OK, Failed, Set
<1>4. CASE osd_memaccess_cpus_stop
  BY <1>4 DEF osd_memaccess_cpus_stop, IInv, Types, Objs, OK, Failed
<1>5. CASE run_tracing
  BY <1>5 DEF run_tracing, IInv, Types, Objs, OK, Failed, FailsAndDies, Set
<1>6. CASE TracingDone
  BY <1>6 DEF TracingDone, IInv, Types, Objs, OK, Failed, Set
<1>7. CASE run_terminal
  BY <1>7 DEF run_terminal, IInv, Types, Objs, OK, Failed, FailsAndDies, Set
<1>8. CASE osd_memaccess_find_memories_all
  BY <1>8 DEF osd_memaccess_find_memories_all, IInv, Types, Objs, OK, Failed
<1>9. CASE LoadMemories
  BY <1>9 DEF LoadMemories, IInv, Types, Objs, OK, Failed
<1>10. CASE osd_memaccess_cpus_start
  BY <1>10 DEF osd_memaccess_cpus_start, IInv, Types, Objs, OK, Failed
<1>11. CASE osd_memaccess_free
  BY <1>11 DEF osd_memaccess_free, IInv, Types, Objs, OK, FailsAndDies, Set
<1>12. CASE Wait
  BY <1>12 DEF Wait, IInv, Types, Objs, OK
<1>13. CASE Pause
  BY <1>13 DEF Pause, IInv, Types, Objs, OK
<1>14. CASE Signal
  BY <1>14 DEF Signal, IInv, Types, Objs
<1>15. CASE osd_terminal_disconnect
  BY <1>15 DEF osd_terminal_disconnect, IInv, Types, Objs, OK, Failed, Set
<1>16. CASE osd_terminal_free
  BY <1>16 DEF osd_terminal_free, IInv, Types, Objs, OK, Dies, Set, FreeHostmod
<1>17. CASE CloseFiles
  BY <1>17 DEF CloseFiles, IInv, Types, Objs, OK
<1>18. CASE FreeGateway
  BY <1>18 DEF FreeGateway, IInv, Types, Objs, OK, Dies, Set
<1>19. CASE FreeHostctrl
  BY <1>19 DEF FreeHostctrl, IInv, Types, Objs, OK, Dies, FailsAndDies, Set
<1>20. CASE HostControllerStarts
  BY <1>20 DEF HostControllerStarts, IInv, Types, Objs, OK, Failed,
     FailsAndDies, Set
<1>21. CASE HostControllerStops
  BY <1>21 DEF HostControllerStops, IInv, Types, Objs, OK, FailsAndDies, Set
<1>22. CASE DeviceGatewayStarts
  BY <1>22 DEF DeviceGatewayStarts, IInv, Types, Objs, OK, Failed,
     FailsAndDies, Set
<1>23. CASE DeviceGatewayStops
  BY <1>23 DEF DeviceGatewayStops, IInv, Types, Objs, OK, Set
<1> QED BY <1>1, <1>2, <1>3, <1>4, <1>5, <1>6, <1>7, <1>8, <1>9, <1>10, <1>11,
   <1>12, <1>13, <1>14, <1>15, <1>16, <1>17, <1>18, <1>19, <1>20, <1>21, <1>22,
   <1>23 DEF ControlStep

LEMMA LoggerObjs ==
    ASSUME IInv, NEW l \in Loggers, LoggerStep(l)
    PROVE  obj' \in Objs
<1>1. CASE SkipLogger(l)
  BY <1>1 DEF SkipLogger, IInv, Types, Objs, OK, After
<1>2. CASE ConnectLogger(l)
  BY <1>2 DEF ConnectLogger, IInv, Types, Objs, OK, Failed, Set
<1>3. CASE OpenFiles(l)
  BY <1>3 DEF OpenFiles, IInv, Types, Objs, OK, Failed
<1>4. CASE StartLogger(l)
  BY <1>4 DEF StartLogger, IInv, Types, Objs, OK, Failed, After
<1>5. CASE UndoLogger(l)
  BY <1>5 DEF UndoLogger, IInv, Types, Objs, OK, FailsAndDies, Set
<1>6. CASE StopLogger(l)
  BY <1>6 DEF StopLogger, IInv, Types, Objs, OK, Failed, Stopped
<1>7. CASE DisconnectLogger(l)
  BY <1>7 DEF DisconnectLogger, IInv, Types, Objs, OK, Failed, Set
<1>8. CASE FreeLogger(l)
  BY <1>8 DEF FreeLogger, IInv, Types, Objs, OK, Dies, Set, FreeHostmod,
     Stopped
<1> QED BY <1>1, <1>2, <1>3, <1>4, <1>5, <1>6, <1>7, <1>8 DEF LoggerStep

LEMMA ControlRegs ==
    ASSUME IInv, ControlStep
    PROVE  module' \in Regs
<1>1. CASE run_hostctrl
  BY <1>1 DEF run_hostctrl, IInv, Types, Regs, Hosts, Quiet
<1>2. CASE run_gateway_glip
  BY <1>2 DEF run_gateway_glip, IInv, Types, Regs, Hosts, Quiet
<1>3. CASE osd_memaccess_connect
  BY <1>3 DEF osd_memaccess_connect, IInv, Types, Regs, Hosts, Quiet
<1>4. CASE osd_memaccess_cpus_stop
  BY <1>4 DEF osd_memaccess_cpus_stop, IInv, Types, Regs, Hosts
<1>5. CASE run_tracing
  BY <1>5 DEF run_tracing, IInv, Types, Regs, Hosts, Quiet
<1>6. CASE TracingDone
  BY <1>6 DEF TracingDone, IInv, Types, Regs, Hosts, Quiet
<1>7. CASE run_terminal
  <2>1. \/ module' = module
        \/ module' = [module EXCEPT !["term"] = [active |-> TRUE, dest |-> TRUE]]
    BY <1>7 DEF run_terminal
  <2> QED BY <2>1, RegFacts DEF IInv, Types, Hosts
<1>8. CASE osd_memaccess_find_memories_all
  BY <1>8 DEF osd_memaccess_find_memories_all, IInv, Types, Regs, Hosts, Quiet
<1>9. CASE LoadMemories
  BY <1>9 DEF LoadMemories, IInv, Types, Regs, Hosts, Quiet
<1>10. CASE osd_memaccess_cpus_start
  BY <1>10 DEF osd_memaccess_cpus_start, IInv, Types, Regs, Hosts
<1>11. CASE osd_memaccess_free
  BY <1>11 DEF osd_memaccess_free, IInv, Types, Regs, Hosts, Quiet
<1>12. CASE Wait
  BY <1>12 DEF Wait, IInv, Types, Regs, Hosts, Quiet
<1>13. CASE Pause
  BY <1>13 DEF Pause, IInv, Types, Regs, Hosts, Quiet
<1>14. CASE Signal
  BY <1>14 DEF Signal, IInv, Types, Regs, Hosts, Quiet
<1>15. CASE osd_terminal_disconnect
  BY <1>15 DEF osd_terminal_disconnect, IInv, Types, Regs, Hosts, Quiet
<1>16. CASE osd_terminal_free
  BY <1>16 DEF osd_terminal_free, IInv, Types, Regs, Hosts, Quiet, FreeHostmod
<1>17. CASE CloseFiles
  BY <1>17 DEF CloseFiles, IInv, Types, Regs, Hosts
<1>18. CASE FreeGateway
  BY <1>18 DEF FreeGateway, IInv, Types, Regs, Hosts, Quiet
<1>19. CASE FreeHostctrl
  BY <1>19 DEF FreeHostctrl, IInv, Types, Regs, Hosts, Quiet
<1>20. CASE HostControllerStarts
  BY <1>20 DEF HostControllerStarts, IInv, Types, Regs, Hosts, Quiet
<1>21. CASE HostControllerStops
  BY <1>21 DEF HostControllerStops, IInv, Types, Regs, Hosts, Quiet
<1>22. CASE DeviceGatewayStarts
  BY <1>22 DEF DeviceGatewayStarts, IInv, Types, Regs, Hosts, Quiet
<1>23. CASE DeviceGatewayStops
  BY <1>23 DEF DeviceGatewayStops, IInv, Types, Regs, Hosts, Quiet
<1> QED BY <1>1, <1>2, <1>3, <1>4, <1>5, <1>6, <1>7, <1>8, <1>9, <1>10, <1>11,
   <1>12, <1>13, <1>14, <1>15, <1>16, <1>17, <1>18, <1>19, <1>20, <1>21, <1>22,
   <1>23 DEF ControlStep

LEMMA LoggerRegs ==
    ASSUME IInv, NEW l \in Loggers, LoggerStep(l)
    PROVE  module' \in Regs
<1>1. CASE SkipLogger(l)
  BY <1>1 DEF SkipLogger, IInv, Types, Regs, Hosts, Quiet, Loggers, After
<1>2. CASE ConnectLogger(l)
  BY <1>2 DEF ConnectLogger, IInv, Types, Regs, Hosts, Quiet, Loggers
<1>3. CASE OpenFiles(l)
  BY <1>3 DEF OpenFiles, IInv, Types, Regs, Hosts, Loggers
<1>4. CASE StartLogger(l)
  <2>1. \E active, dest \in BOOLEAN :
          module' = [module EXCEPT ![l] = [active |-> active, dest |-> dest]]
    BY <1>4 DEF StartLogger
  <2>2. module \in Regs /\ l \in Hosts
    BY DEF IInv, Types, Hosts, Loggers
  <2>3. PICK active \in BOOLEAN, dest \in BOOLEAN :
          module' = [module EXCEPT ![l] = [active |-> active, dest |-> dest]]
    BY <2>1
  <2> QED BY ONLY <2>2, <2>3, RegFacts
<1>5. CASE UndoLogger(l)
  BY <1>5 DEF UndoLogger, IInv, Types, Regs, Hosts, Quiet, Loggers
<1>6. CASE StopLogger(l)
  <2>1. module' = module \/ module' = [module EXCEPT ![l].active = FALSE]
    BY <1>6 DEF StopLogger
  <2>2. module \in Regs /\ l \in Hosts
    BY DEF IInv, Types, Hosts, Loggers
  <2> QED BY ONLY <2>1, <2>2, RegFacts
<1>7. CASE DisconnectLogger(l)
  BY <1>7 DEF DisconnectLogger, IInv, Types, Regs, Hosts, Quiet, Loggers
<1>8. CASE FreeLogger(l)
  BY <1>8 DEF FreeLogger, IInv, Types, Regs, Hosts, Loggers, FreeHostmod,
     Stopped
<1> QED BY <1>1, <1>2, <1>3, <1>4, <1>5, <1>6, <1>7, <1>8 DEF LoggerStep

Effects ==
    /\ files' \in [Loggers -> {"none", "open", "closed"}]
    /\ cpus' \in {"free", "stopped", "started"} /\ tx' \in {"none", "poll", "send", "ended"}
    /\ prints' = prints /\ sysprint_buf' \in Chars /\ printlog' \in Chars

LEMMA ControlEffects ==
    ASSUME IInv, ControlStep
    PROVE  Effects
<1>1. CASE run_hostctrl
  BY <1>1 DEF run_hostctrl, IInv, Types, Effects, Quiet, logVars
<1>2. CASE run_gateway_glip
  BY <1>2 DEF run_gateway_glip, IInv, Types, Effects, Quiet, logVars
<1>3. CASE osd_memaccess_connect
  BY <1>3 DEF osd_memaccess_connect, IInv, Types, Effects, Quiet, logVars
<1>4. CASE osd_memaccess_cpus_stop
  BY <1>4 DEF osd_memaccess_cpus_stop, IInv, Types, Effects, logVars
<1>5. CASE run_tracing
  BY <1>5 DEF run_tracing, IInv, Types, Effects, Quiet, logVars
<1>6. CASE TracingDone
  BY <1>6 DEF TracingDone, IInv, Types, Effects, Quiet, logVars
<1>7. CASE run_terminal
  BY <1>7 DEF run_terminal, IInv, Types, Effects, logVars
<1>8. CASE osd_memaccess_find_memories_all
  BY <1>8 DEF osd_memaccess_find_memories_all, IInv, Types, Effects, Quiet,
     logVars
<1>9. CASE LoadMemories
  BY <1>9 DEF LoadMemories, IInv, Types, Effects, Quiet, logVars
<1>10. CASE osd_memaccess_cpus_start
  BY <1>10 DEF osd_memaccess_cpus_start, IInv, Types, Effects, logVars
<1>11. CASE osd_memaccess_free
  BY <1>11 DEF osd_memaccess_free, IInv, Types, Effects, Quiet, logVars
<1>12. CASE Wait
  BY <1>12 DEF Wait, IInv, Types, Effects, Quiet, logVars
<1>13. CASE Pause
  BY <1>13 DEF Pause, IInv, Types, Effects, Quiet, logVars
<1>14. CASE Signal
  BY <1>14 DEF Signal, IInv, Types, Effects, Quiet, logVars
<1>15. CASE osd_terminal_disconnect
  BY <1>15 DEF osd_terminal_disconnect, IInv, Types, Effects, Quiet, logVars
<1>16. CASE osd_terminal_free
  BY <1>16 DEF osd_terminal_free, IInv, Types, Effects, Quiet, logVars,
     FreeHostmod
<1>17. CASE CloseFiles
  BY <1>17 DEF CloseFiles, IInv, Types, Effects, logVars
<1>18. CASE FreeGateway
  BY <1>18 DEF FreeGateway, IInv, Types, Effects, Quiet, logVars
<1>19. CASE FreeHostctrl
  BY <1>19 DEF FreeHostctrl, IInv, Types, Effects, Quiet, logVars
<1>20. CASE HostControllerStarts
  BY <1>20 DEF HostControllerStarts, IInv, Types, Effects, Quiet, logVars
<1>21. CASE HostControllerStops
  BY <1>21 DEF HostControllerStops, IInv, Types, Effects, Quiet, logVars
<1>22. CASE DeviceGatewayStarts
  BY <1>22 DEF DeviceGatewayStarts, IInv, Types, Effects, Quiet, logVars
<1>23. CASE DeviceGatewayStops
  BY <1>23 DEF DeviceGatewayStops, IInv, Types, Effects, Quiet, logVars
<1> QED BY <1>1, <1>2, <1>3, <1>4, <1>5, <1>6, <1>7, <1>8, <1>9, <1>10, <1>11,
   <1>12, <1>13, <1>14, <1>15, <1>16, <1>17, <1>18, <1>19, <1>20, <1>21, <1>22,
   <1>23 DEF ControlStep

LEMMA LoggerEffects ==
    ASSUME IInv, NEW l \in Loggers, LoggerStep(l)
    PROVE  Effects
<1>1. CASE SkipLogger(l)
  BY <1>1 DEF SkipLogger, IInv, Types, Effects, Quiet, logVars, After
<1>2. CASE ConnectLogger(l)
  BY <1>2 DEF ConnectLogger, IInv, Types, Effects, Quiet, logVars
<1>3. CASE OpenFiles(l)
  BY <1>3 DEF OpenFiles, IInv, Types, Effects, logVars
<1>4. CASE StartLogger(l)
  BY <1>4 DEF StartLogger, IInv, Types, Effects, logVars, After
<1>5. CASE UndoLogger(l)
  BY <1>5 DEF UndoLogger, IInv, Types, Effects, Quiet, logVars
<1>6. CASE StopLogger(l)
  BY <1>6 DEF StopLogger, IInv, Types, Effects, logVars, Stopped
<1>7. CASE DisconnectLogger(l)
  BY <1>7 DEF DisconnectLogger, IInv, Types, Effects, Quiet, logVars
<1>8. CASE FreeLogger(l)
  <2>1. Chars = Seq(1 .. MaxEvents)
    BY DEF Chars
  <2>2. printlog \o sysprint_buf \in Chars /\ <<>> \in Chars
    BY <2>1 DEF IInv, Types
  <2> QED BY <1>8, <2>2 DEF FreeLogger, IInv, Types, Effects
<1> QED BY <1>1, <1>2, <1>3, <1>4, <1>5, <1>6, <1>7, <1>8 DEF LoggerStep

LEMMA StepTypes ==
    ASSUME IInv, Counted, obj' \in Objs, module' \in Regs, Effects
    PROVE  Types'
<1>1. Types
  BY DEF IInv
<1>2. toolFails' \in 0 .. MaxToolFails
  <2>1. toolFails' = toolFails \/ (toolFails < MaxToolFails /\ toolFails' = toolFails + 1)
    BY DEF Counted
  <2>2. toolFails \in 0 .. MaxToolFails /\ MaxToolFails \in Nat
    BY <1>1, TargetRunAssumption DEF Types
  <2> QED BY ONLY <2>1, <2>2
<1>3. tool' = tool /\ opts' = opts /\ events' = events
  BY DEF Counted
<1>4. prints' = prints
  BY DEF Effects
<1> QED BY <1>1, <1>2, <1>3, <1>4 DEF Types, Effects
-----------------------------------------------------------------------------
(* Where a step leads.                                                     *)

LEMMA ControlPc ==
    ASSUME IInv, ControlStep
    PROVE  PcInv'
<1>1. CASE run_hostctrl
  BY <1>1 DEF run_hostctrl, IInv, PcInv, OK, Failed, At, Quiet, envVars,
     TargetPc, OtherPc, Early, CtSetup, StSetup, Program, Waiting, Taking,
     CtTaking, Closing
<1>2. CASE run_gateway_glip
  BY <1>2 DEF run_gateway_glip, IInv, PcInv, OK, Failed, At, Quiet, envVars,
     TargetPc, OtherPc, Early, CtSetup, StSetup, Program, Waiting, Taking,
     CtTaking, Closing
<1>3. CASE osd_memaccess_connect
  BY <1>3 DEF osd_memaccess_connect, IInv, PcInv, OK, Failed, At, Quiet,
     envVars, TargetPc, OtherPc, Early, CtSetup, StSetup, Program, Waiting,
     Taking, CtTaking, Closing
<1>4. CASE osd_memaccess_cpus_stop
  BY <1>4 DEF osd_memaccess_cpus_stop, IInv, PcInv, OK, Failed, At, envVars,
     TargetPc, OtherPc, Early, CtSetup, StSetup, Program, Waiting, Taking,
     CtTaking, Closing
<1>5. CASE run_tracing
  BY <1>5 DEF run_tracing, IInv, PcInv, OK, Failed, FailsAndDies, At, Quiet,
     envVars, TargetPc, OtherPc, Early, CtSetup, StSetup, Program, Waiting,
     Taking, CtTaking, Closing
<1>6. CASE TracingDone
  BY <1>6 DEF TracingDone, IInv, PcInv, OK, Failed, At, Quiet, envVars,
     TargetPc, OtherPc, Early, CtSetup, StSetup, Program, Waiting, Taking,
     CtTaking, Closing
<1>7. CASE run_terminal
  BY <1>7 DEF run_terminal, IInv, PcInv, OK, Failed, FailsAndDies, At, envVars,
     TargetPc, OtherPc, Early, CtSetup, StSetup, Program, Waiting, Taking,
     CtTaking, Closing
<1>8. CASE osd_memaccess_find_memories_all
  BY <1>8 DEF osd_memaccess_find_memories_all, IInv, PcInv, OK, Failed, At,
     Quiet, envVars, TargetPc, OtherPc, Early, CtSetup, StSetup, Program,
     Waiting, Taking, CtTaking, Closing
<1>9. CASE LoadMemories
  BY <1>9 DEF LoadMemories, IInv, PcInv, OK, Failed, At, Quiet, envVars,
     TargetPc, OtherPc, Early, CtSetup, StSetup, Program, Waiting, Taking,
     CtTaking, Closing
<1>10. CASE osd_memaccess_cpus_start
  BY <1>10 DEF osd_memaccess_cpus_start, IInv, PcInv, OK, Failed, At, envVars,
     TargetPc, OtherPc, Early, CtSetup, StSetup, Program, Waiting, Taking,
     CtTaking, Closing
<1>11. CASE osd_memaccess_free
  BY <1>11 DEF osd_memaccess_free, IInv, PcInv, OK, FailsAndDies, At, Quiet,
     envVars, TargetPc, OtherPc, Early, CtSetup, StSetup, Program, Waiting,
     Taking, CtTaking, Closing
<1>12. CASE Wait
  <2>1. pc' = "to_pause" \/ pc' = AfterWait
    BY <1>12 DEF Wait, OK
  <2>2. pc = "wait" /\ cpus' = cpus /\ tool' = tool /\ PcInv
    BY <1>12 DEF Wait, OK, At, Quiet, envVars, IInv
  <2>3. \/ tool = "target-run" /\ AfterWait = "cleanup"
        \/ tool # "target-run" /\ AfterWait \in {"hc_stop", "dg_disconnect"}
    BY AfterWaitValue DEF IInv, Types
  <2> QED BY ONLY <2>1, <2>2, <2>3 DEF PcInv, TargetPc, OtherPc, Waiting, Taking
<1>13. CASE Pause
  BY <1>13 DEF Pause, IInv, PcInv, OK, At, Quiet, envVars, TargetPc, OtherPc,
     Early, CtSetup, StSetup, Program, Waiting, Taking, CtTaking, Closing
<1>14. CASE Signal
  BY <1>14 DEF Signal, IInv, PcInv, Quiet, envVars, TargetPc, OtherPc, Early,
     CtSetup, StSetup, Program, Waiting, Taking, CtTaking, Closing
<1>15. CASE osd_terminal_disconnect
  BY <1>15 DEF osd_terminal_disconnect, IInv, PcInv, OK, Failed, At, Quiet,
     envVars, TargetPc, OtherPc, Early, CtSetup, StSetup, Program, Waiting,
     Taking, CtTaking, Closing
<1>16. CASE osd_terminal_free
  BY <1>16 DEF osd_terminal_free, IInv, PcInv, OK, Dies, At, Quiet, envVars,
     TargetPc, OtherPc, Early, CtSetup, StSetup, Program, Waiting, Taking,
     CtTaking, Closing, FreeHostmod
<1>17. CASE CloseFiles
  BY <1>17 DEF CloseFiles, IInv, PcInv, OK, At, envVars, TargetPc, OtherPc,
     Early, CtSetup, StSetup, Program, Waiting, Taking, CtTaking, Closing
<1>18. CASE FreeGateway
  BY <1>18 DEF FreeGateway, IInv, PcInv, OK, Dies, At, Quiet, envVars,
     TargetPc, OtherPc, Early, CtSetup, StSetup, Program, Waiting, Taking,
     CtTaking, Closing
<1>19. CASE FreeHostctrl
  BY <1>19 DEF FreeHostctrl, IInv, PcInv, OK, Dies, FailsAndDies, At, Quiet,
     envVars, TargetPc, OtherPc, Early, CtSetup, StSetup, Program, Waiting,
     Taking, CtTaking, Closing
<1>20. CASE HostControllerStarts
  BY <1>20 DEF HostControllerStarts, IInv, PcInv, OK, Failed, FailsAndDies, At,
     Quiet, envVars, TargetPc, OtherPc, Early, CtSetup, StSetup, Program,
     Waiting, Taking, CtTaking, Closing
<1>21. CASE HostControllerStops
  BY <1>21 DEF HostControllerStops, IInv, PcInv, OK, FailsAndDies, At, Quiet,
     envVars, TargetPc, OtherPc, Early, CtSetup, StSetup, Program, Waiting,
     Taking, CtTaking, Closing
<1>22. CASE DeviceGatewayStarts
  BY <1>22 DEF DeviceGatewayStarts, IInv, PcInv, OK, Failed, FailsAndDies, At,
     Quiet, envVars, TargetPc, OtherPc, Early, CtSetup, StSetup, Program,
     Waiting, Taking, CtTaking, Closing
<1>23. CASE DeviceGatewayStops
  BY <1>23 DEF DeviceGatewayStops, IInv, PcInv, OK, At, Quiet, envVars,
     TargetPc, OtherPc, Early, CtSetup, StSetup, Program, Waiting, Taking,
     CtTaking, Closing
<1> QED BY <1>1, <1>2, <1>3, <1>4, <1>5, <1>6, <1>7, <1>8, <1>9, <1>10, <1>11,
   <1>12, <1>13, <1>14, <1>15, <1>16, <1>17, <1>18, <1>19, <1>20, <1>21, <1>22,
   <1>23 DEF ControlStep

LEMMA LoggerPc ==
    ASSUME IInv, NEW l \in Loggers, LoggerStep(l)
    PROVE  PcInv'
<1>1. CASE SkipLogger(l)
  BY <1>1, PcValues DEF SkipLogger, IInv, PcInv, OK, At, Quiet, envVars,
     TargetPc, OtherPc, Early, CtSetup, StSetup, Program, Waiting, Taking,
     CtTaking, Closing, Loggers, After
<1>2. CASE ConnectLogger(l)
  BY <1>2, PcValues DEF ConnectLogger, IInv, PcInv, OK, Failed, At, Quiet,
     envVars, TargetPc, OtherPc, Early, CtSetup, StSetup, Program, Waiting,
     Taking, CtTaking, Closing, Loggers
<1>3. CASE OpenFiles(l)
  BY <1>3, PcValues DEF OpenFiles, IInv, PcInv, OK, Failed, At, envVars,
     TargetPc, OtherPc, Early, CtSetup, StSetup, Program, Waiting, Taking,
     CtTaking, Closing, Loggers
<1>4. CASE StartLogger(l)
  BY <1>4, PcValues DEF StartLogger, IInv, PcInv, OK, Failed, At, envVars,
     TargetPc, OtherPc, Early, CtSetup, StSetup, Program, Waiting, Taking,
     CtTaking, Closing, Loggers, After
<1>5. CASE UndoLogger(l)
  BY <1>5, PcValues DEF UndoLogger, IInv, PcInv, OK, FailsAndDies, At, Quiet,
     envVars, TargetPc, OtherPc, Early, CtSetup, StSetup, Program, Waiting,
     Taking, CtTaking, Closing, Loggers
<1>6. CASE StopLogger(l)
  BY <1>6, PcValues DEF StopLogger, IInv, PcInv, OK, Failed, At, envVars,
     TargetPc, OtherPc, Early, CtSetup, StSetup, Program, Waiting, Taking,
     CtTaking, Closing, Loggers, Stopped
<1>7. CASE DisconnectLogger(l)
  BY <1>7, PcValues DEF DisconnectLogger, IInv, PcInv, OK, Failed, At, Quiet,
     envVars, TargetPc, OtherPc, Early, CtSetup, StSetup, Program, Waiting,
     Taking, CtTaking, Closing, Loggers
<1>8. CASE FreeLogger(l)
  BY <1>8, PcValues DEF FreeLogger, IInv, PcInv, OK, Dies, At, envVars,
     TargetPc, OtherPc, Early, CtSetup, StSetup, Program, Waiting, Taking,
     CtTaking, Closing, Loggers, FreeHostmod, Stopped
<1> QED BY <1>1, <1>2, <1>3, <1>4, <1>5, <1>6, <1>7, <1>8 DEF LoggerStep

(* The loggers and their files are left alone, and the main thread does    *)
(* not come to a place where they should be in another state.              *)
Kept(l) == obj'[l] = obj[l] /\ module'[l] = module[l] /\ files'[l] = files[l]

Stays(l) ==
    /\ pc' \in Before(l) => pc \in Before(l)
    /\ pc' \in Setup(l) \cup TakenDown(l) => pc' = pc
    /\ tool = "target-run" /\ pc' \in Past(l) => pc \in Past(l) \/ obj[l] # "on"
    /\ tool = "target-run" /\ pc' \in While(l) => pc \in While(l) \/ Option(l) \notin opts

LEMMA LoggerStays ==
    ASSUME NEW l \in Loggers, LoggerInv(l), Kept(l), Stays(l), Counted
    PROVE  LoggerInv(l)'
<1>1. /\ tool' = tool /\ opts' = opts /\ \A c : c \in cause => c \in cause'
  BY DEF Counted
<1>2. module[l].active => \/ cause' \cap {"logger_start", "logger_stop"} # {}
                          \/ obj[l] = "on" /\ pc \notin TakenDown(l)
  BY <1>1 DEF LoggerInv
<1>3. pc' = Pc[l].free /\ obj[l] = "on" => "logger_disconnect" \in cause'
  BY <1>1 DEF LoggerInv, Stays, TakenDown
<1>4. pc' = Pc[l].start => files[l] = "open"
  BY DEF LoggerInv, Stays, Setup
<1> QED BY <1>1, <1>2, <1>3, <1>4 DEF LoggerInv, Kept, Stays

LEMMA ControlStays ==
    ASSUME IInv, NEW l \in Loggers, ControlStep
    PROVE  CloseFiles \/ (Kept(l) /\ Stays(l))
<1>1. CASE run_hostctrl
  BY <1>1, PcValues DEF run_hostctrl, IInv, PcInv, Types, Objs, Regs, Objects,
     Hosts, Loggers, Kept, Stays, Before, Setup, While, Past, TakenDown, Early,
     CtSetup, StSetup, Program, Waiting, Taking, CtTaking, Closing, OtherPc,
     OK, Failed, Quiet, Set, envVars, At
<1>2. CASE run_gateway_glip
  BY <1>2, PcValues DEF run_gateway_glip, IInv, PcInv, Types, Objs, Regs,
     Objects, Hosts, Loggers, Kept, Stays, Before, Setup, While, Past,
     TakenDown, Early, CtSetup, StSetup, Program, Waiting, Taking, CtTaking,
     Closing, OtherPc, OK, Failed, Quiet, Set, envVars, At
<1>3. CASE osd_memaccess_connect
  BY <1>3, PcValues DEF osd_memaccess_connect, IInv, PcInv, Types, Objs, Regs,
     Objects, Hosts, Loggers, Kept, Stays, Before, Setup, While, Past,
     TakenDown, Early, CtSetup, StSetup, Program, Waiting, Taking, CtTaking,
     Closing, OtherPc, OK, Failed, Quiet, Set, envVars, At
<1>4. CASE osd_memaccess_cpus_stop
  BY <1>4, PcValues DEF osd_memaccess_cpus_stop, IInv, PcInv, Types, Objs,
     Regs, Objects, Hosts, Loggers, Kept, Stays, Before, Setup, While, Past,
     TakenDown, Early, CtSetup, StSetup, Program, Waiting, Taking, CtTaking,
     Closing, OtherPc, OK, Failed, envVars, At
<1>5. CASE run_tracing
  BY <1>5, PcValues DEF run_tracing, IInv, PcInv, Types, Objs, Regs, Objects,
     Hosts, Loggers, Kept, Stays, Before, Setup, While, Past, TakenDown, Early,
     CtSetup, StSetup, Program, Waiting, Taking, CtTaking, Closing, OtherPc,
     OK, Failed, FailsAndDies, Quiet, Set, envVars, At
<1>6. CASE TracingDone
  BY <1>6, PcValues DEF TracingDone, IInv, PcInv, Types, Objs, Regs, Objects,
     Hosts, Loggers, Kept, Stays, Before, Setup, While, Past, TakenDown, Early,
     CtSetup, StSetup, Program, Waiting, Taking, CtTaking, Closing, OtherPc,
     OK, Failed, Quiet, Set, envVars, At
<1>7. CASE run_terminal
  BY <1>7, PcValues DEF run_terminal, IInv, PcInv, Types, Objs, Regs, Objects,
     Hosts, Loggers, Kept, Stays, Before, Setup, While, Past, TakenDown, Early,
     CtSetup, StSetup, Program, Waiting, Taking, CtTaking, Closing, OtherPc,
     OK, Failed, FailsAndDies, Set, envVars, At
<1>8. CASE osd_memaccess_find_memories_all
  BY <1>8, PcValues DEF osd_memaccess_find_memories_all, IInv, PcInv, Types,
     Objs, Regs, Objects, Hosts, Loggers, Kept, Stays, Before, Setup, While,
     Past, TakenDown, Early, CtSetup, StSetup, Program, Waiting, Taking,
     CtTaking, Closing, OtherPc, OK, Failed, Quiet, envVars, At
<1>9. CASE LoadMemories
  BY <1>9, PcValues DEF LoadMemories, IInv, PcInv, Types, Objs, Regs, Objects,
     Hosts, Loggers, Kept, Stays, Before, Setup, While, Past, TakenDown, Early,
     CtSetup, StSetup, Program, Waiting, Taking, CtTaking, Closing, OtherPc,
     OK, Failed, Quiet, envVars, At
<1>10. CASE osd_memaccess_cpus_start
  BY <1>10, PcValues DEF osd_memaccess_cpus_start, IInv, PcInv, Types, Objs,
     Regs, Objects, Hosts, Loggers, Kept, Stays, Before, Setup, While, Past,
     TakenDown, Early, CtSetup, StSetup, Program, Waiting, Taking, CtTaking,
     Closing, OtherPc, OK, Failed, envVars, At
<1>11. CASE osd_memaccess_free
  BY <1>11, PcValues DEF osd_memaccess_free, IInv, PcInv, Types, Objs, Regs,
     Objects, Hosts, Loggers, Kept, Stays, Before, Setup, While, Past,
     TakenDown, Early, CtSetup, StSetup, Program, Waiting, Taking, CtTaking,
     Closing, OtherPc, OK, FailsAndDies, Quiet, Set, envVars, At
<1>12. CASE Wait
  <2>1. pc' = "to_pause" \/ pc' = AfterWait
    BY <1>12 DEF Wait, OK
  <2>2. pc = "wait" /\ obj' = obj /\ module' = module /\ files' = files
    BY <1>12 DEF Wait, OK, At, Quiet
  <2>3. \/ tool = "target-run" /\ AfterWait = "cleanup"
        \/ tool # "target-run" /\ AfterWait \in {"hc_stop", "dg_disconnect"}
    BY AfterWaitValue DEF IInv, Types
  <2> QED BY ONLY <2>1, <2>2, <2>3, l \in Loggers, PcValues
           DEF Loggers, Kept, Stays, Before, Setup, While, Past, TakenDown, Early,
               CtSetup, StSetup, Program, Waiting, CtTaking, Closing
<1>13. CASE Pause
  BY <1>13, PcValues DEF Pause, IInv, PcInv, Types, Objs, Regs, Objects, Hosts,
     Loggers, Kept, Stays, Before, Setup, While, Past, TakenDown, Early,
     CtSetup, StSetup, Program, Waiting, Taking, CtTaking, Closing, OtherPc,
     OK, Quiet, envVars, At
<1>14. CASE Signal
  BY <1>14, PcValues DEF Signal, IInv, PcInv, Types, Objs, Regs, Objects,
     Hosts, Loggers, Kept, Stays, Before, Setup, While, Past, TakenDown, Early,
     CtSetup, StSetup, Program, Waiting, Taking, CtTaking, Closing, OtherPc,
     Quiet, envVars
<1>15. CASE osd_terminal_disconnect
  BY <1>15, PcValues DEF osd_terminal_disconnect, IInv, PcInv, Types, Objs,
     Regs, Objects, Hosts, Loggers, Kept, Stays, Before, Setup, While, Past,
     TakenDown, Early, CtSetup, StSetup, Program, Waiting, Taking, CtTaking,
     Closing, OtherPc, OK, Failed, Quiet, Set, envVars, At
<1>16. CASE osd_terminal_free
  BY <1>16, PcValues DEF osd_terminal_free, IInv, PcInv, Types, Objs, Regs,
     Objects, Hosts, Loggers, Kept, Stays, Before, Setup, While, Past,
     TakenDown, Early, CtSetup, StSetup, Program, Waiting, Taking, CtTaking,
     Closing, OtherPc, OK, Dies, Quiet, Set, envVars, At, FreeHostmod
<1>17. CASE FreeGateway
  BY <1>17, PcValues DEF FreeGateway, IInv, PcInv, Types, Objs, Regs, Objects,
     Hosts, Loggers, Kept, Stays, Before, Setup, While, Past, TakenDown, Early,
     CtSetup, StSetup, Program, Waiting, Taking, CtTaking, Closing, OtherPc,
     OK, Dies, Quiet, Set, envVars, At
<1>18. CASE FreeHostctrl
  BY <1>18, PcValues DEF FreeHostctrl, IInv, PcInv, Types, Objs, Regs, Objects,
     Hosts, Loggers, Kept, Stays, Before, Setup, While, Past, TakenDown, Early,
     CtSetup, StSetup, Program, Waiting, Taking, CtTaking, Closing, OtherPc,
     OK, Dies, FailsAndDies, Quiet, Set, envVars, At
<1>19. CASE HostControllerStarts
  BY <1>19, PcValues DEF HostControllerStarts, IInv, PcInv, Types, Objs, Regs,
     Objects, Hosts, Loggers, Kept, Stays, Before, Setup, While, Past,
     TakenDown, Early, CtSetup, StSetup, Program, Waiting, Taking, CtTaking,
     Closing, OtherPc, OK, Failed, FailsAndDies, Quiet, Set, envVars, At,
     TargetPc
<1>20. CASE HostControllerStops
  BY <1>20, PcValues DEF HostControllerStops, IInv, PcInv, Types, Objs, Regs,
     Objects, Hosts, Loggers, Kept, Stays, Before, Setup, While, Past,
     TakenDown, Early, CtSetup, StSetup, Program, Waiting, Taking, CtTaking,
     Closing, OtherPc, OK, FailsAndDies, Quiet, Set, envVars, At, TargetPc
<1>21. CASE DeviceGatewayStarts
  BY <1>21, PcValues DEF DeviceGatewayStarts, IInv, PcInv, Types, Objs, Regs,
     Objects, Hosts, Loggers, Kept, Stays, Before, Setup, While, Past,
     TakenDown, Early, CtSetup, StSetup, Program, Waiting, Taking, CtTaking,
     Closing, OtherPc, OK, Failed, FailsAndDies, Quiet, Set, envVars, At,
     TargetPc
<1>22. CASE DeviceGatewayStops
  BY <1>22, PcValues DEF DeviceGatewayStops, IInv, PcInv, Types, Objs, Regs,
     Objects, Hosts, Loggers, Kept, Stays, Before, Setup, While, Past,
     TakenDown, Early, CtSetup, StSetup, Program, Waiting, Taking, CtTaking,
     Closing, OtherPc, OK, Quiet, Set, envVars, At, TargetPc
<1> QED BY <1>1, <1>2, <1>3, <1>4, <1>5, <1>6, <1>7, <1>8, <1>9, <1>10, <1>11,
   <1>12, <1>13, <1>14, <1>15, <1>16, <1>17, <1>18, <1>19, <1>20, <1>21, <1>22 DEF ControlStep

LEMMA OtherLogger ==
    ASSUME IInv, NEW l \in Loggers, NEW k \in Loggers \ {l}, LoggerStep(l)
    PROVE  Kept(k) /\ Stays(k)
<1>1. CASE SkipLogger(l)
  BY <1>1, PcValues DEF SkipLogger, IInv, PcInv, Types, Objs, Regs, Objects,
     Hosts, Loggers, Kept, Stays, Before, Setup, While, Past, TakenDown, Early,
     CtSetup, StSetup, Program, Waiting, Taking, CtTaking, Closing, OtherPc,
     OK, Quiet, envVars, At, After
<1>2. CASE ConnectLogger(l)
  BY <1>2, PcValues DEF ConnectLogger, IInv, PcInv, Types, Objs, Regs, Objects,
     Hosts, Loggers, Kept, Stays, Before, Setup, While, Past, TakenDown, Early,
     CtSetup, StSetup, Program, Waiting, Taking, CtTaking, Closing, OtherPc,
     OK, Failed, Quiet, Set, envVars, At
<1>3. CASE OpenFiles(l)
  BY <1>3, PcValues DEF OpenFiles, IInv, PcInv, Types, Objs, Regs, Objects,
     Hosts, Loggers, Kept, Stays, Before, Setup, While, Past, TakenDown, Early,
     CtSetup, StSetup, Program, Waiting, Taking, CtTaking, Closing, OtherPc,
     OK, Failed, envVars, At
<1>4. CASE StartLogger(l)
  BY <1>4, PcValues DEF StartLogger, IInv, PcInv, Types, Objs, Regs, Objects,
     Hosts, Loggers, Kept, Stays, Before, Setup, While, Past, TakenDown, Early,
     CtSetup, StSetup, Program, Waiting, Taking, CtTaking, Closing, OtherPc,
     OK, Failed, envVars, At, After
<1>5. CASE UndoLogger(l)
  BY <1>5, PcValues DEF UndoLogger, IInv, PcInv, Types, Objs, Regs, Objects,
     Hosts, Loggers, Kept, Stays, Before, Setup, While, Past, TakenDown, Early,
     CtSetup, StSetup, Program, Waiting, Taking, CtTaking, Closing, OtherPc,
     OK, FailsAndDies, Quiet, Set, envVars, At
<1>6. CASE StopLogger(l)
  BY <1>6, PcValues DEF StopLogger, IInv, PcInv, Types, Objs, Regs, Objects,
     Hosts, Loggers, Kept, Stays, Before, Setup, While, Past, TakenDown, Early,
     CtSetup, StSetup, Program, Waiting, Taking, CtTaking, Closing, OtherPc,
     OK, Failed, envVars, At, Stopped
<1>7. CASE DisconnectLogger(l)
  BY <1>7, PcValues DEF DisconnectLogger, IInv, PcInv, Types, Objs, Regs,
     Objects, Hosts, Loggers, Kept, Stays, Before, Setup, While, Past,
     TakenDown, Early, CtSetup, StSetup, Program, Waiting, Taking, CtTaking,
     Closing, OtherPc, OK, Failed, Quiet, Set, envVars, At
<1>8. CASE FreeLogger(l)
  BY <1>8, PcValues DEF FreeLogger, IInv, PcInv, Types, Objs, Regs, Objects,
     Hosts, Loggers, Kept, Stays, Before, Setup, While, Past, TakenDown, Early,
     CtSetup, StSetup, Program, Waiting, Taking, CtTaking, Closing, OtherPc,
     OK, Dies, Set, envVars, At, FreeHostmod, Stopped
<1> QED BY <1>1, <1>2, <1>3, <1>4, <1>5, <1>6, <1>7, <1>8 DEF LoggerStep

(* The logger itself goes through its states.                             *)
LEMMA OwnLogger ==
    ASSUME IInv, NEW l \in Loggers, LoggerStep(l)
    PROVE  LoggerInv(l)'
<1>1. CASE SkipLogger(l)
  BY <1>1, PcValues DEF SkipLogger, IInv, Types, LoggerInv, Objs, Regs,
     Objects, Hosts, Loggers, Before, Setup, While, Past, TakenDown, Early,
     CtSetup, StSetup, Program, Waiting, Taking, CtTaking, Closing, OK, Quiet,
     At, envVars, After
<1>2. CASE ConnectLogger(l)
  BY <1>2, PcValues DEF ConnectLogger, IInv, Types, LoggerInv, Objs, Regs,
     Objects, Hosts, Loggers, Before, Setup, While, Past, TakenDown, Early,
     CtSetup, StSetup, Program, Waiting, Taking, CtTaking, Closing, OK, Failed,
     Quiet, Set, At, envVars
<1>3. CASE OpenFiles(l)
  BY <1>3, PcValues DEF OpenFiles, IInv, Types, LoggerInv, Objs, Regs, Objects,
     Hosts, Loggers, Before, Setup, While, Past, TakenDown, Early, CtSetup,
     StSetup, Program, Waiting, Taking, CtTaking, Closing, OK, Failed, At,
     envVars
<1>4. CASE StartLogger(l)
  <2>1. /\ pc = Pc[l].start /\ obj' = obj /\ files' = files /\ UNCHANGED <<tool, opts>>
        /\ LoggerInv(l) /\ module \in Regs /\ l \in Hosts
    BY <1>4 DEF StartLogger, OK, Failed, At, envVars, IInv, Types, Hosts, Loggers
  <2>2. obj[l] = "on" /\ files[l] = "open"
    BY <2>1 DEF LoggerInv, Setup
  <2>3. \/ /\ pc' = After(l)
           /\ module' = [module EXCEPT ![l] = [active |-> TRUE, dest |-> TRUE]]
        \/ /\ pc' = Pc[l].undo /\ "logger_start" \in cause'
    BY <1>4 DEF StartLogger, OK, Failed
  <2>4. CASE pc' = After(l) /\ module'[l] = [active |-> TRUE, dest |-> TRUE]
    <3>1. module'[l].active
      BY <2>4
    <3> QED BY ONLY <2>1, <2>2, <2>4, <3>1, l \in Loggers, PcValues
             DEF After, Loggers, LoggerInv, Before, Setup, While, Past, TakenDown,
                 Early, CtSetup, StSetup, Program, Waiting, CtTaking, Closing
  <2>5. CASE pc' = Pc[l].undo /\ "logger_start" \in cause'
    BY ONLY <2>1, <2>2, <2>5, l \in Loggers, PcValues
       DEF Loggers, LoggerInv, Before, Setup, While, Past, TakenDown,
           Early, CtSetup, StSetup, Program, Waiting, CtTaking, Closing
  <2>6. module' = [module EXCEPT ![l] = [active |-> TRUE, dest |-> TRUE]] =>
           module'[l] = [active |-> TRUE, dest |-> TRUE]
    BY ONLY <2>1 DEF Regs
  <2> QED BY <2>3, <2>4, <2>5, <2>6
<1>5. CASE UndoLogger(l)
  BY <1>5, PcValues DEF UndoLogger, IInv, Types, LoggerInv, Objs, Regs,
     Objects, Hosts, Loggers, Before, Setup, While, Past, TakenDown, Early,
     CtSetup, StSetup, Program, Waiting, Taking, CtTaking, Closing, OK,
     FailsAndDies, Quiet, Set, At, envVars
<1>6. CASE StopLogger(l)
  BY <1>6, PcValues DEF StopLogger, IInv, Types, LoggerInv, Objs, Regs,
     Objects, Hosts, Loggers, Before, Setup, While, Past, TakenDown, Early,
     CtSetup, StSetup, Program, Waiting, Taking, CtTaking, Closing, OK, Failed,
     At, envVars, Stopped
<1>7. CASE DisconnectLogger(l)
  BY <1>7, PcValues DEF DisconnectLogger, IInv, Types, LoggerInv, Objs, Regs,
     Objects, Hosts, Loggers, Before, Setup, While, Past, TakenDown, Early,
     CtSetup, StSetup, Program, Waiting, Taking, CtTaking, Closing, OK, Failed,
     Quiet, Set, At, envVars
<1>8. CASE FreeLogger(l)
  BY <1>8, PcValues DEF FreeLogger, IInv, Types, LoggerInv, Objs, Regs,
     Objects, Hosts, Loggers, Before, Setup, While, Past, TakenDown, Early,
     CtSetup, StSetup, Program, Waiting, Taking, CtTaking, Closing, OK, Dies,
     Set, At, envVars, FreeHostmod, Stopped
<1> QED BY <1>1, <1>2, <1>3, <1>4, <1>5, <1>6, <1>7, <1>8 DEF LoggerStep

LEMMA CloseFilesLoggers ==
    ASSUME IInv, CloseFiles, NEW l \in Loggers
    PROVE  LoggerInv(l)'
  BY PcValues DEF CloseFiles, OK, At, envVars, IInv, PcInv, OtherPc, LoggerInv, Loggers,
     Before, Setup, While, Past, TakenDown, Early, CtSetup, StSetup, Program, Waiting,
     CtTaking, Closing
-----------------------------------------------------------------------------
(* The objects the cleanup finds, the prints, and the end of the process.  *)

LEMMA ControlObjects ==
    ASSUME IInv, ControlStep
    PROVE  ObjectInv'
<1>1. CASE run_hostctrl
  BY <1>1 DEF run_hostctrl, IInv, ObjectInv, PcInv, Types, Objs, Objects,
     Hosts, OK, Failed, Quiet, Set, envVars, logVars, At, OtherPc, Waiting
<1>2. CASE run_gateway_glip
  BY <1>2 DEF run_gateway_glip, IInv, ObjectInv, PcInv, Types, Objs, Objects,
     Hosts, OK, Failed, Quiet, Set, envVars, logVars, At, OtherPc, Waiting
<1>3. CASE osd_memaccess_connect
  BY <1>3 DEF osd_memaccess_connect, IInv, ObjectInv, PcInv, Types, Objs,
     Objects, Hosts, OK, Failed, Quiet, Set, envVars, logVars, At, OtherPc,
     Waiting
<1>4. CASE osd_memaccess_cpus_stop
  BY <1>4 DEF osd_memaccess_cpus_stop, IInv, ObjectInv, PcInv, Types, Objs,
     Objects, Hosts, OK, Failed, envVars, logVars, At, OtherPc, Waiting
<1>5. CASE run_tracing
  BY <1>5 DEF run_tracing, IInv, ObjectInv, PcInv, Types, Objs, Objects, Hosts,
     OK, Failed, FailsAndDies, Quiet, Set, envVars, logVars, At, OtherPc,
     Waiting
<1>6. CASE TracingDone
  BY <1>6 DEF TracingDone, IInv, ObjectInv, PcInv, Types, Objs, Objects, Hosts,
     OK, Failed, Quiet, Set, envVars, logVars, At, OtherPc, Waiting
<1>7. CASE run_terminal
  BY <1>7 DEF run_terminal, IInv, ObjectInv, PcInv, Types, Objs, Objects,
     Hosts, OK, Failed, FailsAndDies, Set, envVars, logVars, At, OtherPc,
     Waiting
<1>8. CASE osd_memaccess_find_memories_all
  BY <1>8 DEF osd_memaccess_find_memories_all, IInv, ObjectInv, PcInv, Types,
     Objs, Objects, Hosts, OK, Failed, Quiet, envVars, logVars, At, OtherPc,
     Waiting
<1>9. CASE LoadMemories
  BY <1>9 DEF LoadMemories, IInv, ObjectInv, PcInv, Types, Objs, Objects,
     Hosts, OK, Failed, Quiet, envVars, logVars, At, OtherPc, Waiting
<1>10. CASE osd_memaccess_cpus_start
  BY <1>10 DEF osd_memaccess_cpus_start, IInv, ObjectInv, PcInv, Types, Objs,
     Objects, Hosts, OK, Failed, envVars, logVars, At, OtherPc, Waiting
<1>11. CASE osd_memaccess_free
  BY <1>11 DEF osd_memaccess_free, IInv, ObjectInv, PcInv, Types, Objs,
     Objects, Hosts, OK, FailsAndDies, Quiet, Set, envVars, logVars, At,
     OtherPc, Waiting
<1>12. CASE Wait
  <2>1. pc' \notin {"term_free", "hostctrl", "gateway"} /\ pc = "wait"
    BY <1>12, AfterWaitValue DEF Wait, OK, At, IInv, Types
  <2> QED BY <1>12, <2>1 DEF Wait, OK, IInv, ObjectInv, Quiet, envVars
<1>13. CASE Pause
  BY <1>13 DEF Pause, IInv, ObjectInv, PcInv, Types, Objs, Objects, Hosts, OK,
     Quiet, envVars, logVars, At, OtherPc, Waiting
<1>14. CASE Signal
  BY <1>14 DEF Signal, IInv, ObjectInv, PcInv, Types, Objs, Objects, Hosts,
     Quiet, envVars, logVars, OtherPc, Waiting
<1>15. CASE osd_terminal_disconnect
  BY <1>15 DEF osd_terminal_disconnect, IInv, ObjectInv, PcInv, Types, Objs,
     Objects, Hosts, OK, Failed, Quiet, Set, envVars, logVars, At, OtherPc,
     Waiting
<1>16. CASE osd_terminal_free
  BY <1>16 DEF osd_terminal_free, IInv, ObjectInv, PcInv, Types, Objs, Objects,
     Hosts, OK, Dies, Quiet, Set, envVars, logVars, At, OtherPc, Waiting,
     FreeHostmod
<1>17. CASE CloseFiles
  BY <1>17 DEF CloseFiles, IInv, ObjectInv, PcInv, Types, Objs, Objects, Hosts,
     OK, envVars, logVars, At, OtherPc, Waiting
<1>18. CASE FreeGateway
  BY <1>18 DEF FreeGateway, IInv, ObjectInv, PcInv, Types, Objs, Objects,
     Hosts, OK, Dies, Quiet, Set, envVars, logVars, At, OtherPc, Waiting
<1>19. CASE FreeHostctrl
  BY <1>19 DEF FreeHostctrl, IInv, ObjectInv, PcInv, Types, Objs, Objects,
     Hosts, OK, Dies, FailsAndDies, Quiet, Set, envVars, logVars, At, OtherPc,
     Waiting
<1>20. CASE HostControllerStarts
  BY <1>20 DEF HostControllerStarts, IInv, ObjectInv, PcInv, Types, Objs,
     Objects, Hosts, OK, Failed, FailsAndDies, Quiet, Set, envVars, logVars,
     At, OtherPc, Waiting
<1>21. CASE HostControllerStops
  BY <1>21 DEF HostControllerStops, IInv, ObjectInv, PcInv, Types, Objs,
     Objects, Hosts, OK, FailsAndDies, Quiet, Set, envVars, logVars, At,
     OtherPc, Waiting
<1>22. CASE DeviceGatewayStarts
  BY <1>22 DEF DeviceGatewayStarts, IInv, ObjectInv, PcInv, Types, Objs,
     Objects, Hosts, OK, Failed, FailsAndDies, Quiet, Set, envVars, logVars,
     At, OtherPc, Waiting
<1>23. CASE DeviceGatewayStops
  BY <1>23 DEF DeviceGatewayStops, IInv, ObjectInv, PcInv, Types, Objs,
     Objects, Hosts, OK, Quiet, Set, envVars, logVars, At, OtherPc, Waiting
<1> QED BY <1>1, <1>2, <1>3, <1>4, <1>5, <1>6, <1>7, <1>8, <1>9, <1>10, <1>11,
   <1>12, <1>13, <1>14, <1>15, <1>16, <1>17, <1>18, <1>19, <1>20, <1>21, <1>22,
   <1>23 DEF ControlStep

LEMMA LoggerObjects ==
    ASSUME IInv, NEW l \in Loggers, LoggerStep(l)
    PROVE  ObjectInv'
<1>1. CASE SkipLogger(l)
  BY <1>1, PcValues DEF SkipLogger, IInv, ObjectInv, Types, Objs, Regs,
     Objects, Hosts, Loggers, OK, Quiet, envVars, logVars, At, After
<1>2. CASE ConnectLogger(l)
  BY <1>2, PcValues DEF ConnectLogger, IInv, ObjectInv, Types, Objs, Regs,
     Objects, Hosts, Loggers, OK, Failed, Quiet, Set, envVars, logVars, At
<1>3. CASE OpenFiles(l)
  BY <1>3, PcValues DEF OpenFiles, IInv, ObjectInv, Types, Objs, Regs, Objects,
     Hosts, Loggers, OK, Failed, envVars, logVars, At
<1>4. CASE StartLogger(l)
  <2>1. module'["term"] = module["term"]
    <3>1. \E active, dest \in BOOLEAN :
            module' = [module EXCEPT ![l] = [active |-> active, dest |-> dest]]
      BY <1>4 DEF StartLogger
    <3> QED BY <3>1, RegFacts DEF IInv, Types, Hosts, Loggers
  <2>2. /\ obj' = obj /\ tx' = tx /\ UNCHANGED <<tool, opts>> /\ pc' # "term_free"
        /\ \A c : c \in cause => c \in cause'
        /\ pc \notin {"hostctrl", "gateway"} /\ pc' \notin {"hostctrl", "gateway"}
    BY <1>4, PcValues DEF StartLogger, OK, Failed, At, envVars, After, Loggers
  <2> QED BY <2>1, <2>2 DEF IInv, ObjectInv
<1>5. CASE UndoLogger(l)
  BY <1>5, PcValues DEF UndoLogger, IInv, ObjectInv, Types, Objs, Regs,
     Objects, Hosts, Loggers, OK, FailsAndDies, Quiet, Set, envVars, logVars,
     At
<1>6. CASE StopLogger(l)
  BY <1>6, PcValues DEF StopLogger, IInv, ObjectInv, Types, Objs, Regs,
     Objects, Hosts, Loggers, OK, Failed, envVars, logVars, At, Stopped
<1>7. CASE DisconnectLogger(l)
  BY <1>7, PcValues DEF DisconnectLogger, IInv, ObjectInv, Types, Objs, Regs,
     Objects, Hosts, Loggers, OK, Failed, Quiet, Set, envVars, logVars, At
<1>8. CASE FreeLogger(l)
  BY <1>8, PcValues DEF FreeLogger, IInv, ObjectInv, Types, Objs, Regs,
     Objects, Hosts, Loggers, OK, Dies, Set, envVars, logVars, At, FreeHostmod,
     Stopped
<1> QED BY <1>1, <1>2, <1>3, <1>4, <1>5, <1>6, <1>7, <1>8 DEF LoggerStep

LEMMA ControlPrints ==
    ASSUME IInv, ControlStep
    PROVE  PrintInv'
<1>1. CASE run_hostctrl
  BY <1>1 DEF run_hostctrl, IInv, PrintInv, PrintsKept, Types, PcInv, Objs,
     Objects, Loggers, OK, Failed, Quiet, Set, logVars, At, Waiting, Taking,
     CtTaking, Closing
<1>2. CASE run_gateway_glip
  BY <1>2 DEF run_gateway_glip, IInv, PrintInv, PrintsKept, Types, PcInv, Objs,
     Objects, Loggers, OK, Failed, Quiet, Set, logVars, At, Waiting, Taking,
     CtTaking, Closing
<1>3. CASE osd_memaccess_connect
  BY <1>3 DEF osd_memaccess_connect, IInv, PrintInv, PrintsKept, Types, PcInv,
     Objs, Objects, Loggers, OK, Failed, Quiet, Set, logVars, At, Waiting,
     Taking, CtTaking, Closing
<1>4. CASE osd_memaccess_cpus_stop
  BY <1>4 DEF osd_memaccess_cpus_stop, IInv, PrintInv, PrintsKept, Types,
     PcInv, Objs, Objects, Loggers, OK, Failed, logVars, At, Waiting, Taking,
     CtTaking, Closing
<1>5. CASE run_tracing
  BY <1>5 DEF run_tracing, IInv, PrintInv, PrintsKept, Types, PcInv, Objs,
     Objects, Loggers, OK, Failed, FailsAndDies, Quiet, Set, logVars, At,
     Waiting, Taking, CtTaking, Closing
<1>6. CASE TracingDone
  BY <1>6 DEF TracingDone, IInv, PrintInv, PrintsKept, Types, PcInv, Objs,
     Objects, Loggers, OK, Failed, Quiet, Set, logVars, At, Waiting, Taking,
     CtTaking, Closing
<1>7. CASE run_terminal
  BY <1>7 DEF run_terminal, IInv, PrintInv, PrintsKept, Types, PcInv, Objs,
     Objects, Loggers, OK, Failed, FailsAndDies, Set, logVars, At, Waiting,
     Taking, CtTaking, Closing
<1>8. CASE osd_memaccess_find_memories_all
  BY <1>8 DEF osd_memaccess_find_memories_all, IInv, PrintInv, PrintsKept,
     Types, PcInv, Objs, Objects, Loggers, OK, Failed, Quiet, logVars, At,
     Waiting, Taking, CtTaking, Closing
<1>9. CASE LoadMemories
  BY <1>9 DEF LoadMemories, IInv, PrintInv, PrintsKept, Types, PcInv, Objs,
     Objects, Loggers, OK, Failed, Quiet, logVars, At, Waiting, Taking,
     CtTaking, Closing
<1>10. CASE osd_memaccess_cpus_start
  BY <1>10 DEF osd_memaccess_cpus_start, IInv, PrintInv, PrintsKept, Types,
     PcInv, Objs, Objects, Loggers, OK, Failed, logVars, At, Waiting, Taking,
     CtTaking, Closing
<1>11. CASE osd_memaccess_free
  BY <1>11 DEF osd_memaccess_free, IInv, PrintInv, PrintsKept, Types, PcInv,
     Objs, Objects, Loggers, OK, FailsAndDies, Quiet, Set, logVars, At,
     Waiting, Taking, CtTaking, Closing
<1>12. CASE Wait
  BY <1>12 DEF Wait, IInv, PrintInv, PrintsKept, Types, PcInv, Objs, Objects,
     Loggers, OK, Quiet, logVars, At, Waiting, Taking, CtTaking, Closing
<1>13. CASE Pause
  BY <1>13 DEF Pause, IInv, PrintInv, PrintsKept, Types, PcInv, Objs, Objects,
     Loggers, OK, Quiet, logVars, At, Waiting, Taking, CtTaking, Closing
<1>14. CASE Signal
  BY <1>14 DEF Signal, IInv, PrintInv, PrintsKept, Types, PcInv, Objs, Objects,
     Loggers, Quiet, logVars, Waiting, Taking, CtTaking, Closing
<1>15. CASE osd_terminal_disconnect
  BY <1>15 DEF osd_terminal_disconnect, IInv, PrintInv, PrintsKept, Types,
     PcInv, Objs, Objects, Loggers, OK, Failed, Quiet, Set, logVars, At,
     Waiting, Taking, CtTaking, Closing
<1>16. CASE osd_terminal_free
  BY <1>16 DEF osd_terminal_free, IInv, PrintInv, PrintsKept, Types, PcInv,
     Objs, Objects, Loggers, OK, Dies, Quiet, Set, logVars, At, Waiting,
     Taking, CtTaking, Closing, FreeHostmod
<1>17. CASE CloseFiles
  BY <1>17 DEF CloseFiles, IInv, PrintInv, PrintsKept, Types, PcInv, Objs,
     Objects, Loggers, OK, logVars, At, Waiting, Taking, CtTaking, Closing
<1>18. CASE FreeGateway
  BY <1>18 DEF FreeGateway, IInv, PrintInv, PrintsKept, Types, PcInv, Objs,
     Objects, Loggers, OK, Dies, Quiet, Set, logVars, At, Waiting, Taking,
     CtTaking, Closing
<1>19. CASE FreeHostctrl
  BY <1>19 DEF FreeHostctrl, IInv, PrintInv, PrintsKept, Types, PcInv, Objs,
     Objects, Loggers, OK, Dies, FailsAndDies, Quiet, Set, logVars, At,
     Waiting, Taking, CtTaking, Closing
<1>20. CASE HostControllerStarts
  BY <1>20 DEF HostControllerStarts, IInv, PrintInv, PrintsKept, Types, PcInv,
     Objs, Objects, Loggers, OK, Failed, FailsAndDies, Quiet, Set, logVars, At,
     Waiting, Taking, CtTaking, Closing
<1>21. CASE HostControllerStops
  BY <1>21 DEF HostControllerStops, IInv, PrintInv, PrintsKept, Types, PcInv,
     Objs, Objects, Loggers, OK, FailsAndDies, Quiet, Set, logVars, At,
     Waiting, Taking, CtTaking, Closing
<1>22. CASE DeviceGatewayStarts
  BY <1>22 DEF DeviceGatewayStarts, IInv, PrintInv, PrintsKept, Types, PcInv,
     Objs, Objects, Loggers, OK, Failed, FailsAndDies, Quiet, Set, logVars, At,
     Waiting, Taking, CtTaking, Closing
<1>23. CASE DeviceGatewayStops
  BY <1>23 DEF DeviceGatewayStops, IInv, PrintInv, PrintsKept, Types, PcInv,
     Objs, Objects, Loggers, OK, Quiet, Set, logVars, At, Waiting, Taking,
     CtTaking, Closing
<1> QED BY <1>1, <1>2, <1>3, <1>4, <1>5, <1>6, <1>7, <1>8, <1>9, <1>10, <1>11,
   <1>12, <1>13, <1>14, <1>15, <1>16, <1>17, <1>18, <1>19, <1>20, <1>21, <1>22,
   <1>23 DEF ControlStep

LEMMA LoggerPrints ==
    ASSUME IInv, NEW l \in Loggers, LoggerStep(l)
    PROVE  PrintInv'
<1>1. CASE SkipLogger(l)
  BY <1>1, PcValues DEF SkipLogger, IInv, PrintInv, PrintsKept, Types, PcInv,
     Objs, Objects, Loggers, OK, Quiet, logVars, At, Waiting, Taking, CtTaking,
     Closing, After
<1>2. CASE ConnectLogger(l)
  BY <1>2, PcValues, SMTT(40) DEF ConnectLogger, IInv, PrintInv, PrintsKept, Types,
     PcInv, Objs, Objects, Loggers, OK, Failed, Quiet, Set, logVars, At,
     Waiting, Taking, CtTaking, Closing
<1>3. CASE OpenFiles(l)
  BY <1>3, PcValues DEF OpenFiles, IInv, PrintInv, PrintsKept, Types, PcInv,
     Objs, Objects, Loggers, OK, Failed, logVars, At, Waiting, Taking,
     CtTaking, Closing
<1>4. CASE StartLogger(l)
  BY <1>4, PcValues DEF StartLogger, IInv, PrintInv, PrintsKept, Types, PcInv,
     Objs, Objects, Loggers, OK, Failed, logVars, At, Waiting, Taking,
     CtTaking, Closing, After
<1>5. CASE UndoLogger(l)
  BY <1>5, PcValues DEF UndoLogger, IInv, PrintInv, PrintsKept, Types, PcInv,
     Objs, Objects, Loggers, OK, FailsAndDies, Quiet, Set, logVars, At,
     Waiting, Taking, CtTaking, Closing
<1>6. CASE StopLogger(l)
  BY <1>6, PcValues DEF StopLogger, IInv, PrintInv, PrintsKept, Types, PcInv,
     Objs, Objects, Loggers, OK, Failed, logVars, At, Waiting, Taking,
     CtTaking, Closing, Stopped
<1>7. CASE DisconnectLogger(l)
  BY <1>7, PcValues DEF DisconnectLogger, IInv, PrintInv, PrintsKept, Types,
     PcInv, Objs, Objects, Loggers, OK, Failed, Quiet, Set, logVars, At,
     Waiting, Taking, CtTaking, Closing
<1>8. CASE FreeLogger(l)
  <2>1. Chars = Seq(1 .. MaxEvents) /\ Types /\ PrintInv /\ PcInv
    BY DEF Chars, IInv
  <2>2. printlog \o sysprint_buf = prints /\ prints \in Seq(1 .. MaxEvents)
    BY <2>1 DEF PrintInv, PrintsKept, Types
  <2>3. CASE l = "st"
    <3>1. printlog' = prints /\ sysprint_buf' = <<>> /\ prints' = prints
      BY <1>8, <2>2, <2>3 DEF FreeLogger
    <3>2. printlog' \o sysprint_buf' = prints'
      BY ONLY <2>2, <3>1
    <3>3. cpus' # "started" => prints = <<>>
      BY <1>8, <2>1 DEF FreeLogger, PrintInv
    <3> QED BY <3>1, <3>2, <3>3 DEF PrintInv, PrintsKept
  <2>4. CASE l = "ct"
    <3>1. UNCHANGED <<printlog, sysprint_buf, prints, cpus>>
      BY <1>8, <2>4 DEF FreeLogger
    <3>2. obj'["st"] = obj["st"]
      BY <1>8, <2>4, <2>1 DEF FreeLogger, FreeHostmod, OK, Dies, Set, Types, Objs, Objects
    <3> QED BY <3>1, <3>2, <2>1 DEF PrintInv, PrintsKept
  <2> QED BY <2>3, <2>4 DEF Loggers
<1> QED BY <1>1, <1>2, <1>3, <1>4, <1>5, <1>6, <1>7, <1>8 DEF LoggerStep

LEMMA ControlCrash ==
    ASSUME IInv, ControlStep
    PROVE  CrashInv'
<1>1. CASE run_hostctrl
  BY <1>1 DEF run_hostctrl, IInv, PcInv, ObjectInv, CrashInv, OK, Failed, At,
     Alive, envVars, OtherPc, Waiting
<1>2. CASE run_gateway_glip
  BY <1>2 DEF run_gateway_glip, IInv, PcInv, ObjectInv, CrashInv, OK, Failed,
     At, Alive, envVars, OtherPc, Waiting
<1>3. CASE osd_memaccess_connect
  BY <1>3 DEF osd_memaccess_connect, IInv, PcInv, ObjectInv, CrashInv, OK,
     Failed, At, Alive, envVars, OtherPc, Waiting
<1>4. CASE osd_memaccess_cpus_stop
  BY <1>4 DEF osd_memaccess_cpus_stop, IInv, PcInv, ObjectInv, CrashInv, OK,
     Failed, At, Alive, envVars, OtherPc, Waiting
<1>5. CASE run_tracing
  BY <1>5 DEF run_tracing, IInv, PcInv, ObjectInv, CrashInv, OK, Failed,
     FailsAndDies, At, Alive, envVars, OtherPc, Waiting
<1>6. CASE TracingDone
  BY <1>6 DEF TracingDone, IInv, PcInv, ObjectInv, CrashInv, OK, Failed, At,
     Alive, envVars, OtherPc, Waiting
<1>7. CASE run_terminal
  BY <1>7 DEF run_terminal, IInv, PcInv, ObjectInv, CrashInv, OK, Failed,
     FailsAndDies, At, Alive, envVars, OtherPc, Waiting
<1>8. CASE osd_memaccess_find_memories_all
  BY <1>8 DEF osd_memaccess_find_memories_all, IInv, PcInv, ObjectInv,
     CrashInv, OK, Failed, At, Alive, envVars, OtherPc, Waiting
<1>9. CASE LoadMemories
  BY <1>9 DEF LoadMemories, IInv, PcInv, ObjectInv, CrashInv, OK, Failed, At,
     Alive, envVars, OtherPc, Waiting
<1>10. CASE osd_memaccess_cpus_start
  BY <1>10 DEF osd_memaccess_cpus_start, IInv, PcInv, ObjectInv, CrashInv, OK,
     Failed, At, Alive, envVars, OtherPc, Waiting
<1>11. CASE osd_memaccess_free
  BY <1>11 DEF osd_memaccess_free, IInv, PcInv, ObjectInv, CrashInv, OK,
     FailsAndDies, At, Alive, envVars, OtherPc, Waiting
<1>12. CASE Wait
  BY <1>12 DEF Wait, IInv, PcInv, ObjectInv, CrashInv, OK, At, Alive, envVars,
     OtherPc, Waiting
<1>13. CASE Pause
  BY <1>13 DEF Pause, IInv, PcInv, ObjectInv, CrashInv, OK, At, Alive, envVars,
     OtherPc, Waiting
<1>14. CASE Signal
  BY <1>14 DEF Signal, IInv, PcInv, ObjectInv, CrashInv, Alive, envVars,
     OtherPc, Waiting
<1>15. CASE osd_terminal_disconnect
  BY <1>15 DEF osd_terminal_disconnect, IInv, PcInv, ObjectInv, CrashInv, OK,
     Failed, At, Alive, envVars, OtherPc, Waiting
<1>16. CASE osd_terminal_free
  BY <1>16 DEF osd_terminal_free, IInv, PcInv, ObjectInv, CrashInv, OK, Dies,
     At, Alive, envVars, OtherPc, Waiting, FreeHostmod
<1>17. CASE CloseFiles
  BY <1>17 DEF CloseFiles, IInv, PcInv, ObjectInv, CrashInv, OK, At, Alive,
     envVars, OtherPc, Waiting
<1>18. CASE FreeGateway
  BY <1>18 DEF FreeGateway, IInv, PcInv, ObjectInv, CrashInv, OK, Dies, At,
     Alive, envVars, OtherPc, Waiting
<1>19. CASE FreeHostctrl
  BY <1>19 DEF FreeHostctrl, IInv, PcInv, ObjectInv, CrashInv, OK, Dies,
     FailsAndDies, At, Alive, envVars, OtherPc, Waiting
<1>20. CASE HostControllerStarts
  BY <1>20 DEF HostControllerStarts, IInv, PcInv, ObjectInv, CrashInv, OK,
     Failed, FailsAndDies, At, Alive, envVars, OtherPc, Waiting
<1>21. CASE HostControllerStops
  BY <1>21 DEF HostControllerStops, IInv, PcInv, ObjectInv, CrashInv, OK,
     FailsAndDies, At, Alive, envVars, OtherPc, Waiting
<1>22. CASE DeviceGatewayStarts
  BY <1>22 DEF DeviceGatewayStarts, IInv, PcInv, ObjectInv, CrashInv, OK,
     Failed, FailsAndDies, At, Alive, envVars, OtherPc, Waiting
<1>23. CASE DeviceGatewayStops
  BY <1>23 DEF DeviceGatewayStops, IInv, PcInv, ObjectInv, CrashInv, OK, At,
     Alive, envVars, OtherPc, Waiting
<1> QED BY <1>1, <1>2, <1>3, <1>4, <1>5, <1>6, <1>7, <1>8, <1>9, <1>10, <1>11,
   <1>12, <1>13, <1>14, <1>15, <1>16, <1>17, <1>18, <1>19, <1>20, <1>21, <1>22,
   <1>23 DEF ControlStep

LEMMA LoggerCrash ==
    ASSUME IInv, NEW l \in Loggers, LoggerStep(l)
    PROVE  CrashInv'
<1>1. CASE SkipLogger(l)
  BY <1>1, PcValues DEF SkipLogger, IInv, LoggerInv, CrashInv, OK, At, Alive,
     envVars, After
<1>2. CASE ConnectLogger(l)
  BY <1>2, PcValues DEF ConnectLogger, IInv, LoggerInv, CrashInv, OK, Failed,
     At, Alive, envVars
<1>3. CASE OpenFiles(l)
  BY <1>3, PcValues DEF OpenFiles, IInv, LoggerInv, CrashInv, OK, Failed, At,
     Alive, envVars
<1>4. CASE StartLogger(l)
  BY <1>4, PcValues DEF StartLogger, IInv, LoggerInv, CrashInv, OK, Failed, At,
     Alive, envVars, After
<1>5. CASE UndoLogger(l)
  BY <1>5, PcValues DEF UndoLogger, IInv, LoggerInv, CrashInv, OK,
     FailsAndDies, At, Alive, envVars
<1>6. CASE StopLogger(l)
  BY <1>6, PcValues DEF StopLogger, IInv, LoggerInv, CrashInv, OK, Failed, At,
     Alive, envVars, Stopped
<1>7. CASE DisconnectLogger(l)
  BY <1>7, PcValues DEF DisconnectLogger, IInv, LoggerInv, CrashInv, OK,
     Failed, At, Alive, envVars
<1>8. CASE FreeLogger(l)
  BY <1>8, PcValues DEF FreeLogger, IInv, LoggerInv, CrashInv, OK, Dies, At,
     Alive, envVars, FreeHostmod, Stopped
<1> QED BY <1>1, <1>2, <1>3, <1>4, <1>5, <1>6, <1>7, <1>8 DEF LoggerStep

-----------------------------------------------------------------------------
(* The handlers of the I/O threads and the thread of the terminal: they    *)
(* change the log, and they end the process.                               *)

LEMMA LogTyped ==
    ASSUME IInv, UNCHANGED <<tool, opts, obj, module, files, cpus, toolFails>>,
           tx' \in {"none", "poll", "send", "ended"},
           events' = events \/ (events < MaxEvents /\ events' = events + 1),
           {sysprint_buf', printlog', prints'} \subseteq Chars
    PROVE  Types'
<1>1. events \in 0 .. MaxEvents /\ MaxEvents \in Nat
  BY TargetRunAssumption DEF IInv, Types
<1>2. events' \in 0 .. MaxEvents
  BY ONLY <1>1, events' = events \/ (events < MaxEvents /\ events' = events + 1)
<1>3. sysprint_buf' \in Chars /\ printlog' \in Chars /\ prints' \in Chars
  OBVIOUS
<1> QED BY <1>2, <1>3 DEF IInv, Types

(* Nothing but the log, the terminal's thread and the end has changed.     *)
LEMMA LogStep ==
    ASSUME IInv, UNCHANGED <<tool, opts, pc, obj, module, files, cpus, cause>>
    PROVE  /\ PcInv' /\ \A l \in Loggers : LoggerInv(l)'
           /\ (tx' \in {"poll", "send"} => tx \in {"poll", "send"}) => ObjectInv'
<1>1. PcInv'
  BY DEF IInv, PcInv
<1>2. ASSUME NEW l \in Loggers PROVE LoggerInv(l)'
  BY DEF IInv, LoggerInv
<1>3. (tx' \in {"poll", "send"} => tx \in {"poll", "send"}) => ObjectInv'
  BY DEF IInv, ObjectInv
<1> QED BY <1>1, <1>2, <1>3

LEMMA OpenWhenItArrives ==
    ASSUME IInv, NEW l \in Loggers, Arrives(l), obj[l] = "on"
    PROVE  files[l] = "open"
  BY DEF IInv, LoggerInv, Arrives

LEMMA PrintStep ==
    ASSUME IInv, NEW k \in EventKinds, stm_event_handler(k)
    PROVE  IInv'
<1> DEFINE S == 1 .. MaxEvents
<1>1. /\ UNCHANGED <<tool, opts, pc, obj, module, files, cpus, cause, tx, toolFails>>
      /\ events < MaxEvents /\ events' = events + 1 /\ cpus = "started" /\ crash = ""
      /\ obj["st"] = "on" /\ Arrives("st")
  BY DEF stm_event_handler, Emit, Alive
<1>2. crash' = ""
  BY <1>1, OpenWhenItArrives DEF stm_event_handler, Loggers
<1>3. events' \in S
  <2>1. events \in 0 .. MaxEvents /\ MaxEvents \in Nat
    BY TargetRunAssumption DEF IInv, Types
  <2>2. events' = events + 1 /\ events < MaxEvents
    BY <1>1
  <2> QED BY ONLY <2>1, <2>2 DEF S
<1>4. /\ sysprint_buf \in Seq(S) /\ printlog \in Seq(S) /\ prints \in Seq(S)
      /\ printlog \o sysprint_buf = prints
  BY DEF IInv, Types, Chars, PrintInv, PrintsKept
<1>5. k \in {"char", "nl", "trace"}
  BY TargetRunAssumption
<1> HIDE DEF S
<1>6. /\ sysprint_buf' \in Seq(S) /\ printlog' \in Seq(S) /\ prints' \in Seq(S)
      /\ printlog' \o sysprint_buf' = prints'
  <2>1. CASE k = "trace"
    BY <2>1, <1>4 DEF stm_event_handler
  <2>2. CASE k = "char"
    <3>1. /\ prints' = Append(prints, events') /\ printlog' = printlog
          /\ sysprint_buf' = Append(sysprint_buf, events')
      BY <2>2 DEF stm_event_handler
    <3>2. /\ printlog \o Append(sysprint_buf, events') = Append(prints, events')
          /\ Append(prints, events') \in Seq(S) /\ Append(sysprint_buf, events') \in Seq(S)
      BY ONLY <1>3, <1>4, PrintFacts
    <3> QED BY ONLY <3>1, <3>2, <1>4
  <2>3. CASE k = "nl"
    <3>1. /\ prints' = Append(prints, events') /\ sysprint_buf' = <<>>
          /\ printlog' = printlog \o Append(sysprint_buf, events')
      BY <2>3 DEF stm_event_handler
    <3>2. /\ (printlog \o Append(sysprint_buf, events')) \o <<>> = Append(prints, events')
          /\ Append(prints, events') \in Seq(S) /\ <<>> \in Seq(S)
          /\ printlog \o Append(sysprint_buf, events') \in Seq(S)
      BY ONLY <1>3, <1>4, PrintFacts
    <3> QED BY ONLY <3>1, <3>2
  <2> QED BY <2>1, <2>2, <2>3, <1>5
<1>7. Types'
  BY <1>1, <1>6, LogTyped DEF S, Chars, IInv, Types
<1>8. PrintInv'
  BY <1>1, <1>6 DEF PrintInv, PrintsKept
<1>9. CrashInv'
  BY <1>2 DEF CrashInv
<1> QED BY <1>1, <1>7, <1>8, <1>9, LogStep DEF IInv

Unlogged ==
    /\ UNCHANGED <<tool, opts, pc, obj, module, files, cpus, cause, toolFails>>
    /\ UNCHANGED logVars /\ tx' \in {"none", "poll", "send", "ended"}
    /\ tx' \in {"poll", "send"} => tx \in {"poll", "send"}
    /\ events' = events \/ (events < MaxEvents /\ events' = events + 1)

LEMMA QuietThread ==
    ASSUME IInv, Unlogged
    PROVE  Types' /\ PcInv' /\ (\A l \in Loggers : LoggerInv(l)') /\ ObjectInv' /\ PrintInv'
<1>1. sysprint_buf' = sysprint_buf /\ printlog' = printlog /\ prints' = prints
  BY DEF Unlogged, logVars
<1>2. Types'
  BY <1>1, LogTyped DEF Unlogged, IInv, Types
<1>3. PrintInv'
  BY <1>1 DEF Unlogged, IInv, PrintInv, PrintsKept
<1> QED BY <1>2, <1>3, LogStep DEF Unlogged

LEMMA HandlerStep ==
    ASSUME IInv, NEW k \in EventKinds,
           \/ ctm_event_handler(k) \/ handle_rx_data(k)
           \/ \E h \in Hosts : EventForNobody(h, k)
    PROVE  IInv'
<1>0. ASSUME Unlogged, CrashInv' PROVE IInv'
  BY <1>0, QuietThread DEF IInv
<1>1. CASE ctm_event_handler(k)
  <2>1. Unlogged
    BY <1>1 DEF Unlogged, ctm_event_handler, Emit, logVars, IInv, Types
  <2>2. crash' = ""
    BY <1>1, OpenWhenItArrives DEF ctm_event_handler, Loggers
  <2> QED BY <1>0, <2>1, <2>2 DEF CrashInv
<1>2. CASE handle_rx_data(k)
  <2>1. Unlogged /\ crash' = ""
    BY <1>2 DEF Unlogged, handle_rx_data, Emit, Alive, logVars, IInv, Types
  <2> QED BY <1>0, <2>1 DEF CrashInv
<1>3. ASSUME NEW h \in Hosts, EventForNobody(h, k) PROVE IInv'
  <2>1. Unlogged /\ crash' = "router" /\ UNCHANGED <<opts, cause>>
    BY <1>3 DEF Unlogged, EventForNobody, Emit, logVars, IInv, Types
  <2>2. module[h].active /\ obj[h] # "on"
    BY <1>3 DEF EventForNobody, Arrives
  <2>3. "terminal" \in opts \/ cause \cap {"logger_start", "logger_stop"} # {}
    <3>1. CASE h = "term"
      BY <2>2, <3>1 DEF IInv, ObjectInv
    <3>2. CASE h \in Loggers
      BY <2>2, <3>2 DEF IInv, LoggerInv
    <3> QED BY <3>1, <3>2 DEF Hosts, Loggers
  <2> QED BY <1>0, <2>1, <2>3 DEF CrashInv
<1> QED BY <1>1, <1>2, <1>3

LEMMA TerminalStep ==
    ASSUME IInv, terminal_tx_thread
    PROVE  IInv'
<1>1. Unlogged
  BY DEF Unlogged, terminal_tx_thread, envVars, logVars, IInv, Types
<1>2. CASE crash' = "tx_freed"
  <2>1. "terminal" \in opts'
    BY DEF terminal_tx_thread, envVars, IInv, ObjectInv
  <2> QED BY <1>1, <1>2, <2>1, QuietThread DEF IInv, CrashInv
<1>3. CASE crash' = crash
  <2>1. crash' = ""
    BY <1>3 DEF terminal_tx_thread, Alive
  <2> QED BY <1>1, <2>1, QuietThread DEF IInv, CrashInv
<1> QED BY <1>2, <1>3 DEF terminal_tx_thread
-----------------------------------------------------------------------------
LEMMA EmptyLog == <<>> \in Chars /\ <<>> \o <<>> = <<>>
  BY DEF Chars

LEMMA ToolStart == ToolInit => IInv
<1> SUFFICES ASSUME ToolInit PROVE IInv
  OBVIOUS
<1> USE DEF ToolInit
<1>1. tool \in {"target-run", "host-controller", "device-gateway"}
  BY TargetRunAssumption
<1>2. /\ tool = "target-run" => pc = "hostctrl"
      /\ tool # "target-run" => pc \in {"hc_new", "dg_options"}
  BY <1>1
<1>3. <<>> \in Chars /\ <<>> \o <<>> = <<>>
  BY ONLY EmptyLog
<1>4. Types
  <2>1. obj \in Objs
    BY DEF Objs
  <2>2. module \in Regs /\ \A h \in Hosts : module[h] = Silent
    BY DEF Regs, Silent
  <2>3. files \in [Loggers -> {"none", "open", "closed"}]
    OBVIOUS
  <2>4. 0 \in 0 .. MaxEvents /\ 0 \in 0 .. MaxToolFails
    BY ONLY TargetRunAssumption
  <2> QED BY <1>3, <2>1, <2>2, <2>3, <2>4 DEF Types
<1>5. PcInv
  <2>1. cpus # "started"
    OBVIOUS
  <2> QED BY ONLY <1>2, <2>1 DEF PcInv, TargetPc, OtherPc, Early
<1>6. ASSUME NEW l \in Loggers PROVE LoggerInv(l)
  <2>1. ~module[l].active
    BY DEF Silent, Loggers, Hosts
  <2> QED BY <1>2, <2>1, PcValues DEF LoggerInv, Loggers, Setup, Past, While, Program, Waiting,
             StSetup, Closing, CtTaking
<1>7. ObjectInv
  <2>1. ~module["term"].active
    BY DEF Silent, Hosts
  <2> QED BY <1>2, <2>1 DEF ObjectInv
<1>8. PrintInv
  <2>1. obj["st"] # "freed"
    BY DEF Objects
  <2> QED BY <1>3, <2>1 DEF PrintInv, PrintsKept
<1>9. CrashInv
  BY DEF CrashInv
<1> QED BY <1>4, <1>5, <1>6, <1>7, <1>8, <1>9 DEF IInv

LEMMA ToolStep == IInv /\ [ToolNext]_toolVars => IInv'
<1> SUFFICES ASSUME IInv, [ToolNext]_toolVars PROVE IInv'
  OBVIOUS
<1>1. CASE ControlStep
  <2>1. Counted
    BY <1>1, ControlCounted
  <2>2. Types'
    BY <1>1, <2>1, ControlObjs, ControlRegs, ControlEffects, StepTypes
  <2>3. ASSUME NEW l \in Loggers PROVE LoggerInv(l)'
    <3>1. CASE CloseFiles
      BY <3>1, CloseFilesLoggers
    <3>2. CASE Kept(l) /\ Stays(l)
      BY <3>2, <2>1, LoggerStays DEF IInv
    <3> QED BY <1>1, <3>1, <3>2, ControlStays
  <2> QED BY <1>1, <2>2, <2>3, ControlPc, ControlObjects, ControlPrints, ControlCrash DEF IInv
<1>2. ASSUME NEW l \in Loggers, LoggerStep(l) PROVE IInv'
  <2>1. Counted
    BY <1>2, LoggerCounted
  <2>2. Types'
    BY <1>2, <2>1, LoggerObjs, LoggerRegs, LoggerEffects, StepTypes
  <2>3. ASSUME NEW k \in Loggers PROVE LoggerInv(k)'
    <3>1. CASE k = l
      BY <1>2, <3>1, OwnLogger
    <3>2. CASE k # l
      <4>1. Kept(k) /\ Stays(k)
        BY <1>2, <3>2, OtherLogger
      <4> QED BY <2>1, <4>1, LoggerStays DEF IInv
    <3> QED BY <3>1, <3>2
  <2> QED BY <1>2, <2>2, <2>3, LoggerPc, LoggerObjects, LoggerPrints, LoggerCrash DEF IInv
<1>3. CASE terminal_tx_thread
  BY <1>3, TerminalStep
<1>4. ASSUME NEW k \in EventKinds,
             \/ stm_event_handler(k) \/ ctm_event_handler(k) \/ handle_rx_data(k)
             \/ \E h \in Hosts : EventForNobody(h, k)
      PROVE  IInv'
  BY <1>4, PrintStep, HandlerStep
<1>5. CASE UNCHANGED toolVars
  <2>1. /\ Unlogged /\ UNCHANGED <<crash, cause, opts>>
    BY <1>5 DEF toolVars, Unlogged, logVars, IInv, Types
  <2>2. CrashInv'
    BY <2>1 DEF IInv, CrashInv
  <2> QED BY <2>1, <2>2, QuietThread DEF IInv
<1> QED BY <1>1, <1>2, <1>3, <1>4, <1>5 DEF ToolNext, MainStep, ControlStep, LoggerStep

LEMMA ToolInvariant == ToolSpec => []IInv
  BY ToolStart, ToolStep, PTL DEF ToolSpec

(* The type of the state, from the parts of the invariant.                 *)
LEMMA TypesSuffice == Types => ToolTypeOK
  BY DEF Types, ToolTypeOK, Objs, Regs, Chars

(* CrashesOnlyIf: whatever fails and however the threads of osd-target-run *)
(* and the two other tools interleave, an assertion or an invalid access   *)
(* ends the process only after one of the failures that the error paths    *)
(* leave unhandled, or with a terminal, and no handler meets a closed file.*)
THEOREM CrashesAreExplained == ToolSpec => []CrashesOnlyIf
<1>1. IInv => CrashesOnlyIf
  BY TypesSuffice DEF IInv, CrashInv, CrashesOnlyIf
<1> QED BY <1>1, ToolInvariant, PTL

(* TracesKept: what was printed is in the buffer of the systrace logger or *)
(* in its file, in order and all in the file once the logger is freed, and *)
(* the CPUs only run with every trace module that was asked for active and *)
(* its logger there to write it down.                                      *)
THEOREM TracesAreKept == ToolSpec => []TracesKept
<1>1. ASSUME IInv PROVE TracesKept
  <2>1. PrintsKept
    BY <1>1 DEF IInv, PrintInv
  <2>2. ASSUME cpus = "started", pc \in {"mem_disconnect", "wait", "to_pause", "pause"},
               NEW l \in Loggers, Option(l) \in opts
        PROVE  /\ module[l] = [active |-> TRUE, dest |-> TRUE]
               /\ obj[l] = "on" /\ files[l] = "open"
    <3>1. tool = "target-run" /\ LoggerInv(l)
      BY <1>1, <2>2 DEF IInv, PcInv
    <3> QED BY <2>2, <3>1 DEF LoggerInv, While, Program, Waiting
  <2> QED BY <2>1, <2>2 DEF TracesKept, RunsObserved
<1> QED BY <1>1, ToolInvariant, PTL
-----------------------------------------------------------------------------
(* The terminal.                                                           *)
CharSeqs == Seq(1 .. MaxTyped)

(* The type invariant without the enumerations of TermTypeOK.              *)
TerminalTypes ==
    /\ ctx \in {"new", "conn", "freed"}
    /\ running \in BOOLEAN /\ fd \in BOOLEAN /\ uart \in BOOLEAN
    /\ thread \in {"none", "loop", "poll", "read", "send", "ended", "joined"}
    /\ pty \in CharSeqs /\ str \in CharSeqs /\ typed \in CharSeqs /\ sent \in CharSeqs
    /\ Len(str) <= BUF /\ Len(typed) <= MaxTyped /\ lost \subseteq 1 .. MaxTyped
    /\ stopping \in {"no", "access", "join"} /\ stopped \in {"never", "OK", "ERR"}
    /\ starts \in 0 .. MaxStarts /\ termFails \in 0 .. MaxTermFails

(* The thread exists until it is joined.                                   *)
Exists == thread \notin {"none", "joined"}

(* The owner only gives up the connection, the flag and the                *)
(* pseudo-terminal in the order in which the thread can do without them.   *)
OwnerInv ==
    /\ Exists => fd /\ ctx = "conn" /\ (running \/ stopping = "join")
    /\ stopping # "no" => Exists
    /\ stopping = "join" => ~running
    /\ stopped = "OK" => ~Exists /\ ~fd
    /\ starts = 0 => ~fd /\ typed = <<>>
    /\ thread = "send" <=> str # <<>>

Ordered(s)   == \A i, j \in 1 .. Len(s) : i < j => s[i] < s[j]
Precedes(s, t) == \A i \in 1 .. Len(s), j \in 1 .. Len(t) : s[i] < t[j]
Upto(s, n)   == \A i \in 1 .. Len(s) : s[i] <= n
Has(s, c)    == \E i \in 1 .. Len(s) : s[i] = c

(* What was sent, what the thread holds and what it has not read are three *)
(* successive parts of what was typed.                                     *)
OrderInv ==
    /\ Ordered(sent) /\ Ordered(str) /\ Ordered(pty)
    /\ Precedes(sent, str) /\ Precedes(sent, pty) /\ Precedes(str, pty)
    /\ Upto(sent, Len(typed)) /\ Upto(str, Len(typed)) /\ Upto(pty, Len(typed))

AllThere == \A c \in 1 .. Len(typed) :
               Has(sent, c) \/ Has(str, c) \/ Has(pty, c) \/ c \in lost \/ starts > 1

TerminalInv == TerminalTypes /\ OwnerInv /\ OrderInv /\ AllThere

-----------------------------------------------------------------------------
(* Sequences of characters.                                                *)

LEMMA EmptyFacts ==
    /\ <<>> \in CharSeqs /\ Len(<<>>) = 0 /\ Ordered(<<>>)
    /\ \A s : Precedes(s, <<>>) /\ Precedes(<<>>, s)
    /\ \A n : Upto(<<>>, n)
    /\ \A c : ~Has(<<>>, c)
  BY DEF CharSeqs, Ordered, Precedes, Upto, Has

LEMMA AnyAppend ==
    ASSUME NEW S, NEW s \in Seq(S), NEW x \in S
    PROVE  /\ Append(s, x) \in Seq(S) /\ Len(Append(s, x)) = Len(s) + 1
           /\ Len(s) \in Nat /\ Append(s, x)[Len(s) + 1] = x
           /\ \A i \in 1 .. Len(s) : Append(s, x)[i] = s[i] /\ s[i] \in S
  OBVIOUS

LEMMA AnyTail ==
    ASSUME NEW S, NEW s \in Seq(S), s # <<>>
    PROVE  /\ Tail(s) \in Seq(S) /\ Len(Tail(s)) = Len(s) - 1
           /\ Len(s) \in Nat /\ Len(s) > 0
           /\ \A i \in 1 .. Len(Tail(s)) : Tail(s)[i] = s[i + 1]
           /\ Head(s) = s[1] /\ Head(s) \in S
  OBVIOUS

LEMMA AnySubSeq ==
    ASSUME NEW S, NEW s \in Seq(S), NEW m \in 1 .. Len(s) + 1, NEW n \in m - 1 .. Len(s)
    PROVE  /\ SubSeq(s, m, n) \in Seq(S) /\ Len(SubSeq(s, m, n)) = n - m + 1
           /\ Len(s) \in Nat
           /\ \A i \in 1 .. n - m + 1 : SubSeq(s, m, n)[i] = s[m + i - 1]
  OBVIOUS

LEMMA AppendFacts ==
    ASSUME NEW s \in CharSeqs, NEW x \in 1 .. MaxTyped, NEW t, t = Append(s, x)
    PROVE  /\ t \in CharSeqs /\ Len(t) = Len(s) + 1 /\ Len(s) \in Nat
           /\ \A i \in 1 .. Len(s) : t[i] = s[i] /\ i \in 1 .. Len(t)
           /\ t[Len(t)] = x /\ Len(t) \in 1 .. Len(t)
           /\ \A i \in 1 .. Len(t) : i \in 1 .. Len(s) \/ i = Len(s) + 1
           /\ \A i \in 1 .. Len(s) : s[i] \in 1 .. MaxTyped
  <1> DEFINE S == 1 .. MaxTyped
  <1>0. s \in Seq(S) /\ x \in S
    BY DEF CharSeqs
  <1> HIDE DEF S
  <1>1. /\ t \in Seq(S) /\ Len(t) = Len(s) + 1 /\ Len(s) \in Nat /\ t[Len(s) + 1] = x
        /\ \A i \in 1 .. Len(s) : t[i] = s[i] /\ s[i] \in S
    BY <1>0, AnyAppend
  <1>2. t \in CharSeqs
    BY <1>1 DEF S, CharSeqs
  <1>3. \A i \in 1 .. Len(s) : s[i] \in 1 .. MaxTyped
    BY <1>1 DEF S
  <1> QED BY <1>1, <1>2, <1>3

(* t is s with one more character.                                         *)
Longer(s, x, t) == t = Append(s, x)

LEMMA AppendHas ==
    ASSUME NEW s \in CharSeqs, NEW x \in 1 .. MaxTyped, NEW t, Longer(s, x, t)
    PROVE  \A c : Has(t, c) <=> Has(s, c) \/ c = x
  <1>1. /\ Len(t) = Len(s) + 1 /\ Len(s) \in Nat
        /\ \A i \in 1 .. Len(s) : t[i] = s[i] /\ i \in 1 .. Len(t)
        /\ t[Len(t)] = x /\ Len(t) \in 1 .. Len(t)
        /\ \A i \in 1 .. Len(t) : i \in 1 .. Len(s) \/ i = Len(s) + 1
    BY AppendFacts DEF Longer
  <1> QED BY <1>1 DEF Has

LEMMA AppendOrder ==
    ASSUME NEW s \in CharSeqs, NEW x \in 1 .. MaxTyped, NEW t, Longer(s, x, t)
    PROVE  /\ Ordered(s) /\ (\A i \in 1 .. Len(s) : s[i] < x) => Ordered(t)
           /\ \A n \in Nat : Upto(s, n) /\ x <= n => Upto(t, n)
           /\ \A u : Precedes(u, s) /\ (\A i \in 1 .. Len(u) : u[i] < x) => Precedes(u, t)
           /\ \A u : Precedes(s, u) /\ (\A i \in 1 .. Len(u) : x < u[i]) => Precedes(t, u)
  <1>1. /\ Len(t) = Len(s) + 1 /\ Len(s) \in Nat
        /\ \A i \in 1 .. Len(s) : t[i] = s[i] /\ i \in 1 .. Len(t)
        /\ t[Len(t)] = x /\ Len(t) \in 1 .. Len(t)
        /\ \A i \in 1 .. Len(t) : i \in 1 .. Len(s) \/ i = Len(s) + 1
    BY AppendFacts DEF Longer
  <1>2. ASSUME Ordered(s), \A i \in 1 .. Len(s) : s[i] < x,
               NEW i \in 1 .. Len(t), NEW j \in 1 .. Len(t), i < j
        PROVE  t[i] < t[j]
    <2>1. i \in 1 .. Len(s)
      BY <1>1, <1>2
    <2>2. CASE j \in 1 .. Len(s)
      BY <1>1, <1>2, <2>1, <2>2 DEF Ordered
    <2>3. CASE j = Len(s) + 1
      BY <1>1, <1>2, <2>1, <2>3
    <2> QED BY <1>1, <2>2, <2>3
  <1>3. \A n \in Nat : Upto(s, n) /\ x <= n => Upto(t, n)
    BY <1>1 DEF Upto
  <1>4. \A u : Precedes(u, s) /\ (\A i \in 1 .. Len(u) : u[i] < x) => Precedes(u, t)
    BY <1>1 DEF Precedes
  <1>5. \A u : Precedes(s, u) /\ (\A i \in 1 .. Len(u) : x < u[i]) => Precedes(t, u)
    BY <1>1 DEF Precedes
  <1>6. Ordered(s) /\ (\A i \in 1 .. Len(s) : s[i] < x) => Ordered(t)
    BY <1>2 DEF Ordered
  <1> QED BY <1>3, <1>4, <1>5, <1>6

(* A character is taken off the front.                                     *)
LEMMA TailFacts ==
    ASSUME NEW s \in CharSeqs, s # <<>>, NEW t, t = Tail(s)
    PROVE  /\ t \in CharSeqs /\ Len(t) = Len(s) - 1 /\ Len(s) \in Nat /\ Len(s) > 0
           /\ \A i \in 1 .. Len(t) : t[i] = s[i + 1] /\ i + 1 \in 1 .. Len(s)
           /\ Head(s) = s[1] /\ 1 \in 1 .. Len(s) /\ Head(s) \in 1 .. MaxTyped
  <1>1. /\ t \in CharSeqs /\ Len(t) = Len(s) - 1 /\ Len(s) \in Nat /\ Len(s) > 0
        /\ \A i \in 1 .. Len(t) : t[i] = s[i + 1]
        /\ Head(s) = s[1] /\ Head(s) \in 1 .. MaxTyped
    BY AnyTail DEF CharSeqs
  <1> QED BY <1>1

LEMMA TailOrder ==
    ASSUME NEW s \in CharSeqs, s # <<>>, NEW t, t = Tail(s)
    PROVE  /\ \A c : Has(s, c) <=> Has(t, c) \/ c = Head(s)
           /\ Ordered(s) => Ordered(t) /\ \A i \in 1 .. Len(t) : Head(s) < t[i]
           /\ \A n : Upto(s, n) => Upto(t, n) /\ Head(s) <= n
           /\ \A u : Precedes(u, s) => Precedes(u, t) /\ \A i \in 1 .. Len(u) : u[i] < Head(s)
           /\ \A u : Precedes(s, u) => Precedes(t, u) /\ \A i \in 1 .. Len(u) : Head(s) < u[i]
  <1>1. /\ Len(t) = Len(s) - 1 /\ Len(s) \in Nat /\ Len(s) > 0
        /\ \A i \in 1 .. Len(t) : t[i] = s[i + 1] /\ i + 1 \in 1 .. Len(s)
        /\ Head(s) = s[1] /\ 1 \in 1 .. Len(s)
    BY TailFacts
  <1>2. \A c : Has(s, c) <=> Has(t, c) \/ c = Head(s)
    <2>1. ASSUME NEW i \in 1 .. Len(s) PROVE s[i] = Head(s) \/ Has(t, s[i])
      <3>1. CASE i = 1
        BY <1>1, <3>1
      <3>2. CASE i # 1
        <4>1. i - 1 \in 1 .. Len(t) /\ (i - 1) + 1 = i
          BY <1>1, <3>2
        <4>2. t[i - 1] = s[i]
          BY <1>1, <4>1
        <4> QED BY <4>1, <4>2 DEF Has
      <3> QED BY <3>1, <3>2
    <2>2. ASSUME NEW c, Has(t, c) PROVE Has(s, c)
      BY <1>1, <2>2 DEF Has
    <2>3. Has(s, Head(s))
      BY <1>1 DEF Has
    <2> QED BY <2>1, <2>2, <2>3 DEF Has
  <1>3. Ordered(s) => Ordered(t) /\ \A i \in 1 .. Len(t) : Head(s) < t[i]
    <2> SUFFICES ASSUME Ordered(s)
                 PROVE  Ordered(t) /\ \A i \in 1 .. Len(t) : Head(s) < t[i]
      OBVIOUS
    <2>1. ASSUME NEW i \in 1 .. Len(t), NEW j \in 1 .. Len(t), i < j
          PROVE  t[i] < t[j]
      <3>1. i + 1 < j + 1
        BY <2>1
      <3> QED BY <1>1, <3>1 DEF Ordered
    <2>2. ASSUME NEW i \in 1 .. Len(t) PROVE Head(s) < t[i]
      <3>1. 1 < i + 1
        OBVIOUS
      <3> QED BY <1>1, <3>1 DEF Ordered
    <2> QED BY <2>1, <2>2 DEF Ordered
  <1>4. \A n : Upto(s, n) => Upto(t, n) /\ Head(s) <= n
    BY <1>1 DEF Upto
  <1>5. \A u : Precedes(u, s) => Precedes(u, t) /\ \A i \in 1 .. Len(u) : u[i] < Head(s)
    BY <1>1 DEF Precedes
  <1>6. \A u : Precedes(s, u) => Precedes(t, u) /\ \A i \in 1 .. Len(u) : Head(s) < u[i]
    BY <1>1 DEF Precedes
  <1> QED BY <1>2, <1>3, <1>4, <1>5, <1>6

(* A read takes the first n characters.                                    *)
Splits(s, n, a, b) == a = SubSeq(s, 1, n) /\ b = SubSeq(s, n + 1, Len(s))

LEMMA SplitFacts ==
    ASSUME NEW s \in CharSeqs, NEW n \in 1 .. Len(s), NEW a, NEW b, Splits(s, n, a, b)
    PROVE  /\ a \in CharSeqs /\ b \in CharSeqs /\ Len(a) = n /\ Len(b) = Len(s) - n
           /\ Len(s) \in Nat /\ n \in Nat
           /\ \A i \in 1 .. n : a[i] = s[i] /\ i \in 1 .. Len(s)
           /\ \A i \in 1 .. Len(b) : b[i] = s[n + i] /\ n + i \in 1 .. Len(s)
  <1>0. Len(s) \in Nat /\ n \in Nat /\ n <= Len(s)
    BY DEF CharSeqs
  <1> DEFINE S == 1 .. MaxTyped
  <1>c. s \in Seq(S)
    BY DEF CharSeqs
  <1> HIDE DEF S
  <1>1. /\ a \in Seq(S) /\ Len(a) = n - 1 + 1
        /\ \A i \in 1 .. n - 1 + 1 : a[i] = s[1 + i - 1]
    <2>1. 1 \in 1 .. Len(s) + 1 /\ n \in 1 - 1 .. Len(s)
      BY <1>0
    <2> QED BY <1>c, <2>1, AnySubSeq DEF Splits
  <1>2. /\ b \in Seq(S) /\ Len(b) = Len(s) - (n + 1) + 1
        /\ \A i \in 1 .. Len(s) - (n + 1) + 1 : b[i] = s[(n + 1) + i - 1]
    <2>1. n + 1 \in 1 .. Len(s) + 1 /\ Len(s) \in n + 1 - 1 .. Len(s)
      BY <1>0
    <2> QED BY <1>c, <2>1, AnySubSeq DEF Splits
  <1>3. \A i \in 1 .. n : a[i] = s[i] /\ i \in 1 .. Len(s)
    BY <1>0, <1>1
  <1>4. \A i \in 1 .. Len(b) : b[i] = s[n + i] /\ n + i \in 1 .. Len(s)
    BY <1>0, <1>2
  <1>5. a \in CharSeqs /\ b \in CharSeqs
    BY <1>1, <1>2 DEF S, CharSeqs
  <1> QED BY <1>0, <1>1, <1>2, <1>3, <1>4, <1>5

LEMMA SplitOrder ==
    ASSUME NEW s \in CharSeqs, NEW n \in 1 .. Len(s), NEW a, NEW b, Splits(s, n, a, b)
    PROVE  /\ \A c : Has(s, c) <=> Has(a, c) \/ Has(b, c)
           /\ Ordered(s) => Ordered(a) /\ Ordered(b) /\ Precedes(a, b)
           /\ \A m : Upto(s, m) => Upto(a, m) /\ Upto(b, m)
           /\ \A u : Precedes(u, s) => Precedes(u, a) /\ Precedes(u, b)
  <1>1. /\ Len(a) = n /\ Len(b) = Len(s) - n
        /\ Len(s) \in Nat /\ n \in Nat
        /\ \A i \in 1 .. n : a[i] = s[i] /\ i \in 1 .. Len(s)
        /\ \A i \in 1 .. Len(b) : b[i] = s[n + i] /\ n + i \in 1 .. Len(s)
    BY SplitFacts
  <1>2. \A c : Has(s, c) <=> Has(a, c) \/ Has(b, c)
    <2>1. ASSUME NEW i \in 1 .. Len(s) PROVE Has(a, s[i]) \/ Has(b, s[i])
      <3>1. CASE i \in 1 .. n
        BY <1>1, <3>1 DEF Has
      <3>2. CASE i \notin 1 .. n
        <4>1. i - n \in 1 .. Len(b) /\ n + (i - n) = i
          BY <1>1, <3>2
        <4>2. b[i - n] = s[i]
          BY <1>1, <4>1
        <4> QED BY <4>1, <4>2 DEF Has
      <3> QED BY <3>1, <3>2
    <2>2. ASSUME NEW c, Has(a, c) \/ Has(b, c) PROVE Has(s, c)
      BY <1>1, <2>2 DEF Has
    <2> QED BY <2>1, <2>2 DEF Has
  <1>3. Ordered(s) => Ordered(a) /\ Ordered(b) /\ Precedes(a, b)
    <2> SUFFICES ASSUME Ordered(s) PROVE Ordered(a) /\ Ordered(b) /\ Precedes(a, b)
      OBVIOUS
    <2>1. Ordered(a)
      BY <1>1 DEF Ordered
    <2>2. ASSUME NEW i \in 1 .. Len(b), NEW j \in 1 .. Len(b), i < j
          PROVE  b[i] < b[j]
      <3>1. n + i < n + j
        BY <1>1, <2>2
      <3> QED BY <1>1, <3>1 DEF Ordered
    <2>3. ASSUME NEW i \in 1 .. Len(a), NEW j \in 1 .. Len(b) PROVE a[i] < b[j]
      <3>1. i < n + j
        BY <1>1
      <3> QED BY <1>1, <3>1 DEF Ordered
    <2> QED BY <2>1, <2>2, <2>3 DEF Ordered, Precedes
  <1>4. \A m : Upto(s, m) => Upto(a, m) /\ Upto(b, m)
    BY <1>1 DEF Upto
  <1>5. \A u : Precedes(u, s) => Precedes(u, a) /\ Precedes(u, b)
    BY <1>1 DEF Precedes
  <1> QED BY <1>2, <1>3, <1>4, <1>5

-----------------------------------------------------------------------------
(* The steps.                                                              *)

LEMMA Numbers ==
    /\ BUF \in Nat \ {0} /\ MaxTyped \in Nat /\ MaxStarts \in Nat
    /\ MaxTermFails \in Nat
  BY TerminalAssumption

LEMMA AnyElement ==
    ASSUME NEW S, NEW s \in Seq(S)
    PROVE  \A i \in 1 .. Len(s) : s[i] \in S
  OBVIOUS

LEMMA CharsAreNumbers ==
    ASSUME NEW q \in CharSeqs
    PROVE  \A i \in 1 .. Len(q) : q[i] \in Nat
  <1> DEFINE C == 1 .. MaxTyped
  <1>1. q \in Seq(C) /\ C \subseteq Nat
    BY Numbers DEF CharSeqs
  <1> HIDE DEF C
  <1> QED BY <1>1, AnyElement

(* A step that leaves the characters where they are.                       *)
LEMMA CharsKept ==
    ASSUME TerminalInv, UNCHANGED <<pty, str, typed, sent, lost>>, starts' >= starts,
           starts \in Nat, starts' \in Nat
    PROVE  OrderInv' /\ AllThere'
  BY DEF TerminalInv, OrderInv, AllThere, Ordered, Precedes, Upto, Has

LEMMA StartStep ==
    ASSUME TerminalInv, osd_terminal_start
    PROVE  TerminalInv'
  <1>0. TerminalTypes /\ OwnerInv /\ OrderInv /\ AllThere
    BY DEF TerminalInv
  <1>1. /\ stopping = "no" /\ ctx = "conn" /\ ~running /\ thread \in {"none", "joined"}
        /\ starts \in Nat /\ starts' = starts + 1 /\ starts' \in 0 .. MaxStarts
        /\ starts' > starts /\ starts' # 0
        /\ stopped' = "never" /\ UNCHANGED <<ctx, str, typed, sent, lost, stopping>>
        /\ termFails' \in 0 .. MaxTermFails /\ uart' \in BOOLEAN
    <2>1. /\ stopping = "no" /\ ctx = "conn" /\ ~running /\ thread \in {"none", "joined"}
          /\ starts' = starts + 1 /\ starts < MaxStarts
          /\ stopped' = "never" /\ UNCHANGED <<ctx, str, typed, sent, lost, stopping>>
      BY DEF osd_terminal_start, Owner
    <2>2. starts \in Nat /\ starts' \in 0 .. MaxStarts /\ starts' > starts /\ starts' # 0
      BY <1>0, <2>1, Numbers DEF TerminalTypes
    <2>3. termFails' \in 0 .. MaxTermFails
      <3>1. Fails \/ UNCHANGED termFails
        BY DEF osd_terminal_start
      <3> QED BY <1>0, <3>1, Numbers DEF Fails, TerminalTypes
    <2>4. uart' \in BOOLEAN
      BY <1>0 DEF osd_terminal_start, TerminalTypes
    <2> QED BY <2>1, <2>2, <2>3, <2>4
  <1>2. str = <<>>
    BY <1>0, <1>1 DEF OwnerInv
  <1>3. CASE /\ running' = TRUE /\ fd' = TRUE /\ thread' = "loop" /\ pty' = <<>>
    <2>1. TerminalTypes'
      BY <1>0, <1>1, <1>3, EmptyFacts DEF TerminalTypes
    <2>2. OwnerInv'
      BY <1>0, <1>1, <1>2, <1>3 DEF OwnerInv, Exists
    <2>3. OrderInv'
      BY <1>0, <1>1, <1>3, EmptyFacts DEF OrderInv
    <2>4. AllThere'
      <3>1. CASE starts = 0
        <4>1. Len(typed') = 0
          BY <1>0, <1>1, <3>1 DEF OwnerInv
        <4> QED BY <4>1 DEF AllThere
      <3>2. CASE starts # 0
        <4>1. starts' > 1
          BY <1>1, <3>2
        <4> QED BY <4>1 DEF AllThere
      <3> QED BY <3>1, <3>2
    <2> QED BY <2>1, <2>2, <2>3, <2>4 DEF TerminalInv
  <1>4. CASE UNCHANGED <<fd, thread, pty>> /\ running' \in BOOLEAN
    <2>1. TerminalTypes'
      BY <1>0, <1>1, <1>4 DEF TerminalTypes
    <2>2. OwnerInv'
      BY <1>0, <1>1, <1>2, <1>4 DEF OwnerInv, Exists
    <2>3. OrderInv' /\ AllThere'
      BY <1>1, <1>4, CharsKept
    <2> QED BY <2>1, <2>2, <2>3 DEF TerminalInv
  <1>5. running' \in BOOLEAN
    BY <1>0 DEF osd_terminal_start, TerminalTypes
  <1> QED BY <1>3, <1>4, <1>5 DEF osd_terminal_start

(* The calls of the owner besides the start.                               *)
LEMMA OwnerStep ==
    ASSUME TerminalInv,
           \/ terminal_connect \/ osd_terminal_stop \/ StopStep
           \/ terminal_disconnect \/ terminal_free
    PROVE  TerminalInv'
  <1>0. TerminalTypes /\ OwnerInv
    BY DEF TerminalInv
  <1>1. UNCHANGED <<pty, str, typed, sent, lost, starts>>
    BY DEF terminal_connect, osd_terminal_stop, StopStep, StopClearsFlag, StopJoins,
       terminal_disconnect, terminal_free
  <1>2. OrderInv' /\ AllThere'
    BY <1>0, <1>1, CharsKept DEF TerminalTypes
  <1>f. Fails => termFails' \in 0 .. MaxTermFails
    BY <1>0, Numbers DEF Fails, TerminalTypes
  <1>3. CASE terminal_connect
    <2>1. TerminalTypes'
      BY <1>0, <1>1, <1>3, <1>f DEF terminal_connect, TerminalTypes
    <2>2. OwnerInv'
      BY <1>0, <1>1, <1>3 DEF terminal_connect, Owner, OwnerInv, Exists
    <2> QED BY <1>2, <2>1, <2>2 DEF TerminalInv
  <1>4. CASE osd_terminal_stop
    <2>1. TerminalTypes'
      BY <1>0, <1>1, <1>4 DEF osd_terminal_stop, TerminalTypes
    <2>2. OwnerInv'
      BY <1>0, <1>1, <1>4 DEF osd_terminal_stop, Owner, OwnerInv, Exists
    <2> QED BY <1>2, <2>1, <2>2 DEF TerminalInv
  <1>5. CASE StopClearsFlag
    <2>1. TerminalTypes'
      BY <1>0, <1>1, <1>5, <1>f DEF StopClearsFlag, TerminalTypes
    <2>2. OwnerInv'
      BY <1>0, <1>1, <1>5 DEF StopClearsFlag, OwnerInv, Exists
    <2> QED BY <1>2, <2>1, <2>2 DEF TerminalInv
  <1>6. CASE StopJoins
    <2>1. TerminalTypes'
      BY <1>0, <1>1, <1>6 DEF StopJoins, TerminalTypes
    <2>2. OwnerInv'
      BY <1>0, <1>1, <1>6 DEF StopJoins, OwnerInv, Exists
    <2> QED BY <1>2, <2>1, <2>2 DEF TerminalInv
  <1>7. CASE terminal_disconnect
    <2>1. TerminalTypes'
      BY <1>0, <1>1, <1>7, <1>f DEF terminal_disconnect, TerminalTypes
    <2>2. OwnerInv'
      BY <1>0, <1>1, <1>7 DEF terminal_disconnect, Owner, OwnerInv, Exists
    <2> QED BY <1>2, <2>1, <2>2 DEF TerminalInv
  <1>8. CASE terminal_free
    <2>1. TerminalTypes'
      BY <1>0, <1>1, <1>8 DEF terminal_free, TerminalTypes
    <2>2. OwnerInv'
      BY <1>0, <1>1, <1>8 DEF terminal_free, Owner, OwnerInv, Exists
    <2> QED BY <1>2, <2>1, <2>2 DEF TerminalInv
  <1> QED BY <1>3, <1>4, <1>5, <1>6, <1>7, <1>8 DEF StopStep

(* Character c, the next one, is typed.                                    *)
LEMMA TypeOne ==
    ASSUME TerminalInv, fd, NEW c \in 1 .. MaxTyped, c = Len(typed) + 1,
           NEW s, NEW p, s = Append(typed, c), p = Append(pty, c),
           typed' = s, pty' = p,
           UNCHANGED <<ctx, running, fd, thread, str, sent, lost, uart, stopping,
                       stopped, starts, termFails>>
    PROVE  TerminalInv'
  <1>0. TerminalTypes /\ OwnerInv /\ OrderInv /\ AllThere
    BY DEF TerminalInv
  <1>1. typed \in CharSeqs /\ pty \in CharSeqs /\ sent \in CharSeqs /\ str \in CharSeqs
    BY <1>0 DEF TerminalTypes
  <1>2. s \in CharSeqs /\ Len(s) = Len(typed) + 1 /\ Len(typed) \in Nat
    BY <1>1, AppendFacts
  <1>3. p \in CharSeqs
    BY <1>1, AppendFacts
  <1>4. TerminalTypes'
    <2>1. Len(s) <= MaxTyped
      BY <1>2, Numbers
    <2> QED BY <1>0, <1>2, <1>3, <2>1 DEF TerminalTypes
  <1>5. OwnerInv'
    BY <1>0 DEF OwnerInv, Exists
  <1>6. ASSUME NEW q \in CharSeqs, Upto(q, Len(typed))
        PROVE  Upto(q, Len(s)) /\ \A i \in 1 .. Len(q) : q[i] < c
    <2>1. \A i \in 1 .. Len(q) : q[i] \in Nat
      BY CharsAreNumbers
    <2> QED BY <1>2, <1>6, <2>1 DEF Upto
  <1>7. OrderInv'
    <2>1. Upto(sent, Len(typed)) /\ Upto(str, Len(typed)) /\ Upto(pty, Len(typed))
      BY <1>0 DEF OrderInv
    <2>2. /\ Upto(sent, Len(s)) /\ \A i \in 1 .. Len(sent) : sent[i] < c
          /\ Upto(str, Len(s)) /\ \A i \in 1 .. Len(str) : str[i] < c
          /\ Upto(pty, Len(s)) /\ \A i \in 1 .. Len(pty) : pty[i] < c
      BY <1>1, <1>6, <2>1
    <2>3. c <= Len(s) /\ Len(s) \in Nat
      BY <1>2
    <2>4. Ordered(p) /\ Upto(p, Len(s)) /\ Precedes(sent, p) /\ Precedes(str, p)
      <3>1. /\ Ordered(pty) /\ (\A i \in 1 .. Len(pty) : pty[i] < c) => Ordered(p)
            /\ \A n \in Nat : Upto(pty, n) /\ c <= n => Upto(p, n)
            /\ \A u : Precedes(u, pty) /\ (\A i \in 1 .. Len(u) : u[i] < c) => Precedes(u, p)
        <4>1. Longer(pty, c, p)
          BY DEF Longer
        <4> QED BY <1>1, <4>1, AppendOrder
      <3> QED BY <1>0, <2>2, <2>3, <3>1 DEF OrderInv
    <2> QED BY <1>0, <2>2, <2>4 DEF OrderInv
  <1>8. AllThere'
    <2>1. \A d : Has(p, d) <=> Has(pty, d) \/ d = c
      <3>1. Longer(pty, c, p)
        BY DEF Longer
      <3> QED BY <1>1, <3>1, AppendHas
    <2>2. \A d \in 1 .. Len(s) : d \in 1 .. Len(typed) \/ d = c
      BY <1>2
    <2> QED BY <1>0, <2>1, <2>2 DEF AllThere
  <1> QED BY <1>4, <1>5, <1>7, <1>8 DEF TerminalInv

LEMMA TypeStep ==
    ASSUME TerminalInv, Type
    PROVE  TerminalInv'
  <1> DEFINE c == Len(typed) + 1
  <1>1. c \in 1 .. MaxTyped
    <2>1. Len(typed) \in Nat
      BY DEF TerminalInv, TerminalTypes, CharSeqs
    <2> QED BY <2>1, Numbers DEF Type
  <1>2. /\ fd /\ typed' = Append(typed, c) /\ pty' = Append(pty, c)
        /\ UNCHANGED <<ctx, running, fd, thread, str, sent, lost, uart, stopping,
                       stopped, starts, termFails>>
    BY DEF Type
  <1>3. c = Len(typed) + 1
    OBVIOUS
  <1> HIDE DEF c
  <1> QED BY <1>1, <1>2, <1>3, TypeOne

(* The thread takes the first n characters.                                *)
LEMMA ReadSome ==
    ASSUME TerminalInv, thread = "read", NEW n \in 1 .. Len(pty), n <= BUF,
           NEW a, NEW b, Splits(pty, n, a, b), str' = a, pty' = b,
           thread' = "send", UNCHANGED termFails,
           UNCHANGED <<ctx, running, fd, typed, sent, lost, uart, stopping, stopped, starts>>
    PROVE  TerminalInv'
  <1>0. TerminalTypes /\ OwnerInv /\ OrderInv /\ AllThere
    BY DEF TerminalInv
  <1>1. pty \in CharSeqs
    BY <1>0 DEF TerminalTypes
  <1>2. /\ a \in CharSeqs /\ b \in CharSeqs /\ Len(a) = n
        /\ Len(b) = Len(pty) - n /\ n \in Nat /\ Len(pty) \in Nat
    BY <1>1, SplitFacts
  <1>3. /\ \A c : Has(pty, c) <=> Has(a, c) \/ Has(b, c)
        /\ Ordered(pty) => Ordered(a) /\ Ordered(b) /\ Precedes(a, b)
        /\ \A m : Upto(pty, m) => Upto(a, m) /\ Upto(b, m)
        /\ \A u : Precedes(u, pty) => Precedes(u, a) /\ Precedes(u, b)
    BY <1>1, SplitOrder
  <1>4. str = <<>>
    BY <1>0 DEF OwnerInv
  <1>5. TerminalTypes'
    BY <1>0, <1>2 DEF TerminalTypes
  <1>6. OwnerInv'
    <2>1. a # <<>>
      BY <1>2
    <2> QED BY <1>0, <2>1 DEF OwnerInv, Exists
  <1>7. OrderInv'
    BY <1>0, <1>3 DEF OrderInv
  <1>8. AllThere'
    <2>1. \A c : ~Has(str, c)
      BY <1>4, EmptyFacts
    <2> QED BY <1>0, <1>3, <2>1 DEF AllThere
  <1> QED BY <1>5, <1>6, <1>7, <1>8 DEF TerminalInv

LEMMA ReadStep ==
    ASSUME TerminalInv, TxRead
    PROVE  TerminalInv'
  <1>0. TerminalTypes /\ OwnerInv
    BY DEF TerminalInv
  <1>1. /\ thread = "read"
        /\ UNCHANGED <<ctx, running, fd, typed, sent, lost, uart, stopping, stopped, starts>>
    BY DEF TxRead
  <1>2. CASE Fails /\ thread' = "loop" /\ UNCHANGED <<str, pty>>
    <2>1. TerminalTypes'
      BY <1>0, <1>1, <1>2, Numbers DEF TerminalTypes, Fails
    <2>2. OwnerInv'
      BY <1>0, <1>1, <1>2 DEF OwnerInv, Exists
    <2>3. OrderInv' /\ AllThere'
      BY <1>0, <1>1, <1>2, CharsKept DEF TerminalTypes
    <2> QED BY <2>1, <2>2, <2>3 DEF TerminalInv
  <1>3. ASSUME NEW n \in 1 .. (IF Len(pty) < BUF THEN Len(pty) ELSE BUF),
               str' = SubSeq(pty, 1, n), pty' = SubSeq(pty, n + 1, Len(pty)),
               thread' = "send", UNCHANGED termFails
        PROVE  TerminalInv'
    <2>1. n \in 1 .. Len(pty) /\ n <= BUF
      <3>1. Len(pty) \in Nat
        BY <1>0 DEF TerminalTypes, CharSeqs
      <3> QED BY <3>1, Numbers
    <2>2. Splits(pty, n, str', pty')
      BY <1>3 DEF Splits
    <2> DEFINE a == str'
               b == pty'
    <2>3. Splits(pty, n, a, b) /\ str' = a /\ pty' = b
      BY <2>2
    <2> HIDE DEF a, b
    <2> QED BY <1>1, <1>3, <2>1, <2>3, ReadSome
  <1> QED BY <1>2, <1>3 DEF TxRead

LEMMA SendStep ==
    ASSUME TerminalInv, osd_cl_dem_uart_send_string
    PROVE  TerminalInv'
  <1>0. TerminalTypes /\ OwnerInv /\ OrderInv /\ AllThere
    BY DEF TerminalInv
  <1>1. /\ thread = "send" /\ str # <<>> /\ str \in CharSeqs /\ sent \in CharSeqs /\ pty \in CharSeqs
        /\ UNCHANGED <<ctx, running, fd, pty, typed, uart, stopping, stopped, starts>>
    BY <1>0 DEF osd_cl_dem_uart_send_string, OwnerInv, TerminalTypes
  <1>2. CASE /\ sent' = Append(sent, Head(str)) /\ str' = Tail(str)
             /\ thread' = IF Len(str) = 1 THEN "loop" ELSE "send"
             /\ UNCHANGED <<lost, termFails>>
    <2>1. /\ str' \in CharSeqs /\ Len(str') = Len(str) - 1 /\ Len(str) \in Nat /\ Len(str) > 0
          /\ Head(str) \in 1 .. MaxTyped
      BY <1>1, <1>2, TailFacts
    <2>2. sent' \in CharSeqs
      BY <1>1, <1>2, <2>1, AppendFacts
    <2>3. /\ \A c : Has(str, c) <=> Has(str', c) \/ c = Head(str)
          /\ Ordered(str) => Ordered(str') /\ \A i \in 1 .. Len(str') : Head(str) < str'[i]
          /\ \A n : Upto(str, n) => Upto(str', n) /\ Head(str) <= n
          /\ \A u : Precedes(u, str) =>
                Precedes(u, str') /\ \A i \in 1 .. Len(u) : u[i] < Head(str)
          /\ \A u : Precedes(str, u) =>
                Precedes(str', u) /\ \A i \in 1 .. Len(u) : Head(str) < u[i]
      BY <1>1, <1>2, TailOrder
    <2>4. TerminalTypes'
      BY <1>0, <1>1, <1>2, <2>1, <2>2, Numbers DEF TerminalTypes
    <2>5. OwnerInv'
      <3>1. str' = <<>> <=> Len(str) = 1
        BY <2>1 DEF CharSeqs
      <3> QED BY <1>0, <1>1, <1>2, <3>1 DEF OwnerInv, Exists
    <2>6. Len(typed) \in Nat
      BY <1>0 DEF TerminalTypes, CharSeqs
    <2>7. OrderInv'
      <3>1. /\ Ordered(str') /\ Precedes(str', pty) /\ Upto(str', Len(typed))
            /\ \A i \in 1 .. Len(sent) : sent[i] < Head(str)
            /\ \A i \in 1 .. Len(str') : Head(str) < str'[i]
            /\ \A i \in 1 .. Len(pty) : Head(str) < pty[i]
            /\ Head(str) <= Len(typed) /\ Precedes(sent, str')
        BY <1>0, <2>3 DEF OrderInv
      <3>2. /\ Ordered(sent') /\ Upto(sent', Len(typed))
            /\ Precedes(sent', str') /\ Precedes(sent', pty)
        <4>1. Longer(sent, Head(str), sent')
          BY <1>2 DEF Longer
        <4> QED BY <1>0, <1>1, <2>1, <2>6, <3>1, <4>1, AppendOrder DEF OrderInv
      <3> QED BY <1>0, <1>1, <3>1, <3>2 DEF OrderInv
    <2>8. AllThere'
      <3>1. \A c : Has(sent', c) <=> Has(sent, c) \/ c = Head(str)
        <4>1. Longer(sent, Head(str), sent')
          BY <1>2 DEF Longer
        <4> QED BY <1>1, <2>1, <4>1, AppendHas
      <3> QED BY <1>0, <1>1, <1>2, <2>3, <3>1 DEF AllThere
    <2> QED BY <2>4, <2>5, <2>7, <2>8 DEF TerminalInv
  <1>3. CASE /\ Fails /\ lost' = lost \cup {str[i] : i \in DOMAIN str} /\ str' = <<>>
             /\ thread' = "loop" /\ UNCHANGED sent
    <2> DEFINE C == 1 .. MaxTyped
    <2>0. str \in Seq(C)
      BY <1>1 DEF CharSeqs
    <2> HIDE DEF C
    <2>c. DOMAIN str = 1 .. Len(str) /\ \A i \in 1 .. Len(str) : str[i] \in C
      BY <2>0
    <2>1. DOMAIN str = 1 .. Len(str) /\ \A i \in 1 .. Len(str) : str[i] \in 1 .. MaxTyped
      BY <2>c DEF C
    <2>2. TerminalTypes'
      <3>1. lost' \subseteq 1 .. MaxTyped
        BY <1>0, <1>3, <2>1 DEF TerminalTypes
      <3>2. Len(str') <= BUF
        BY <1>3, EmptyFacts, Numbers
      <3>3. str' \in CharSeqs
        BY <1>3, EmptyFacts
      <3>4. termFails' \in 0 .. MaxTermFails
        BY <1>0, <1>3, Numbers DEF TerminalTypes, Fails
      <3> QED BY <1>0, <1>1, <1>3, <3>1, <3>2, <3>3, <3>4 DEF TerminalTypes
    <2>3. OwnerInv'
      BY <1>0, <1>1, <1>3 DEF OwnerInv, Exists
    <2>4. OrderInv'
      BY <1>0, <1>1, <1>3, EmptyFacts DEF OrderInv
    <2>5. AllThere'
      <3>1. \A c : Has(str, c) => c \in lost'
        BY <1>3, <2>1 DEF Has
      <3>2. \A c : c \in lost => c \in lost'
        BY <1>3
      <3> QED BY <1>0, <1>1, <1>3, <3>1, <3>2 DEF AllThere
    <2> QED BY <2>2, <2>3, <2>4, <2>5 DEF TerminalInv
  <1> QED BY <1>2, <1>3 DEF osd_cl_dem_uart_send_string

LEMMA LoopStep ==
    ASSUME TerminalInv, TxLoop \/ TxPoll
    PROVE  TerminalInv'
  <1>0. TerminalTypes /\ OwnerInv
    BY DEF TerminalInv
  <1>1. /\ thread \in {"loop", "poll"} /\ thread' \in {"poll", "ended", "read", "loop"}
        /\ termFails' = termFails \/ Fails
        /\ UNCHANGED <<ctx, running, fd, pty, str, typed, sent, lost, uart, stopping,
                       stopped, starts>>
    BY DEF TxLoop, TxPoll
  <1>2. TerminalTypes'
    BY <1>0, <1>1, Numbers DEF TerminalTypes, Fails
  <1>3. OwnerInv'
    BY <1>0, <1>1 DEF OwnerInv, Exists
  <1>4. OrderInv' /\ AllThere'
    BY <1>0, <1>1, CharsKept DEF TerminalTypes
  <1> QED BY <1>2, <1>3, <1>4 DEF TerminalInv

LEMMA Inductive == TerminalInv /\ [TermNext]_termVars => TerminalInv'
  <1>1. ASSUME TerminalInv, TermNext PROVE TerminalInv'
    BY <1>1, StartStep, OwnerStep, TypeStep, ReadStep, SendStep, LoopStep
    DEF TermNext, TxStep
  <1>2. ASSUME TerminalInv, UNCHANGED termVars PROVE TerminalInv'
    BY <1>2 DEF termVars, TerminalInv, TerminalTypes, OwnerInv, Exists, OrderInv, AllThere, Ordered,
       Precedes, Upto, Has
  <1> QED BY <1>1, <1>2

LEMMA Initially == TermInit => TerminalInv
  <1> SUFFICES ASSUME TermInit PROVE TerminalInv
    OBVIOUS
  <1> USE DEF TermInit
  <1>1. TerminalTypes
    <2>1. <<>> \in CharSeqs /\ Len(<<>>) = 0
      BY EmptyFacts
    <2>2. 0 <= BUF /\ 0 <= MaxTyped /\ 0 \in 0 .. MaxStarts /\ 0 \in 0 .. MaxTermFails
      BY Numbers
    <2> QED BY <2>1, <2>2 DEF TerminalTypes
  <1>2. OwnerInv
    BY DEF OwnerInv, Exists
  <1>3. OrderInv
    BY EmptyFacts DEF OrderInv
  <1>4. AllThere
    BY EmptyFacts DEF AllThere
  <1> QED BY <1>1, <1>2, <1>3, <1>4 DEF TerminalInv

(* A stop that succeeded leaves no thread and no pseudo-terminal behind,   *)
(* and the thread of terminal_tx_thread() never works without either: the  *)
(* owner waits for it before it closes what the thread uses.               *)
THEOREM StopsAreClean == TermSpec => []StopIsClean
  <1>1. TerminalInv => StopIsClean
    BY DEF TerminalInv, OwnerInv, Exists, StopIsClean, ThreadRuns
  <1> QED BY <1>1, Initially, Inductive, PTL DEF TermSpec

(* What is typed is sent once and in its order, and unless sending failed  *)
(* or the terminal was started again, it is sent or still waits; and a     *)
(* stop is a clean one.                                                    *)
THEOREM CleanTerminal == TermSpec => []TerminalIsClean
  <1>1. TerminalInv => TerminalIsClean
    <2> SUFFICES ASSUME TerminalInv PROVE TerminalIsClean
      OBVIOUS
    <2>0. TerminalTypes /\ OwnerInv /\ OrderInv /\ AllThere
      BY DEF TerminalInv
    <2>1. TermTypeOK
      BY <2>0 DEF TermTypeOK, TerminalTypes, CharSeqs
    <2>2. TypedIsSent
      <3>1. /\ DOMAIN sent = 1 .. Len(sent) /\ DOMAIN str = 1 .. Len(str)
            /\ DOMAIN pty = 1 .. Len(pty)
        BY <2>0 DEF TerminalTypes, CharSeqs
      <3>2. \A i, j \in DOMAIN sent : i < j => sent[i] < sent[j]
        BY <2>0, <3>1 DEF OrderInv, Ordered
      <3> QED BY <2>0, <3>1, <3>2 DEF TypedIsSent, AllThere, Has
    <2>3. StopIsClean
      BY <2>0 DEF OwnerInv, Exists, StopIsClean, ThreadRuns
    <2> QED BY <2>1, <2>2, <2>3 DEF TerminalIsClean
  <1> QED BY <1>1, Initially, Inductive, PTL DEF TermSpec
=============================================================================
