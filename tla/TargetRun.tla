------------------------------ MODULE TargetRun ------------------------------
(* The tools osd-target-run, osd-host-controller and osd-device-gateway,   *)
(* with the trace loggers and the terminal that osd-target-run uses. The   *)
(* main thread builds up its objects, waits for a signal and takes them    *)
(* down again; meanwhile the I/O threads of the loggers write the events   *)
(* of the trace modules to files, and the terminal's thread sends what is  *)
(* typed. Every call can fail. A call is one step here: its register       *)
(* accesses are the subject of RegClients and HostMod, and the effects a   *)
(* failed call leaves behind are alternatives of its step.                 *)
EXTENDS Integers, Sequences, FiniteSets

CONSTANTS
    Tools,          \* the tools that are run
    OptionSets,     \* subsets of {"coretrace", "systrace", "terminal"}
    EventKinds,     \* what a trace event carries: "char", "nl" or "trace"
    MaxEvents,      \* bound: events of the device
    MaxToolFails    \* bound: calls that fail

ASSUME TargetRunAssumption ==
    /\ Tools \subseteq {"target-run", "host-controller", "device-gateway"}
    /\ OptionSets \subseteq SUBSET {"coretrace", "systrace", "terminal"}
    /\ EventKinds \subseteq {"char", "nl", "trace"}
    /\ MaxEvents \in Nat /\ MaxToolFails \in Nat

VARIABLES
    tool, opts, pc,
    obj,        \* contexts: "null", "undef" (uninitialised), "new", "on", "freed"
    module,     \* the trace modules and the UART: what their registers say
    files,      \* log files: "none", "open", "closed"
    sysprint_buf, printlog,     \* contents of the print buffer and its file
    prints,     \* ghost: print events handled, in order
    cpus,       \* "free", "stopped" or "started" by the tool
    tx,         \* the terminal's thread: "none", "poll", "send", "ended"
    interrupted,
    crash,      \* what has ended the process
    cause,      \* ghost: calls that failed
    events, toolFails

toolVars == <<tool, opts, pc, obj, module, files, sysprint_buf, printlog,
              prints, cpus, tx, interrupted, crash, cause, events, toolFails>>
logVars == <<sysprint_buf, printlog, prints>>
envVars == <<tool, opts, interrupted, events>>

Objects == {"hostctrl", "gateway", "mem", "enum", "st", "ct", "term"}
Loggers == {"st", "ct"}
Hosts == {"st", "ct", "term"}
Alive == crash = "" /\ pc # "end"
Silent == [active |-> FALSE, dest |-> FALSE]

ToolTypeOK ==
    /\ tool \in Tools /\ opts \in OptionSets
    /\ obj \in [Objects -> {"null", "undef", "new", "on", "freed"}]
    /\ module \in [Hosts -> [active : BOOLEAN, dest : BOOLEAN]]
    /\ files \in [Loggers -> {"none", "open", "closed"}]
    /\ {sysprint_buf, printlog, prints} \subseteq Seq(1 .. MaxEvents)
    /\ cpus \in {"free", "stopped", "started"} /\ tx \in {"none", "poll", "send", "ended"}
    /\ events \in 0 .. MaxEvents /\ toolFails \in 0 .. MaxToolFails

(* Globals are zero; the other tools have local pointers.                  *)
ToolInit ==
    /\ tool \in Tools /\ opts \in OptionSets
    /\ pc = CASE tool = "target-run" -> "hostctrl" [] tool = "host-controller" -> "hc_new"
              [] tool = "device-gateway" -> "dg_options"
    /\ obj = [o \in Objects |-> IF tool = "target-run" /\ o # "enum" THEN "null" ELSE "undef"]
    /\ module = [h \in Hosts |-> Silent] /\ files = [l \in Loggers |-> "none"]
    /\ sysprint_buf = <<>> /\ printlog = <<>>
    /\ prints = <<>>
    /\ cpus = "free" /\ tx = "none" /\ interrupted = FALSE
    /\ crash = "" /\ cause = {} /\ events = 0 /\ toolFails = 0

(* A step of the main thread at p, what it leaves of the objects, and      *)
(* where it goes on.                                                       *)
At(p) == Alive /\ pc = p
OK(os, next) ==
    /\ obj' = os /\ pc' = next
    /\ UNCHANGED <<envVars, crash, cause, toolFails>>
Failed(name, os, next) ==
    /\ toolFails < MaxToolFails /\ toolFails' = toolFails + 1
    /\ cause' = cause \cup {name}
    /\ obj' = os /\ pc' = next
    /\ UNCHANGED <<envVars, crash>>
Dies(how) ==
    /\ crash' = how /\ UNCHANGED <<envVars, pc, obj, cause, toolFails>>
FailsAndDies(name, how) ==
    /\ toolFails < MaxToolFails /\ toolFails' = toolFails + 1
    /\ cause' = cause \cup {name} /\ crash' = how
    /\ UNCHANGED <<envVars, pc, obj>>
Set(o, s) == [obj EXCEPT ![o] = s]
Quiet == UNCHANGED <<module, files, logVars, cpus, tx>>

(* osd_hostmod_free(): it asserts that the host module is disconnected.    *)
FreeHostmod(o, next) ==
    \/ obj[o] # "on" /\ OK(Set(o, "freed"), next)
    \/ obj[o] = "on" /\ Dies("assert")
-----------------------------------------------------------------------------
run_hostctrl ==
    /\ At("hostctrl") /\ Quiet
    /\ \/ OK(Set("hostctrl", "on"), "gateway")
       \/ Failed("hostctrl_new", obj, "cleanup")
       \/ Failed("hostctrl_start", Set("hostctrl", "new"), "cleanup")

run_gateway_glip ==
    /\ At("gateway") /\ Quiet
    /\ \/ OK(Set("gateway", "on"), "memaccess")
       \/ Failed("gateway_new", obj, "cleanup")
       \/ Failed("gateway_connect", Set("gateway", "new"), "cleanup")

osd_memaccess_connect ==
    /\ At("memaccess") /\ Quiet
    /\ \/ OK(Set("mem", "on"), "cpus_stop")
       \/ Failed("mem_connect", Set("mem", "new"), "cleanup")

osd_memaccess_cpus_stop ==
    /\ At("cpus_stop") /\ UNCHANGED <<module, files, logVars, tx>>
    /\ \/ OK(obj, "tracing") /\ cpus' = "stopped"
       \/ Failed("cpus_stop", obj, "cleanup") /\ cpus' \in {cpus, "stopped"}

(* run_tracing(): the goto behind a failed connect skips the initialiser   *)
(* of the pointer that is freed then. A failed enumeration frees a         *)
(* connected host module.                                                  *)
run_tracing ==
    /\ At("tracing") /\ Quiet
    /\ \/ OK(Set("enum", "on"), "ct")
       \/ Failed("enum_connect", Set("enum", "freed"), "cleanup")
       \/ FailsAndDies("enum_connect", "undefined")
       \/ FailsAndDies("get_modules", "assert")

(* On an error the host module of the enumeration is left as it is.        *)
TracingDone ==
    /\ At("tracing_done") /\ Quiet
    /\ \/ OK(Set("enum", "freed"), "terminal")
       \/ Failed("enum_disconnect", obj, "cleanup")

Pc == [ct |-> [files |-> "ct_files", start |-> "ct_start", undo |-> "ct_undo",
               stop |-> "ct_stop", disconnect |-> "ct_disconnect", free |-> "ct_free"],
       st |-> [files |-> "st_files", start |-> "st_start", undo |-> "st_undo",
               stop |-> "st_stop", disconnect |-> "st_disconnect", free |-> "st_free"]]
Option(l) == IF l = "ct" THEN "coretrace" ELSE "systrace"
After(l) == IF l = "ct" THEN "st" ELSE "tracing_done"

SkipLogger(l) ==
    /\ At(l) /\ Option(l) \notin opts /\ Quiet
    /\ OK(obj, After(l))

(* osd_coretracelogger_new(), osd_systracelogger_new() and their connect.  *)
ConnectLogger(l) ==
    /\ At(l) /\ Option(l) \in opts /\ Quiet
    /\ \/ OK(Set(l, "on"), Pc[l].files)
       \/ Failed("logger_connect", Set(l, "freed"), "cleanup")

(* The files stay open until the end, also if the logger is given up.      *)
OpenFiles(l) ==
    /\ At(Pc[l].files) /\ UNCHANGED <<module, logVars, cpus, tx>>
    /\ \/ OK(obj, Pc[l].start) /\ files' = [files EXCEPT ![l] = "open"]
       \/ /\ Failed("fopen", obj, Pc[l].undo)
          /\ files' \in {files, [files EXCEPT ![l] = "open"]}

(* osd_coretracelogger_start(), osd_systracelogger_start(): a failed       *)
(* register access can have been carried out.                              *)
StartLogger(l) ==
    /\ At(Pc[l].start) /\ UNCHANGED <<files, logVars, cpus, tx>>
    /\ \/ OK(obj, After(l)) /\ module' = [module EXCEPT ![l] = [active |-> TRUE, dest |-> TRUE]]
       \/ /\ Failed("logger_start", obj, Pc[l].undo)
          /\ \E active, dest \in BOOLEAN :
                /\ active => dest
                /\ module' = [module EXCEPT ![l] = [active |-> active, dest |-> dest]]

(* Mutated form: the error path frees the logger without disconnecting it. *)
UndoLogger_connected(l) ==
    /\ At(Pc[l].undo) /\ Quiet /\ FreeHostmod(l, "cleanup")

(* The error path of run_coretrace() and run_systrace().                   *)
UndoLogger(l) ==
    /\ At(Pc[l].undo) /\ Quiet
    /\ \/ OK(Set(l, "freed"), "cleanup")
       \/ FailsAndDies("logger_disconnect", "assert")

(* run_terminal(): whatever fails after the host module of the enumeration *)
(* was connected ends in its free.                                         *)
run_terminal ==
    /\ At("terminal") /\ UNCHANGED <<files, logVars, cpus>>
    /\ \/ "terminal" \notin opts /\ OK(obj, "find") /\ UNCHANGED <<module, tx>>
       \/ /\ "terminal" \in opts
          /\ \/ /\ OK([obj EXCEPT !["enum"] = "freed", !["term"] = "on"], "find")
                /\ module' = [module EXCEPT !["term"] = [active |-> TRUE, dest |-> TRUE]]
                /\ tx' = "poll"
             \/ /\ UNCHANGED <<module, tx>>
                /\ \/ Failed("enum_connect", Set("enum", "freed"), "cleanup")
                   \/ FailsAndDies("enum_connect", "undefined")
                   \/ FailsAndDies("terminal", "assert")

osd_memaccess_find_memories_all ==
    /\ At("find") /\ Quiet
    /\ \/ OK(obj, "loadelf") \/ Failed("find_memories", obj, "cleanup")

(* A load that fails is reported, and the program started anyway.          *)
LoadMemories ==
    /\ At("loadelf") /\ Quiet
    /\ \/ OK(obj, "cpus_start") \/ Failed("loadelf", obj, "cpus_start")

osd_memaccess_cpus_start ==
    /\ At("cpus_start") /\ UNCHANGED <<module, files, logVars, tx>>
    /\ \/ OK(obj, "mem_disconnect") /\ cpus' = "started"
       \/ Failed("cpus_start", obj, "cleanup") /\ cpus' \in {cpus, "started"}

osd_memaccess_free ==
    /\ At("mem_disconnect") /\ Quiet
    /\ \/ OK(Set("mem", "freed"), IF opts \cap {"coretrace", "systrace"} = {}
                                  THEN "cleanup" ELSE "wait")
       \/ FailsAndDies("mem_disconnect", "assert")
-----------------------------------------------------------------------------
(* while (!zsys_interrupted) pause(): a signal between the test and the    *)
(* pause is only seen when another one comes.                              *)
AfterWait == CASE tool = "target-run" -> "cleanup" [] tool = "host-controller" -> "hc_stop"
               [] tool = "device-gateway" -> "dg_disconnect"

(* Mutated form: only the pause is left by a signal, not the loop.         *)
Wait_forever ==
    /\ At("wait") /\ Quiet /\ OK(obj, "to_pause")

Wait ==
    /\ At("wait") /\ Quiet
    /\ OK(obj, IF interrupted THEN AfterWait ELSE "to_pause")

Pause ==
    /\ At("to_pause") /\ Quiet /\ OK(obj, "pause")

Signal ==
    /\ Alive /\ interrupted' = TRUE
    /\ pc' = IF pc = "pause" THEN "wait" ELSE pc
    /\ UNCHANGED <<tool, opts, events, obj, crash, cause, toolFails>> /\ Quiet
-----------------------------------------------------------------------------
(* The cleanup of osd-target-run. The terminal is disconnected while its   *)
(* thread goes on and its module sends events.                             *)
osd_terminal_disconnect ==
    /\ At("cleanup") /\ Quiet
    /\ \/ obj["term"] # "on" /\ OK(obj, "st_stop")
       \/ obj["term"] = "on" /\ OK(Set("term", "new"), "term_free")
       \/ obj["term"] = "on" /\ Failed("term_disconnect", obj, "term_free")

osd_terminal_free ==
    /\ At("term_free") /\ Quiet /\ FreeHostmod("term", "st_stop")

Stopped(l) == IF l = "st" THEN "ct_stop" ELSE "files"

(* osd_systracelogger_stop(), osd_coretracelogger_stop(): the result is    *)
(* not looked at, and a timeout counts as success.                         *)
StopLogger(l) ==
    /\ At(Pc[l].stop) /\ UNCHANGED <<files, logVars, cpus, tx>>
    /\ \/ obj[l] # "on" /\ OK(obj, Stopped(l)) /\ UNCHANGED module
       \/ /\ obj[l] = "on" /\ OK(obj, Pc[l].disconnect)
          /\ module' = [module EXCEPT ![l].active = FALSE]
       \/ /\ obj[l] = "on" /\ Failed("logger_stop", obj, Pc[l].disconnect)
          /\ module' \in {module, [module EXCEPT ![l].active = FALSE]}

DisconnectLogger(l) ==
    /\ At(Pc[l].disconnect) /\ Quiet
    /\ \/ OK(Set(l, "new"), Pc[l].free)
       \/ Failed("logger_disconnect", obj, Pc[l].free)

(* Mutated form: what is left in the buffer is thrown away.                *)
FreeLogger_noFlush(l) ==
    /\ At(Pc[l].free) /\ FreeHostmod(l, Stopped(l))
    /\ sysprint_buf' = <<>>
    /\ UNCHANGED <<printlog, module, files, prints, cpus, tx>>

(* The systrace logger writes the rest of its buffer first.                *)
FreeLogger(l) ==
    /\ At(Pc[l].free) /\ FreeHostmod(l, Stopped(l))
    /\ printlog' = IF l = "st" THEN printlog \o sysprint_buf ELSE printlog
    /\ sysprint_buf' = IF l = "st" THEN <<>> ELSE sysprint_buf
    /\ UNCHANGED <<module, files, prints, cpus, tx>>

CloseFiles ==
    /\ At("files") /\ UNCHANGED <<module, logVars, cpus, tx>>
    /\ OK(obj, "gw_disconnect")
    /\ files' = [l \in Loggers |-> IF files[l] = "open" THEN "closed" ELSE files[l]]

(* osd_gateway_glip_disconnect() and osd_gateway_glip_free().              *)
FreeGateway ==
    /\ At("gw_disconnect") /\ Quiet
    /\ \/ obj["gateway"] # "null" /\ OK(Set("gateway", "freed"), "hc_end")
       \/ obj["gateway"] = "null" /\ Dies("null")

(* osd_hostctrl_stop() and osd_hostctrl_free().                            *)
FreeHostctrl ==
    /\ At("hc_end") /\ Quiet
    /\ \/ obj["hostctrl"] # "null" /\ OK(Set("hostctrl", "freed"), "end")
       \/ obj["hostctrl"] = "null" /\ Dies("assert")
       \/ obj["hostctrl"] = "on" /\ FailsAndDies("hostctrl_stop", "assert")
-----------------------------------------------------------------------------
(* osd-host-controller and osd-device-gateway: on an early error they free *)
(* a pointer that was never set.                                           *)
HostControllerStarts ==
    /\ At("hc_new") /\ Quiet
    /\ \/ OK(Set("hostctrl", "on"), "wait")
       \/ Failed("hostctrl_start", Set("hostctrl", "freed"), "end")
       \/ Failed("hostctrl_new", obj, "end") \/ FailsAndDies("hostctrl_new", "undefined")

HostControllerStops ==
    /\ At("hc_stop") /\ Quiet
    /\ \/ OK(Set("hostctrl", "freed"), "end")
       \/ FailsAndDies("hostctrl_stop", "assert")

DeviceGatewayStarts ==
    /\ At("dg_options") /\ Quiet
    /\ \/ OK(Set("gateway", "on"), "wait")
       \/ Failed("gateway_connect", Set("gateway", "freed"), "end")
       \/ Failed("gateway_new", obj, "end") \/ FailsAndDies("gateway_new", "undefined")

DeviceGatewayStops ==
    /\ At("dg_disconnect") /\ Quiet
    /\ OK(Set("gateway", "freed"), "end")
-----------------------------------------------------------------------------
(* The I/O threads: what the handlers do with an event.                    *)
Arrives(h) == module[h].active /\ module[h].dest /\ obj["gateway"] = "on"
              /\ obj["hostctrl"] = "on"
Emit(k) ==
    /\ Alive /\ events < MaxEvents /\ cpus = "started" /\ events' = events + 1
    /\ UNCHANGED <<tool, opts, interrupted, pc, obj, cause, toolFails,
                   module, files, cpus, tx>>

(* stm_event_handler(): prints are collected up to the end of the line.    *)
stm_event_handler(k) ==
    /\ Arrives("st") /\ obj["st"] = "on" /\ Emit(k)
    /\ crash' = IF files["st"] = "open" THEN "" ELSE "closedfile"
    /\ prints' = IF k = "trace" THEN prints ELSE Append(prints, events')
    /\ printlog' = IF k = "nl" THEN printlog \o Append(sysprint_buf, events') ELSE printlog
    /\ sysprint_buf' = CASE k = "nl" -> <<>> [] k = "char" -> Append(sysprint_buf, events')
                          [] k = "trace" -> sysprint_buf

ctm_event_handler(k) ==
    /\ Arrives("ct") /\ obj["ct"] = "on" /\ k = "trace" /\ Emit(k)
    /\ crash' = IF files["ct"] = "open" THEN "" ELSE "closedfile"
    /\ UNCHANGED logVars

handle_rx_data(k) ==
    /\ Arrives("term") /\ obj["term"] = "on" /\ k = "char" /\ Emit(k)
    /\ UNCHANGED <<logVars, crash>>

(* The address of a host that has left is still routed: the router, which  *)
(* is part of the same process, asserts that the host is there.            *)
EventForNobody(h, k) ==
    /\ Arrives(h) /\ obj[h] # "on" /\ Emit(k)
    /\ crash' = "router" /\ UNCHANGED logVars

(* terminal_tx_thread(): it looks at the context in every turn.            *)
terminal_tx_thread ==
    /\ Alive /\ tx \in {"poll", "send"}
    /\ \/ obj["term"] = "freed" /\ crash' = "tx_freed" /\ UNCHANGED tx
       \/ obj["term"] # "freed" /\ tx' \in {"poll", "send"} /\ UNCHANGED crash
    /\ UNCHANGED <<envVars, pc, obj, cause, toolFails, module, files, logVars, cpus>>
-----------------------------------------------------------------------------
MainStep ==
    \/ run_hostctrl \/ run_gateway_glip \/ osd_memaccess_connect
    \/ osd_memaccess_cpus_stop \/ run_tracing \/ TracingDone
    \/ \E l \in Loggers : \/ SkipLogger(l) \/ ConnectLogger(l) \/ OpenFiles(l)
                          \/ StartLogger(l) \/ UndoLogger(l) \/ StopLogger(l)
                          \/ DisconnectLogger(l) \/ FreeLogger(l)
    \/ run_terminal \/ osd_memaccess_find_memories_all \/ LoadMemories
    \/ osd_memaccess_cpus_start \/ osd_memaccess_free \/ Wait \/ Pause
    \/ osd_terminal_disconnect \/ osd_terminal_free
    \/ CloseFiles \/ FreeGateway \/ FreeHostctrl
    \/ HostControllerStarts \/ HostControllerStops
    \/ DeviceGatewayStarts \/ DeviceGatewayStops

ToolNext ==
    \/ MainStep \/ Signal \/ terminal_tx_thread
    \/ \E k \in EventKinds : \/ stm_event_handler(k) \/ ctm_event_handler(k)
                             \/ handle_rx_data(k)
                             \/ \E h \in Hosts : EventForNobody(h, k)

ToolSpec == ToolInit /\ [][ToolNext]_toolVars
(* The calls of the main thread return; the user repeats a signal.         *)
ToolFairSpec ==
    ToolSpec /\ WF_toolVars(MainStep) /\ WF_toolVars(interrupted /\ Signal)
-----------------------------------------------------------------------------
(* What was printed is in the buffer or in the file, in its order, and     *)
(* nothing is left in the buffer of a logger that was freed.               *)
PrintsKept ==
    /\ printlog \o sysprint_buf = prints
    /\ obj["st"] = "freed" => printlog = prints

(* As long as the program runs and nobody has asked for the end, the       *)
(* events of every trace module that was asked for reach a logger: tracing *)
(* is set up before the CPUs start.                                        *)
RunsObserved ==
    cpus = "started" /\ pc \in {"mem_disconnect", "wait", "to_pause", "pause"} =>
        \A l \in Loggers : Option(l) \in opts =>
            /\ module[l] = [active |-> TRUE, dest |-> TRUE]
            /\ obj[l] = "on" /\ files[l] = "open"

(* The traces of a run are complete: what was asked for is observed, and   *)
(* no print is lost or swapped on its way to the file.                     *)
TracesKept == PrintsKept /\ RunsObserved

(* The process is only ended by an assertion or an invalid access after    *)
(* one of the failures that the error paths do not handle, or if it has a  *)
(* terminal. No handler writes to a closed file.                           *)
CrashesOnlyIf ==
    /\ ToolTypeOK
    /\ crash = "assert" => cause \cap {"get_modules", "logger_disconnect", "terminal",
          "mem_disconnect", "term_disconnect", "hostctrl_new", "hostctrl_stop"} # {}
    /\ crash = "undefined" => cause \cap {"enum_connect", "hostctrl_new", "gateway_new"} # {}
    /\ crash = "null" => cause \cap {"hostctrl_new", "hostctrl_start", "gateway_new"} # {}
    /\ crash = "router" => "terminal" \in opts \/ cause \cap {"logger_start", "logger_stop"} # {}
    /\ crash = "tx_freed" => "terminal" \in opts
    /\ crash # "closedfile"

(* A tool that was asked to end does so, if the user asks again as long as *)
(* it is there: a single signal is lost if it comes between the test of    *)
(* the flag and the pause.                                                 *)
AskedEnds == interrupted ~> ~Alive
=============================================================================
