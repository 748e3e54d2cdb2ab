----------------------------- MODULE PyBindings -----------------------------
(* The classes of the Python bindings, as the generated extension module   *)
(* implements them on the contexts of libosd: one object of a class, the   *)
(* Python threads that use it, and the I/O thread of its context. A method *)
(* keeps the GIL while its C function waits for the I/O thread (only       *)
(* loadelf gives it up), and an event handler written in Python runs on    *)
(* the I/O thread, which has to get the GIL first. What the I/O thread     *)
(* does for a request is the subject of HostMod, HostCtrl and Gateway.     *)
EXTENDS Integers, Sequences

CONSTANTS
    Classes,        \* the classes whose objects are used
    PyThread,       \* threads of the Python program
    MainThread,     \* the one that handles pending calls
    PENDING,        \* pending calls the interpreter queues: 32
    MaxPyCalls,     \* bound: calls of methods
    MaxPyEvents,    \* bound: events received, and messages logged
    MaxPyFails      \* bound: calls that fail or time out

TraceLoggers == {"SystraceLogger", "CoretraceLogger"}
HostmodClasses == TraceLoggers \cup {"Hostmod", "MemoryAccess"}
AllClasses == HostmodClasses \cup {"GatewayGlip", "Hostctrl", "Log"}

ASSUME PyBindingsAssumption ==
    /\ Classes \subseteq AllClasses /\ MainThread \in PyThread
    /\ {"none", "io"} \cap PyThread = {}
    /\ {PENDING, MaxPyCalls, MaxPyEvents, MaxPyFails} \subseteq Nat

VARIABLES
    cls,        \* the class of the object
    handler,    \* its events go to a Python function, to C code, or to nobody
    self,       \* the Python object: "none", "live" or "dead"
    cself,      \* its context: "null", "off", "on" (connected) or "freed"
    linked,     \* the I/O thread is connected
    gil,        \* the owner of the GIL: a thread, "io" or "none"
    inC,        \* per thread, the C function it is in
    req, ans,   \* requests to the I/O thread; the last answer
    io,         \* the I/O thread: "none", "idle", "gil" (waits for it), "handler"
    fp, cfp,    \* the log file of the object and of the context, 0 for NULL
    closed,     \* log files that were closed
    funcs,      \* the ELF data of the context: "none", "there" or "undefined"
    last,       \* the last call that returned: its method and result
    undefined,  \* what has ended the defined behaviour of the process
    blame,      \* ghost: what the program or the environment did before
    queued, records,    \* log messages waiting for the main thread; handled
    pyCalls, pyEvents, pyFails

pyVars == <<cls, handler, self, cself, linked, gil, inC, req, ans, io, fp, cfp, closed,
            funcs, last, undefined, blame, queued, records, pyCalls, pyEvents, pyFails>>
fileVars == <<fp, cfp, closed, funcs>>
pyLogVars == <<queued, records>>
scene == <<cls, handler>>

InPython == [kind |-> "python", meth |-> "", n |-> 0]
Kinds == {"python", "connect", "disconnect", "access", "blocking", "nogil", "regain",
          "dealloc", "shutdown", "setter", "elf"}

PyTypeOK ==
    /\ cls \in Classes /\ handler \in {"python", "c", "none"}
    /\ self \in {"none", "live", "dead"} /\ cself \in {"null", "off", "on", "freed"}
    /\ linked \in BOOLEAN /\ gil \in PyThread \cup {"io", "none"}
    /\ \A t \in PyThread : inC[t].kind \in Kinds /\ inC[t].n \in 0 .. MaxPyCalls
    /\ io \in {"none", "idle", "gil", "handler"}
    /\ {fp, cfp} \subseteq 0 .. MaxPyCalls /\ closed \subseteq 1 .. MaxPyCalls
    /\ funcs \in {"none", "there", "undefined"}
    /\ Len(queued) <= PENDING

HandlersOf(c) == IF c = "Hostmod" THEN {"python", "none"}
                 ELSE IF c \in TraceLoggers THEN {"c"} ELSE {"none"}

PyInit ==
    /\ cls \in Classes /\ handler \in HandlersOf(cls)
    /\ self = "none" /\ cself = "null" /\ linked = FALSE
    /\ gil = "none" /\ inC = [t \in PyThread |-> InPython]
    /\ req = <<>> /\ ans = [n |-> 0, ok |-> FALSE] /\ io = "none"
    /\ fp = 0 /\ cfp = 0 /\ closed = {} /\ funcs = "none"
    /\ last = [meth |-> "", res |-> ""] /\ undefined = "" /\ blame = {}
    /\ queued = <<>> /\ records = <<>>
    /\ pyCalls = 0 /\ pyEvents = 0 /\ pyFails = 0

Runs(t) == undefined = "" /\ gil = t /\ inC[t].kind = "python"
Others(t) == {u \in PyThread \ {t} : inC[u].kind \notin {"python", "setter"}}
Enters(t, kind, meth) == inC' = [inC EXCEPT ![t] = [kind |-> kind, meth |-> meth, n |-> pyCalls']]
Leaves(t) == inC' = [inC EXCEPT ![t] = InPython]
Returned(meth, res) == last' = [meth |-> meth, res |-> res]
Ask(kind) == req' = Append(req, [n |-> pyCalls', kind |-> kind])
NewCall == self = "live" /\ pyCalls < MaxPyCalls /\ pyCalls' = pyCalls + 1
MayFail == pyFails < MaxPyFails /\ pyFails' = pyFails + 1
Blames(what) == blame' = blame \cup {what}
Breaks(how) == undefined' = how
-----------------------------------------------------------------------------
(* The GIL: a thread in Python code gives it up between two instructions,  *)
(* also in the Python calls between the C calls of a setter.               *)
TakeGil(t) ==
    /\ undefined = "" /\ gil = "none" /\ inC[t].kind \in {"python", "setter", "regain"}
    /\ gil' = t /\ inC' = [inC EXCEPT ![t] = IF @.kind = "regain" THEN InPython ELSE @]
    /\ UNCHANGED <<scene, self, cself, linked, req, ans, io, fileVars, last, undefined,
                   blame, pyLogVars, pyCalls, pyEvents, pyFails>>

DropGil(t) ==
    /\ undefined = "" /\ gil = t /\ inC[t].kind \in {"python", "setter"}
    /\ gil' = "none"
    /\ UNCHANGED <<scene, self, cself, linked, inC, req, ans, io, fileVars, last, undefined,
                   blame, pyLogVars, pyCalls, pyEvents, pyFails>>
-----------------------------------------------------------------------------
(* tp_new(): the constructor raises, and the object is deallocated without *)
(* a context.                                                              *)
NotMade ==
    /\ MayFail /\ self' = "dead" /\ Returned("new", "raised")
    /\ UNCHANGED <<cself, io, undefined, blame>>

(* __cinit__(): None is accepted for the log and taken for a Log object.   *)
Construct(t, c) ==
    /\ Runs(t) /\ cls = c /\ self = "none" /\ pyCalls < MaxPyCalls /\ pyCalls' = pyCalls + 1
    /\ \/ /\ self' = "live" /\ cself' = "off" /\ io' = "idle" /\ Returned("new", "OK")
          /\ UNCHANGED <<undefined, blame, pyFails>>
       \/ NotMade
       \/ /\ c # "Log" /\ Blames("log is None") /\ Breaks("log")
          /\ UNCHANGED <<self, cself, io, last, pyFails>>
    /\ UNCHANGED <<scene, linked, gil, inC, req, ans, fileVars, pyLogVars, pyEvents>>

Hostmod_cinit(t) == Construct(t, "Hostmod")
Hostctrl_cinit(t) == Construct(t, "Hostctrl")
MemoryAccess_cinit(t) == Construct(t, "MemoryAccess")
SystraceLogger_cinit(t) == Construct(t, "SystraceLogger")
CoretraceLogger_cinit(t) == Construct(t, "CoretraceLogger")

(* The strings of all options but the last are released before they are    *)
(* used.                                                                   *)
GlipOptions(t) ==
    /\ Runs(t) /\ cls = "GatewayGlip" /\ self = "none" /\ pyCalls < MaxPyCalls
    /\ pyCalls' = pyCalls + 1 /\ Blames("two options") /\ Breaks("options")
    /\ UNCHANGED <<scene, self, cself, linked, gil, inC, req, ans, io, fileVars, last,
                   pyLogVars, pyEvents, pyFails>>

(* The context is made with no option or one; its code is not looked at,   *)
(* only that there is one.                                                 *)
GatewayGlip_new(t) == Construct(t, "GatewayGlip")

GatewayGlip_cinit(t) == GatewayGlip_new(t) \/ GlipOptions(t)
-----------------------------------------------------------------------------
(* Mutated form: only positive codes are taken for errors.                 *)
check_osd_result_positive(ok) == "OK"

check_osd_result(ok) == IF ok THEN "OK" ELSE "raised"

(* The gateway returns the code, the memory descriptor nothing.            *)
Result(meth, ok) ==
    IF ~ok /\ (cls = "GatewayGlip" \/ meth = "get_mem_desc") THEN "unchecked"
    ELSE check_osd_result(ok)

(* A method enters its C function. Two threads can be in there only if one *)
(* of them has given up the GIL. Connecting twice is an assertion, the     *)
(* other functions return an error when not connected.                     *)
Method(t, c, meth, kind) ==
    /\ Runs(t) /\ cls = c /\ NewCall
    /\ \/ /\ Others(t) # {} /\ Blames("call during loadelf") /\ Breaks("shared")
          /\ UNCHANGED <<inC, req, last, pyFails>>
       \/ /\ Others(t) = {} /\ kind = "connect" /\ cself = "on" /\ c # "GatewayGlip"
          /\ Blames("connected twice") /\ Breaks("abort")
          /\ UNCHANGED <<inC, req, last, pyFails>>
       \/ /\ Others(t) = {} /\ (kind = "connect") = (cself = "on") /\ meth # "event_receive"
          /\ c = "GatewayGlip" \/ kind # "connect"
          /\ Returned(meth, Result(meth, kind = "disconnect" /\ c = "GatewayGlip"))
          /\ UNCHANGED <<inC, req, undefined, blame, pyFails>>
       \/ /\ Others(t) = {} /\ ((kind = "connect") # (cself = "on") \/ meth = "event_receive")
          /\ Enters(t, kind, meth) /\ Returned("", "")
          /\ IF meth = "event_receive" THEN UNCHANGED req ELSE Ask(kind)
          /\ UNCHANGED <<undefined, blame, pyFails>>
    /\ gil' = IF kind = "nogil" /\ inC'[t].kind = "nogil" THEN "none" ELSE gil
    /\ UNCHANGED <<scene, self, cself, linked, ans, io, fileVars, pyLogVars, pyEvents>>

(* What only reads the context.                                            *)
Reads(t, c, meth, res) ==
    /\ Runs(t) /\ cls = c /\ NewCall /\ Returned(meth, res)
    /\ UNCHANGED <<scene, self, cself, linked, gil, inC, req, ans, io, fileVars, undefined,
                   blame, pyLogVars, pyEvents, pyFails>>
YesNo == IF cself = "on" THEN "yes" ELSE "no"

(* An argument that is refused before the C function is called.            *)
Refuses(t, c, meth) == Reads(t, c, meth, "raised")

Hostmod_connect(t) == Method(t, "Hostmod", "connect", "connect")
Hostmod_disconnect(t) == Method(t, "Hostmod", "disconnect", "disconnect")
Hostmod_is_connected(t) == Reads(t, "Hostmod", "is_connected", YesNo)
Flags == {"access", "blocking"}
Hostmod_reg_read(t) ==
    \/ \E kind \in Flags : Method(t, "Hostmod", "reg_read", kind)
    \/ Refuses(t, "Hostmod", "reg_read")
Hostmod_reg_write(t) ==
    \/ \E kind \in Flags : Method(t, "Hostmod", "reg_write", kind)
    \/ Refuses(t, "Hostmod", "reg_write")
Hostmod_get_modules(t) == Method(t, "Hostmod", "get_modules", "access")
Hostmod_mod_describe(t) == Method(t, "Hostmod", "mod_describe", "access")
Hostmod_mod_set_event_dest(t) ==
    \E kind \in Flags : Method(t, "Hostmod", "mod_set_event_dest", kind)
Hostmod_mod_set_event_active(t) ==
    \E kind \in Flags : Method(t, "Hostmod", "mod_set_event_active", kind)
Hostmod_get_max_event_words(t) == Reads(t, "Hostmod", "get_max_event_words", "yes")
Hostmod_event_receive(t) ==
    \E kind \in Flags : Method(t, "Hostmod", "event_receive", kind)
cl_mam_get_mem_desc(t) == Method(t, "Hostmod", "get_mem_desc", "access")
cl_mam_write(t) == Method(t, "Hostmod", "mam_write", "access")
cl_mam_read(t) == Method(t, "Hostmod", "mam_read", "access")

(* Nothing is waited for after a packet has been handed to the I/O thread. *)
Hostmod_event_send(t) ==
    Reads(t, "Hostmod", "event_send", check_osd_result(cself = "on"))

(* It tests the method is_connected, not its result.                       *)
Hostmod_diaddr(t) ==
    \/ cself = "on" /\ Reads(t, "Hostmod", "diaddr", "yes")
    \/ /\ Runs(t) /\ cls = "Hostmod" /\ NewCall /\ cself # "on"
       /\ Blames("diaddr") /\ Breaks("abort")
       /\ UNCHANGED <<scene, self, cself, linked, gil, inC, req, ans, io, fileVars, last,
                      pyLogVars, pyEvents, pyFails>>

GatewayGlip_connect(t) == Method(t, "GatewayGlip", "connect", "connect")
GatewayGlip_disconnect(t) == Method(t, "GatewayGlip", "disconnect", "disconnect")
GatewayGlip_is_connected(t) == Reads(t, "GatewayGlip", "is_connected", YesNo)
GatewayGlip_get_transfer_stats(t) == Reads(t, "GatewayGlip", "get_transfer_stats", "yes")

Hostctrl_start(t) == Method(t, "Hostctrl", "connect", "connect")
Hostctrl_stop(t) == Method(t, "Hostctrl", "disconnect", "disconnect")
Hostctrl_is_running(t) == Reads(t, "Hostctrl", "is_connected", YesNo)

MemoryAccess_connect(t) == Method(t, "MemoryAccess", "connect", "connect")
MemoryAccess_disconnect(t) == Method(t, "MemoryAccess", "disconnect", "disconnect")
MemoryAccess_is_connected(t) == Reads(t, "MemoryAccess", "is_connected", YesNo)
MemoryAccess_cpus_stop(t) == Method(t, "MemoryAccess", "cpus_stop", "access")
MemoryAccess_cpus_start(t) == Method(t, "MemoryAccess", "cpus_start", "access")
MemoryAccess_find_memories(t) == Method(t, "MemoryAccess", "find_memories", "access")
MemoryAccess_loadelf(t) == Method(t, "MemoryAccess", "loadelf", "nogil")

SystraceLogger_connect(t) == Method(t, "SystraceLogger", "connect", "connect")
SystraceLogger_disconnect(t) == Method(t, "SystraceLogger", "disconnect", "disconnect")
SystraceLogger_is_connected(t) == Reads(t, "SystraceLogger", "is_connected", YesNo)
SystraceLogger_stop(t) == Method(t, "SystraceLogger", "stop", "access")
SystraceLogger_start(t) == Method(t, "SystraceLogger", "start", "access")

CoretraceLogger_connect(t) == Method(t, "CoretraceLogger", "connect", "connect")
CoretraceLogger_disconnect(t) == Method(t, "CoretraceLogger", "disconnect", "disconnect")
CoretraceLogger_is_connected(t) == Reads(t, "CoretraceLogger", "is_connected", YesNo)
CoretraceLogger_stop(t) == Method(t, "CoretraceLogger", "stop", "access")
CoretraceLogger_start(t) == Method(t, "CoretraceLogger", "start", "access")
-----------------------------------------------------------------------------
(* The list of memories is released even if it was never set.              *)
FreeMemories(meth, ok) ==
    \/ UNCHANGED undefined
    \/ ~ok /\ meth = "find_memories" /\ Breaks("free")

(* The C function returns to the method, which raises if it failed.        *)
Finish(t, ok) ==
    LET c == inC[t] IN
    /\ cself' = CASE ok /\ c.kind = "connect" -> "on"
                  [] ok /\ c.kind = "disconnect" -> "off" [] OTHER -> cself
    /\ inC' = [inC EXCEPT ![t] = IF c.kind = "nogil" THEN [c EXCEPT !.kind = "regain"]
                                 ELSE InPython]
    /\ Returned(c.meth, Result(c.meth, ok))
    /\ FreeMemories(c.meth, ok)
    /\ UNCHANGED <<scene, self, linked, gil, req, ans, io, fileVars, pyLogVars, pyCalls,
                   pyEvents>>

Answered(t) ==
    /\ undefined = "" /\ inC[t].kind \in {"connect", "disconnect", "access", "blocking", "nogil"}
    /\ ans.n = inC[t].n /\ Finish(t, ans.ok) /\ UNCHANGED <<blame, pyFails>>

(* The wait for an answer ends: nobody answers in time, or the I/O thread  *)
(* waits for the GIL.                                                      *)
GivesUp(t) ==
    /\ undefined = "" /\ ans.n # inC[t].n
    /\ IF io = "gil" \/ inC[t].meth = "event_receive" THEN UNCHANGED pyFails ELSE MayFail

(* Mutated form: a register access waits for its answer without a timeout. *)
TimesOut_never(t) ==
    /\ inC[t].kind \in {"connect", "disconnect", "nogil"} /\ GivesUp(t)
    /\ Blames("timeout") /\ Finish(t, FALSE)

(* The stop functions of the loggers take a timeout for success.           *)
TimesOut(t) ==
    /\ inC[t].kind \in {"connect", "disconnect", "access", "nogil"} /\ GivesUp(t)
    /\ Blames("timeout") /\ Finish(t, inC[t].meth = "stop")
-----------------------------------------------------------------------------
Frees(t) == Enters(t, "shutdown", "") /\ Ask("shutdown") /\ ans' = [n |-> 0, ok |-> FALSE]

(* __dealloc__(): disconnect first; the core trace logger closes its file  *)
(* before its context is gone.                                             *)
Dealloc(t, c) ==
    /\ Runs(t) /\ cls = c /\ NewCall /\ \A u \in PyThread \ {t} : inC[u] = InPython
    /\ Returned("", "")
    /\ \/ /\ cself = "on" /\ Enters(t, "dealloc", "") /\ Ask("disconnect")
          /\ UNCHANGED <<ans, closed>>
       \/ /\ cself = "off" /\ Frees(t)
          /\ closed' = IF c = "CoretraceLogger" THEN closed \cup ({fp} \ {0}) ELSE closed
    /\ UNCHANGED <<scene, self, cself, linked, gil, io, fp, cfp, funcs, undefined, blame,
                   pyLogVars, pyEvents, pyFails>>

Hostmod_dealloc(t) == Dealloc(t, "Hostmod")
GatewayGlip_dealloc(t) == Dealloc(t, "GatewayGlip")
Hostctrl_dealloc(t) == Dealloc(t, "Hostctrl")
MemoryAccess_dealloc(t) == Dealloc(t, "MemoryAccess")
SystraceLogger_dealloc(t) == Dealloc(t, "SystraceLogger")
CoretraceLogger_dealloc(t) == Dealloc(t, "CoretraceLogger")

DeallocDisconnected(t) ==
    /\ undefined = "" /\ inC[t].kind = "dealloc" /\ ans.n = inC[t].n /\ pyCalls' = pyCalls
    /\ cself' = "off" /\ Frees(t)
    /\ closed' = IF cls = "CoretraceLogger" THEN closed \cup ({fp} \ {0}) ELSE closed
    /\ UNCHANGED <<scene, self, linked, gil, io, fp, cfp, funcs, last, undefined, blame,
                   pyLogVars, pyEvents, pyFails>>

(* A disconnect that fails: the gateway does not look, the host controller *)
(* is freed while it is running, which is an assertion, and the others     *)
(* raise: the object goes, its context and the I/O thread stay.            *)
DeallocFails(t) ==
    /\ inC[t].kind = "dealloc" /\ GivesUp(t) /\ pyCalls' = pyCalls
    /\ \/ /\ cls = "GatewayGlip" /\ cself' = "off" /\ Frees(t) /\ Blames("timeout")
          /\ UNCHANGED <<self, undefined>>
       \/ /\ cls = "Hostctrl" /\ Blames("stop failed") /\ Breaks("abort")
          /\ UNCHANGED <<self, cself, inC, req, ans>>
       \/ /\ cls \in HostmodClasses /\ self' = "dead" /\ Leaves(t)
          /\ Blames("disconnect failed") /\ UNCHANGED <<cself, req, ans, undefined>>
    /\ UNCHANGED <<scene, linked, gil, io, fileVars, last, pyLogVars, pyEvents>>

(* Mutated form: the object is released, the I/O thread goes on.           *)
DeallocFreed_noJoin(t) ==
    /\ undefined = "" /\ inC[t].kind = "shutdown"
    /\ io' = IF io = "none" THEN "none" ELSE io
    /\ cself' = "freed" /\ self' = "dead" /\ Leaves(t)
    /\ UNCHANGED <<scene, linked, gil, req, ans, fileVars, last, undefined, blame,
                   pyLogVars, pyCalls, pyEvents, pyFails>>

(* osd_*_free(): the I/O thread has ended, or is cancelled. The system     *)
(* trace logger writes what it has left and closes its file.               *)
DeallocFreed(t) ==
    /\ undefined = "" /\ inC[t].kind = "shutdown"
    /\ \/ io = "none" /\ UNCHANGED <<blame, pyFails>>
       \/ io # "none" /\ GivesUp(t) /\ Blames("cancelled")
    /\ \/ UNCHANGED undefined
       \/ cls = "SystraceLogger" /\ cfp \in closed /\ Breaks("closedfile")
    /\ io' = "none" /\ linked' = FALSE /\ req' = <<>>
    /\ closed' = closed \cup ({fp} \ {0})
    /\ cself' = "freed" /\ self' = "dead" /\ Leaves(t)
    /\ UNCHANGED <<scene, gil, ans, fp, cfp, funcs, last, pyLogVars, pyCalls, pyEvents>>
-----------------------------------------------------------------------------
(* The setters of the log files close the file that the I/O thread writes  *)
(* to before they open the next one.                                       *)
SetFile(t, c) ==
    /\ Runs(t) /\ cls = c /\ NewCall /\ Enters(t, "setter", "") /\ Returned("", "")
    /\ \/ fp = 0 /\ UNCHANGED <<closed, undefined, blame>>
       \/ fp # 0 /\ fp \notin closed /\ closed' = closed \cup {fp} /\ Blames("file changed")
          /\ UNCHANGED undefined
       \/ fp \in closed /\ Breaks("closedtwice") /\ UNCHANGED <<closed, blame>>
    /\ UNCHANGED <<scene, self, cself, linked, gil, req, ans, io, fp, cfp, funcs,
                   pyLogVars, pyEvents, pyFails>>

SystraceLogger_sysprint_log(t) == SetFile(t, "SystraceLogger")
SystraceLogger_event_log(t) == SetFile(t, "SystraceLogger")
CoretraceLogger_log_file(t) == SetFile(t, "CoretraceLogger")

FileOpened(t) ==
    /\ undefined = "" /\ gil = t /\ inC[t].kind = "setter"
    /\ \/ fp' = inC[t].n /\ cfp' = fp' /\ Returned("set", "OK") /\ UNCHANGED pyFails
       \/ fp' = 0 /\ MayFail /\ Returned("set", "raised") /\ UNCHANGED cfp
    /\ Leaves(t)
    /\ UNCHANGED <<scene, self, cself, linked, gil, req, ans, io, closed, funcs, undefined,
                   blame, pyLogVars, pyCalls, pyEvents>>

(* osd_coretracelogger_set_elf() takes away the table of functions and     *)
(* fills a new one.                                                        *)
CoretraceLogger_elf_file(t) ==
    /\ Runs(t) /\ cls = "CoretraceLogger" /\ NewCall /\ Enters(t, "elf", "")
    /\ Returned("", "") /\ funcs' = "undefined" /\ Blames("ELF file changed")
    /\ UNCHANGED <<scene, self, cself, linked, gil, req, ans, io, fp, cfp, closed,
                   undefined, pyLogVars, pyEvents, pyFails>>

ElfRead(t) ==
    /\ undefined = "" /\ inC[t].kind = "elf" /\ Leaves(t)
    /\ \/ funcs' = "there" /\ Returned("elf", "OK") /\ UNCHANGED pyFails
       \/ funcs' = "none" /\ MayFail /\ Returned("elf", "raised")
    /\ UNCHANGED <<scene, self, cself, linked, gil, req, ans, io, fp, cfp, closed,
                   undefined, blame, pyLogVars, pyCalls, pyEvents>>
-----------------------------------------------------------------------------
(* The I/O thread serves a request. A packet for a connection that is gone *)
(* is an assertion.                                                        *)
IoServes ==
    /\ undefined = "" /\ io = "idle" /\ req # <<>> /\ cls # "Log"
    /\ LET r == Head(req)
           data == r.kind \in {"access", "blocking", "nogil"}
       IN  /\ req' = Tail(req)
           /\ \/ /\ ~data \/ linked
                 /\ ans' = [n |-> r.n, ok |-> TRUE] /\ UNCHANGED <<undefined, pyFails>>
                 /\ linked' = (IF data THEN linked ELSE r.kind = "connect")
                 /\ io' = IF r.kind = "shutdown" THEN "none" ELSE "idle"
              \/ /\ r.kind = "connect" \/ (data /\ linked)
                 /\ ans' = [n |-> r.n, ok |-> FALSE] /\ MayFail /\ UNCHANGED <<io, undefined>>
                 /\ linked' = data
              \/ /\ data /\ ~linked /\ Breaks("socket") /\ UNCHANGED <<ans, linked, io, pyFails>>
    /\ UNCHANGED <<scene, self, cself, gil, inC, fileVars, last, blame, pyLogVars, pyCalls,
                   pyEvents>>

(* The handlers of the loggers write to their file, the one of the core    *)
(* trace with the names of the functions.                                  *)
TraceEvent ==
    undefined' = IF cfp \in closed THEN "closedfile"
                 ELSE IF cfp # 0 /\ funcs = "undefined" THEN "elf" ELSE ""

(* An event: for the Python function the thread needs the GIL first.       *)
IoEvent ==
    /\ undefined = "" /\ io = "idle" /\ linked /\ pyEvents < MaxPyEvents
    /\ pyEvents' = pyEvents + 1
    /\ \/ handler = "python" /\ io' = "gil" /\ UNCHANGED <<ans, undefined>>
       \/ /\ handler = "none" /\ UNCHANGED <<io, undefined>>
          /\ \E t \in PyThread : inC[t].meth = "event_receive"
                                 /\ ans' = [n |-> inC[t].n, ok |-> TRUE]
       \/ handler = "c" /\ UNCHANGED <<io, ans>> /\ TraceEvent
    /\ UNCHANGED <<scene, self, cself, linked, gil, inC, req, fileVars, last, blame,
                   pyLogVars, pyCalls, pyFails>>

(* _c_event_handler_cb(): PyGILState_Ensure(), then the object is used.    *)
IoTakesGil ==
    /\ undefined = "" /\ io = "gil" /\ gil = "none"
    /\ gil' = "io" /\ io' = "handler"
    /\ undefined' = IF self = "dead" THEN "object" ELSE ""
    /\ UNCHANGED <<scene, self, cself, linked, inC, req, ans, fileVars, last, blame,
                   pyLogVars, pyCalls, pyEvents, pyFails>>

IoHandlerEnds ==
    /\ undefined = "" /\ io = "handler" /\ gil' = "none" /\ io' = "idle"
    /\ UNCHANGED <<scene, self, cself, linked, inC, req, ans, fileVars, last, undefined,
                   blame, pyLogVars, pyCalls, pyEvents, pyFails>>
-----------------------------------------------------------------------------
(* Severity, in Python and in the library. NOTSET becomes 0, which asks    *)
(* osd_log_new() for its default.                                          *)
CRITICAL == 50
ERROR == 40
WARNING == 30
INFO == 20
DEBUG == 10
NOTSET == 0
Unknown == -1    \* an exception
LOG_ERR == 3

loglevel_py2syslog(level) ==
    CASE level = CRITICAL -> 2 [] level = ERROR -> LOG_ERR [] level = WARNING -> 4
      [] level = INFO -> 6 [] level = DEBUG -> 7 [] level = NOTSET -> 0
      [] OTHER -> Unknown

loglevel_syslog2py(priority) ==
    CASE priority <= 2 -> CRITICAL [] priority = LOG_ERR -> ERROR [] priority = 4 -> WARNING
      [] priority \in 5 .. 6 -> INFO [] priority = 7 -> DEBUG [] OTHER -> Unknown

(* The threshold of a context that is made for a priority.                 *)
osd_log_new(priority) == IF priority = 0 THEN LOG_ERR ELSE priority

(* Whether a message of this priority reaches the log function.            *)
osd_log_cond(threshold, priority) == threshold >= priority

(* Log objects: the contexts made with one do not keep it alive. The       *)
(* constructor raises for a level of the logger that is not one of the     *)
(* standard ones.                                                          *)
Log_cinit(t) == Construct(t, "Log")

Log_dealloc(t) ==
    /\ Runs(t) /\ cls = "Log" /\ NewCall /\ self' = "dead" /\ cself' = "freed"
    /\ Blames("log dropped") /\ Returned("", "")
    /\ UNCHANGED <<scene, linked, gil, inC, req, ans, io, fileVars, undefined, pyLogVars,
                   pyEvents, pyFails>>

(* log_cb(), on any thread of the library and without the GIL: a message   *)
(* that finds the queue full is lost.                                      *)
log_cb ==
    /\ undefined = "" /\ cls = "Log" /\ io # "none" /\ pyEvents < MaxPyEvents
    /\ pyEvents' = pyEvents + 1
    /\ \/ /\ cself = "freed" /\ Breaks("logfreed") /\ UNCHANGED <<queued, blame>>
       \/ /\ cself # "freed" /\ Len(queued) < PENDING /\ queued' = Append(queued, pyEvents')
          /\ UNCHANGED <<undefined, blame>>
       \/ /\ cself # "freed" /\ Len(queued) = PENDING /\ Blames("queue full")
          /\ UNCHANGED <<undefined, queued>>
    /\ UNCHANGED <<scene, self, cself, linked, gil, inC, req, ans, io, fileVars, last,
                   records, pyCalls, pyFails>>

(* When the interpreter shuts down there is no logger any more.            *)
LogDiscarded == MayFail /\ Blames("shutdown") /\ UNCHANGED records

(* The logger handles the record; an exception on the way, of a decoding   *)
(* or of a handler, is printed and the message is lost.                    *)
LogRecorded ==
    \/ records' = Append(records, Head(queued)) /\ UNCHANGED <<blame, pyFails>>
    \/ MayFail /\ Blames("unraisable") /\ UNCHANGED records

(* log_cb_withgil(): the main thread handles a message between two         *)
(* instructions.                                                           *)
log_cb_withgil ==
    /\ Runs(MainThread) /\ queued # <<>> /\ queued' = Tail(queued)
    /\ LogDiscarded \/ LogRecorded
    /\ UNCHANGED <<scene, self, cself, linked, gil, inC, req, ans, io, fileVars, last,
                   undefined, pyCalls, pyEvents>>
-----------------------------------------------------------------------------
Constructors(t) ==
    \/ Hostmod_cinit(t) \/ GatewayGlip_cinit(t) \/ Hostctrl_cinit(t) \/ MemoryAccess_cinit(t)
    \/ SystraceLogger_cinit(t) \/ CoretraceLogger_cinit(t) \/ Log_cinit(t)
Deallocators(t) ==
    \/ Hostmod_dealloc(t) \/ GatewayGlip_dealloc(t) \/ Hostctrl_dealloc(t)
    \/ MemoryAccess_dealloc(t) \/ SystraceLogger_dealloc(t) \/ CoretraceLogger_dealloc(t)
    \/ Log_dealloc(t)
HostmodMethods(t) ==
    \/ Hostmod_connect(t) \/ Hostmod_disconnect(t) \/ Hostmod_is_connected(t)
    \/ Hostmod_diaddr(t) \/ Hostmod_reg_read(t) \/ Hostmod_reg_write(t)
    \/ Hostmod_get_modules(t) \/ Hostmod_mod_describe(t) \/ Hostmod_mod_set_event_dest(t)
    \/ Hostmod_mod_set_event_active(t) \/ Hostmod_get_max_event_words(t)
    \/ Hostmod_event_send(t) \/ Hostmod_event_receive(t)
    \/ cl_mam_get_mem_desc(t) \/ cl_mam_write(t) \/ cl_mam_read(t)
OtherMethods(t) ==
    \/ GatewayGlip_connect(t) \/ GatewayGlip_disconnect(t) \/ GatewayGlip_is_connected(t)
    \/ GatewayGlip_get_transfer_stats(t)
    \/ Hostctrl_start(t) \/ Hostctrl_stop(t) \/ Hostctrl_is_running(t)
    \/ MemoryAccess_connect(t) \/ MemoryAccess_disconnect(t) \/ MemoryAccess_is_connected(t)
    \/ MemoryAccess_cpus_stop(t) \/ MemoryAccess_cpus_start(t)
    \/ MemoryAccess_find_memories(t) \/ MemoryAccess_loadelf(t)
LoggerMethods(t) ==
    \/ SystraceLogger_connect(t) \/ SystraceLogger_disconnect(t)
    \/ SystraceLogger_is_connected(t) \/ SystraceLogger_stop(t) \/ SystraceLogger_start(t)
    \/ SystraceLogger_sysprint_log(t) \/ SystraceLogger_event_log(t)
    \/ CoretraceLogger_connect(t) \/ CoretraceLogger_disconnect(t)
    \/ CoretraceLogger_is_connected(t) \/ CoretraceLogger_stop(t) \/ CoretraceLogger_start(t)
    \/ CoretraceLogger_log_file(t) \/ CoretraceLogger_elf_file(t)

Returns(t) ==
    \/ Answered(t) \/ TimesOut(t) \/ DeallocDisconnected(t) \/ DeallocFails(t)
    \/ DeallocFreed(t) \/ FileOpened(t) \/ ElfRead(t)
IoStep == IoServes \/ IoTakesGil \/ IoHandlerEnds

PyNext ==
    \/ \E t \in PyThread :
          \/ TakeGil(t) \/ DropGil(t) \/ Constructors(t) \/ Deallocators(t)
          \/ HostmodMethods(t) \/ OtherMethods(t) \/ LoggerMethods(t) \/ Returns(t)
    \/ IoStep \/ IoEvent \/ log_cb \/ log_cb_withgil

PySpec == PyInit /\ [][PyNext]_pyVars

(* C functions return, waits end, the I/O thread is scheduled; the         *)
(* interpreter takes the GIL away from a thread that others wait for, but  *)
(* every thread gets it again and again, long enough to take a step.       *)
PyFairSpec ==
    /\ PySpec /\ WF_pyVars(IoStep)
    /\ \A t \in PyThread : /\ SF_pyVars(Returns(t)) /\ WF_pyVars(DropGil(t))
                           /\ SF_pyVars(TakeGil(t))
-----------------------------------------------------------------------------
(* The process keeps its defined behaviour unless the program or the       *)
(* environment did one of the things that the bindings do not guard        *)
(* against. In particular no event handler runs on a released object       *)
(* unless a disconnect failed while it was released, and two threads only  *)
(* meet in the library during loadelf.                                     *)
PyUndefinedOnlyIf ==
    /\ undefined = "object" => "disconnect failed" \in blame
    /\ undefined = "shared" => cls = "MemoryAccess"
    /\ undefined = "socket" => "timeout" \in blame
    /\ undefined = "closedfile" => blame \cap {"file changed", "timeout"} # {}
    /\ undefined = "closedtwice" => "file changed" \in blame
    /\ undefined = "elf" => "ELF file changed" \in blame
    /\ undefined = "free" => cls = "MemoryAccess" /\ pyFails > 0
    /\ undefined = "abort" => blame \cap {"connected twice", "diaddr", "stop failed"} # {}
    /\ undefined = "logfreed" => "log dropped" \in blame

(* A method that returns without an exception has done what it says, and   *)
(* its object is in the state of its I/O thread; only the gateway and the  *)
(* memory descriptor leave the error to the caller.                        *)
ReturnedIsDone ==
    /\ last.res = "OK" /\ last.meth = "connect" /\ cls # "GatewayGlip" => cself = "on" /\ linked
    /\ last.res = "OK" /\ last.meth = "disconnect" /\ cls # "GatewayGlip" =>
          cself = "off" /\ ~linked
    /\ self = "dead" /\ cself = "freed" /\ cls # "Log" => io = "none"

(* The library passes on exactly the messages that the Python logger       *)
(* wants: a message is at least as severe for Python as the level of the   *)
(* logger was when the context was made. Only NOTSET, which wants all, is  *)
(* given the errors.                                                       *)
LevelsAgree ==
    LET PassedOn(level, p) == osd_log_cond(osd_log_new(loglevel_py2syslog(level)), p)
        AtLeast(level, p) == loglevel_syslog2py(p) >= level
    IN  \A p \in 0 .. 7 :
            /\ \A level \in {CRITICAL, ERROR, WARNING, INFO, DEBUG} :
                   PassedOn(level, p) = AtLeast(level, p)
            /\ PassedOn(NOTSET, p) = AtLeast(ERROR, p)

(* Log messages are handled once and in their order; they are lost only    *)
(* when the queue is full, when a handler raises or when the interpreter   *)
(* shuts down.                                                             *)
LogsHandledInOrder ==
    LET all == records \o queued IN
    /\ \A i, j \in DOMAIN all : i < j => all[i] < all[j]
    /\ cls = "Log" /\ undefined = "" /\ blame \cap {"queue full", "unraisable", "shutdown"} = {} =>
          Len(all) = pyEvents

(* The bindings are safe: their behaviour is defined but for the causes    *)
(* named above, and the log of the library arrives in Python.              *)
BindingsAreSafe == PyTypeOK /\ PyUndefinedOnlyIf /\ LogsHandledInOrder /\ LevelsAgree

(* Every call returns, also when an event waits for the GIL that the       *)
(* calling thread holds; but an access without a timeout that meets an     *)
(* event for a Python function waits for good.                             *)
PyCallsReturn ==
    \A t \in PyThread :
        inC[t].kind # "python" ~> \/ inC[t].kind = "python" \/ undefined # ""
                                  \/ inC[t].kind = "blocking"
                                     /\ (handler = "python" \/ inC[t].meth = "event_receive")
=============================================================================
