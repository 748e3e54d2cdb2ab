----------------------------- MODULE PythonProofs -----------------------------
(***************************************************************************)
(* For any number of Python threads, calls, events and failures, and every *)
(* class: the behaviour of the bindings stays defined but for the causes   *)
(* that the model names, the messages of the log arrive in their order,    *)
(* and a method that returns has done what it says. For packets of any     *)
(* size below the limit, and any indices and words: a packet object is the *)
(* mutable sequence of PacketList, and its format is kept.                 *)
(***************************************************************************)
EXTENDS PyBindings, PyPacket, FiniteSetTheorems, TLAPS

Asked   == {"connect", "disconnect", "access", "blocking", "nogil", "shutdown"}
Data    == {"access", "blocking", "nogil"}
Methods == {"", "connect", "disconnect", "reg_read", "reg_write", "get_modules",
            "mod_describe", "mod_set_event_dest", "mod_set_event_active", "event_receive",
            "get_mem_desc", "mam_write", "mam_read", "cpus_stop", "cpus_start",
            "find_memories", "loadelf", "start", "stop"}
Call    == [kind : Kinds, meth : Methods, n : 0 .. MaxPyCalls]
Request == [n : 0 .. MaxPyCalls, kind : Asked]
Numbers == Seq(1 .. MaxPyEvents)

ObjectTypes ==
    /\ cls \in Classes /\ handler \in HandlersOf(cls)
    /\ self \in {"none", "live", "dead"} /\ cself \in {"null", "off", "on", "freed"}
    /\ linked \in BOOLEAN /\ gil \in PyThread \cup {"io", "none"}
    /\ io \in {"none", "idle", "gil", "handler"}
RequestTypes == req \in Seq(Request) /\ ans \in [n : 0 .. MaxPyCalls, ok : BOOLEAN]
FileTypes ==
    /\ fp \in 0 .. MaxPyCalls /\ cfp \in 0 .. MaxPyCalls /\ closed \subseteq 1 .. MaxPyCalls
    /\ funcs \in {"none", "there", "undefined"}
CountTypes ==
    /\ pyCalls \in 0 .. MaxPyCalls /\ pyEvents \in 0 .. MaxPyEvents
    /\ pyFails \in 0 .. MaxPyFails
LogTypes == queued \in Numbers /\ records \in Numbers /\ Len(queued) <= PENDING
Types == /\ ObjectTypes /\ inC \in [PyThread -> Call] /\ RequestTypes /\ FileTypes
         /\ CountTypes /\ LogTypes

(* A thread is in the library, and there it waits for the I/O thread.      *)
Inside(t) == inC[t].kind \notin {"python", "setter"}
Asking(t) == /\ inC[t].kind \in {"connect", "disconnect", "dealloc"} \cup Data
             /\ inC[t].meth # "event_receive"
IsAnswered(t) == ans.n = inC[t].n

(* What a thread has asked for.                                            *)
Wanted(t) == IF inC[t].kind = "dealloc" THEN "disconnect" ELSE inC[t].kind

(* Only one thread is in the library, and it has the GIL there but for     *)
(* loadelf; an event handler has it too.                                   *)
GilInv ==
    /\ io \in {"gil", "handler"} => handler = "python"
    /\ io = "handler" => gil = "io"
    /\ \A t \in PyThread :
          /\ Inside(t) /\ inC[t].kind \notin {"nogil", "regain"} => gil = t
          /\ \A u \in PyThread : Inside(t) /\ Inside(u) => t = u

(* What a call says of the object.                                         *)
CallInv ==
    \A t \in PyThread :
        /\ inC[t].kind = "python" => inC[t] = InPython
        /\ inC[t].kind = "setter" => inC[t].meth = ""
        /\ Inside(t) => /\ inC[t].n \in 1 .. pyCalls /\ self = "live" /\ cls # "Log"
                        /\ last.meth \notin {"connect", "disconnect"}
        /\ inC[t].kind \in {"nogil", "regain"} => cls = "MemoryAccess"
        /\ inC[t].meth = "find_memories" => cls = "MemoryAccess"
        /\ inC[t].meth = "event_receive" => inC[t].kind \in {"access", "blocking"}
        /\ inC[t].meth = "connect" <=> inC[t].kind = "connect"
        /\ inC[t].meth = "disconnect" <=> inC[t].kind = "disconnect"
        /\ inC[t].kind = "connect" => cself # "on"
        /\ Asking(t) /\ inC[t].kind # "connect" => cself = "on"
        /\ inC[t].kind = "shutdown" => cself = "off"

(* The request of the thread that waits is the last one; when it was       *)
(* answered, no other is left, and the connection is what it asked for.    *)
LastIs(s, n, kind) ==
    /\ s # <<>> /\ s[Len(s)].n = n /\ s[Len(s)].kind = kind
    /\ \A i \in 1 .. (Len(s) - 1) : s[i].n # n
Has(t) == /\ req = <<>>
          /\ Wanted(t) = "connect" => (linked <=> ans.ok)
          /\ Wanted(t) = "disconnect" => ans.ok /\ ~linked
AskOK(t) == IF IsAnswered(t) THEN Has(t) ELSE LastIs(req, inC[t].n, Wanted(t))
Numbered == ans.n <= pyCalls /\ \A i \in 1 .. Len(req) : req[i].n <= pyCalls
QueueInv ==
    /\ Numbered
    /\ ~ans.ok /\ ans.n > 0 => pyFails > 0
    /\ \A t \in PyThread : undefined = "" /\ Asking(t) => AskOK(t)

(* The object and its I/O thread agree, unless a wait was given up.        *)
Settled == req = <<>> /\ (linked <=> cself = "on")
AgreeOK(t) ==
    /\ ~Asking(t) /\ inC[t].kind # "shutdown" => Settled
    /\ Asking(t) /\ ~IsAnswered(t) => Len(req) = 1 /\ (linked <=> cself = "on")
    /\ Asking(t) /\ inC[t].kind \in Data => linked
    /\ inC[t].kind = "shutdown" =>
          ~linked /\ \A i \in 1 .. Len(req) : req[i].kind = "shutdown"
AgreeInv ==
    undefined = "" /\ "timeout" \notin blame /\ self = "live" =>
        /\ (\A t \in PyThread : ~Inside(t)) => Settled
        /\ \A t \in PyThread : Inside(t) => AgreeOK(t)

(* The life of the object.                                                 *)
SelfInv ==
    /\ self = "none" => /\ cself = "null" /\ io = "none" /\ req = <<>> /\ ~linked
                        /\ closed = {}
    /\ self = "live" => cself \in {"off", "on"}
    /\ cself = "freed" => self = "dead" /\ (cls = "Log" \/ io = "none")
    /\ self = "dead" /\ cls # "Log" => io = "none" \/ "disconnect failed" \in blame
    /\ self = "dead" /\ "timeout" \notin blame =>
          \A i \in 1 .. Len(req) : req[i].kind \notin Data
    /\ cls = "Log" => /\ io \in {"none", "idle"} /\ req = <<>> /\ ~linked
                      /\ \A t \in PyThread : inC[t].kind = "python"
                      /\ cself = "freed" => "log dropped" \in blame

(* A log file is only closed early by a setter.                            *)
FileInv ==
    /\ closed # {} => \/ "file changed" \in blame \/ cself = "freed"
                      \/ /\ cls = "CoretraceLogger"
                         /\ \E t \in PyThread : inC[t].kind = "shutdown"
    /\ funcs = "undefined" => "ELF file changed" \in blame

(* The result of the last call still holds.                                *)
LastInv ==
    last.res = "OK" /\ last.meth \in {"connect", "disconnect"} /\ cls # "GatewayGlip" =>
        Settled /\ cself = IF last.meth = "connect" THEN "on" ELSE "off"

(* Messages are numbered as they come.                                     *)
Rising(s) == \A i, j \in 1 .. Len(s) : i < j => s[i] < s[j]
Upto(s, n) == \A i \in 1 .. Len(s) : s[i] <= n
LogInv ==
    /\ Rising(records \o queued) /\ Upto(records \o queued, pyEvents)
    /\ cls = "Log" /\ undefined = ""
       /\ blame \cap {"queue full", "unraisable", "shutdown"} = {} =>
          Len(records \o queued) = pyEvents

IInv == /\ Types /\ GilInv /\ CallInv /\ QueueInv /\ AgreeInv /\ SelfInv
        /\ FileInv /\ LastInv /\ LogInv /\ PyUndefinedOnlyIf
-----------------------------------------------------------------------------
(* The forms the steps of PyNext take.                                     *)

Legal(c, meth, kind) ==
    /\ c # "Log" /\ meth \in Methods /\ kind \in {"connect", "disconnect"} \cup Data
    /\ meth = "event_receive" => kind \in {"access", "blocking"}
    /\ meth = "connect" <=> kind = "connect"
    /\ meth = "disconnect" <=> kind = "disconnect"
    /\ kind = "nogil" \/ meth = "find_memories" => c = "MemoryAccess"

LegalMethod(t) == \E c, meth, kind : Legal(c, meth, kind) /\ Method(t, c, meth, kind)
HarmlessRead(t) ==
    \E c, meth, res : meth \notin {"connect", "disconnect"} /\ Reads(t, c, meth, res)
NoAddress(t) ==
    /\ Runs(t) /\ cls = "Hostmod" /\ NewCall /\ cself # "on"
    /\ Blames("diaddr") /\ Breaks("abort")
    /\ UNCHANGED <<scene, self, cself, linked, gil, inC, req, ans, io, fileVars, last,
                   pyLogVars, pyEvents, pyFails>>
DeallocAny(t) == \E c \in AllClasses \ {"Log"} : Dealloc(t, c)

(* The methods of the classes: those that connect, and those that do not.  *)
LEMMA LegalMethods ==
    /\ \A c \in AllClasses \ {"Log"} : /\ Legal(c, "connect", "connect")
                                      /\ Legal(c, "disconnect", "disconnect")
    /\ \A meth \in {"reg_read", "reg_write", "get_modules", "mod_describe",
          "mod_set_event_dest", "mod_set_event_active", "event_receive", "get_mem_desc",
          "mam_write", "mam_read"} :
          Legal("Hostmod", meth, "access") /\ Legal("Hostmod", meth, "blocking")
    /\ \A meth \in {"cpus_stop", "cpus_start", "find_memories"} :
          Legal("MemoryAccess", meth, "access")
    /\ Legal("MemoryAccess", "loadelf", "nogil")
    /\ \A c \in TraceLoggers : Legal(c, "start", "access") /\ Legal(c, "stop", "access")
  BY DEF Legal, Methods, Data, AllClasses, HostmodClasses, TraceLoggers

LEMMA ConstructorForms ==
    ASSUME NEW t \in PyThread, Constructors(t)
    PROVE  (\E c \in AllClasses : Construct(t, c)) \/ GlipOptions(t)
  BY DEF Constructors, Hostmod_cinit, GatewayGlip_cinit, GatewayGlip_new, Hostctrl_cinit,
     MemoryAccess_cinit, SystraceLogger_cinit, CoretraceLogger_cinit, Log_cinit,
     AllClasses, HostmodClasses, TraceLoggers

LEMMA DeallocatorForms ==
    ASSUME NEW t \in PyThread, Deallocators(t)
    PROVE  DeallocAny(t) \/ Log_dealloc(t)
  BY DEF Deallocators, DeallocAny, Hostmod_dealloc, GatewayGlip_dealloc, Hostctrl_dealloc,
     MemoryAccess_dealloc, SystraceLogger_dealloc, CoretraceLogger_dealloc,
     AllClasses, HostmodClasses, TraceLoggers

LEMMA MethodForm ==
    ASSUME NEW t, NEW c, NEW meth, NEW kind, Legal(c, meth, kind), Method(t, c, meth, kind)
    PROVE  LegalMethod(t)
  BY DEF LegalMethod

LEMMA ReadForm ==
    ASSUME NEW t, NEW c, NEW meth, NEW res, meth \notin {"connect", "disconnect"},
           Reads(t, c, meth, res)
    PROVE  HarmlessRead(t)
  BY DEF HarmlessRead

LEMMA HostmodForms ==
    ASSUME NEW t \in PyThread, HostmodMethods(t)
    PROVE  LegalMethod(t) \/ HarmlessRead(t) \/ NoAddress(t)
<1> USE DEF AllClasses, HostmodClasses, TraceLoggers
<1>1. ASSUME \/ Hostmod_connect(t) \/ Hostmod_disconnect(t) \/ Hostmod_get_modules(t)
             \/ Hostmod_mod_describe(t) \/ cl_mam_get_mem_desc(t) \/ cl_mam_write(t)
             \/ cl_mam_read(t)
      PROVE  LegalMethod(t)
  BY <1>1, LegalMethods, MethodForm DEF Hostmod_connect, Hostmod_disconnect, Hostmod_get_modules,
     Hostmod_mod_describe, cl_mam_get_mem_desc, cl_mam_write, cl_mam_read
<1>2. ASSUME \/ Hostmod_reg_read(t) \/ Hostmod_reg_write(t) \/ Hostmod_mod_set_event_dest(t)
             \/ Hostmod_mod_set_event_active(t) \/ Hostmod_event_receive(t)
      PROVE  LegalMethod(t) \/ HarmlessRead(t)
  BY <1>2, LegalMethods, MethodForm, ReadForm DEF Hostmod_reg_read, Hostmod_reg_write,
     Hostmod_mod_set_event_dest, Hostmod_mod_set_event_active, Hostmod_event_receive,
     Flags, Refuses
<1>3. ASSUME \/ Hostmod_is_connected(t) \/ Hostmod_get_max_event_words(t)
             \/ Hostmod_event_send(t)
      PROVE  HarmlessRead(t)
  BY <1>3, ReadForm DEF Hostmod_is_connected, Hostmod_get_max_event_words,
     Hostmod_event_send, YesNo, check_osd_result
<1>4. ASSUME Hostmod_diaddr(t)
      PROVE  HarmlessRead(t) \/ NoAddress(t)
  BY <1>4, ReadForm DEF Hostmod_diaddr, NoAddress
<1> QED BY <1>1, <1>2, <1>3, <1>4 DEF HostmodMethods

LEMMA OtherForms ==
    ASSUME NEW t \in PyThread, OtherMethods(t)
    PROVE  LegalMethod(t) \/ HarmlessRead(t)
<1> USE DEF AllClasses, HostmodClasses, TraceLoggers
<1>1. ASSUME \/ GatewayGlip_connect(t) \/ GatewayGlip_disconnect(t)
             \/ Hostctrl_start(t) \/ Hostctrl_stop(t)
             \/ MemoryAccess_connect(t) \/ MemoryAccess_disconnect(t)
             \/ MemoryAccess_cpus_stop(t) \/ MemoryAccess_cpus_start(t)
             \/ MemoryAccess_find_memories(t) \/ MemoryAccess_loadelf(t)
      PROVE  LegalMethod(t)
  BY <1>1, LegalMethods, MethodForm DEF GatewayGlip_connect, GatewayGlip_disconnect, Hostctrl_start,
     Hostctrl_stop, MemoryAccess_connect, MemoryAccess_disconnect, MemoryAccess_cpus_stop,
     MemoryAccess_cpus_start, MemoryAccess_find_memories, MemoryAccess_loadelf
<1>2. ASSUME \/ GatewayGlip_is_connected(t) \/ GatewayGlip_get_transfer_stats(t)
             \/ Hostctrl_is_running(t) \/ MemoryAccess_is_connected(t)
      PROVE  HarmlessRead(t)
  BY <1>2, ReadForm DEF GatewayGlip_is_connected, GatewayGlip_get_transfer_stats,
     Hostctrl_is_running, MemoryAccess_is_connected, YesNo
<1> QED BY <1>1, <1>2 DEF OtherMethods

LEMMA LoggerForms ==
    ASSUME NEW t \in PyThread, LoggerMethods(t)
    PROVE  \/ LegalMethod(t) \/ HarmlessRead(t) \/ CoretraceLogger_elf_file(t)
           \/ \E c \in TraceLoggers : SetFile(t, c)
<1> USE DEF AllClasses, HostmodClasses, TraceLoggers
<1>1. ASSUME \/ SystraceLogger_connect(t) \/ SystraceLogger_disconnect(t)
             \/ SystraceLogger_stop(t) \/ SystraceLogger_start(t)
             \/ CoretraceLogger_connect(t) \/ CoretraceLogger_disconnect(t)
             \/ CoretraceLogger_stop(t) \/ CoretraceLogger_start(t)
      PROVE  LegalMethod(t)
  BY <1>1, LegalMethods, MethodForm DEF SystraceLogger_connect, SystraceLogger_disconnect,
     SystraceLogger_stop, SystraceLogger_start, CoretraceLogger_connect,
     CoretraceLogger_disconnect, CoretraceLogger_stop, CoretraceLogger_start
<1>2. ASSUME SystraceLogger_is_connected(t) \/ CoretraceLogger_is_connected(t)
      PROVE  HarmlessRead(t)
  BY <1>2, ReadForm DEF SystraceLogger_is_connected, CoretraceLogger_is_connected, YesNo
<1>3. ASSUME \/ SystraceLogger_sysprint_log(t) \/ SystraceLogger_event_log(t)
             \/ CoretraceLogger_log_file(t)
      PROVE  \E c \in TraceLoggers : SetFile(t, c)
  BY <1>3 DEF SystraceLogger_sysprint_log, SystraceLogger_event_log, CoretraceLogger_log_file
<1> QED BY <1>1, <1>2, <1>3 DEF LoggerMethods

-----------------------------------------------------------------------------
(* The same steps with what they change spelled out. A call that ends the  *)
(* defined behaviour, and one that returns at once.                        *)

Counts == self = "live" /\ pyCalls < MaxPyCalls /\ pyCalls' = pyCalls + 1
Sets(t, k, m) == inC' = [inC EXCEPT ![t] = [kind |-> k, meth |-> m, n |-> pyCalls']]

Broken(t) ==
    /\ Runs(t) /\ pyCalls < MaxPyCalls /\ pyCalls' = pyCalls + 1 /\ blame \subseteq blame'
    /\ undefined' \in {"shared", "abort", "options", "log"}
    /\ undefined' = "shared" => Others(t) # {}
    /\ undefined' = "abort" => blame' \cap {"connected twice", "diaddr"} # {}
    /\ UNCHANGED <<cls, handler, self, cself, linked, gil, inC, req, ans, io, fp, cfp, closed,
                   funcs, last, queued, records, pyEvents, pyFails>>
AtOnce(t) ==
    /\ Runs(t) /\ Counts
    /\ last'.meth \in {"connect", "disconnect"} =>
          Others(t) = {} /\ (last'.res = "OK" => cls = "GatewayGlip")
    /\ UNCHANGED <<cls, handler, self, cself, linked, gil, inC, req, ans, io, fp, cfp, closed,
                   funcs, undefined, blame, queued, records, pyEvents, pyFails>>
Makes(t) ==
    /\ Runs(t) /\ self = "none" /\ pyCalls < MaxPyCalls /\ pyCalls' = pyCalls + 1
    /\ self' = "live" /\ cself' = "off" /\ io' = "idle" /\ last'.meth = "new"
    /\ UNCHANGED <<cls, handler, linked, gil, inC, req, ans, fp, cfp, closed, funcs,
                   undefined, blame, queued, records, pyEvents, pyFails>>
MakesNot(t) ==
    /\ Runs(t) /\ self = "none" /\ pyCalls < MaxPyCalls /\ pyCalls' = pyCalls + 1
    /\ pyFails < MaxPyFails /\ pyFails' = pyFails + 1
    /\ self' = "dead" /\ last'.meth = "new"
    /\ UNCHANGED <<cls, handler, cself, linked, gil, inC, req, ans, io, fp, cfp, closed, funcs,
                   undefined, blame, queued, records, pyEvents>>
(* A method enters the library.                                            *)
Begins(t, meth, kind) ==
    /\ Runs(t) /\ Counts /\ Others(t) = {} /\ Legal(cls, meth, kind)
    /\ (kind = "connect") # (cself = "on") \/ meth = "event_receive"
    /\ Sets(t, kind, meth) /\ last'.meth = ""
    /\ req' = IF meth = "event_receive" THEN req
              ELSE Append(req, [n |-> pyCalls', kind |-> kind])
    /\ gil' = IF kind = "nogil" THEN "none" ELSE gil
    /\ UNCHANGED <<cls, handler, self, cself, linked, ans, io, fp, cfp, closed, funcs,
                   undefined, blame, queued, records, pyEvents, pyFails>>

LEMMA ReturnedMeth == \A meth, res : Returned(meth, res) => last'.meth = meth
  BY DEF Returned

LEMMA ConstructCases ==
    ASSUME NEW t \in PyThread, (\E c \in AllClasses : Construct(t, c)) \/ GlipOptions(t)
    PROVE  Makes(t) \/ MakesNot(t) \/ Broken(t)
  BY ReturnedMeth, ZenonT(60) DEF Construct, GlipOptions, Makes, MakesNot, Broken, NotMade, MayFail, Blames,
     Breaks, scene, fileVars, pyLogVars

LEMMA ReadCases ==
    ASSUME NEW t \in PyThread, HarmlessRead(t)
    PROVE  AtOnce(t)
  BY DEF HarmlessRead, AtOnce, Reads, Counts, NewCall, Returned, scene, fileVars, pyLogVars

LEMMA NoAddressBreaks ==
    ASSUME NEW t \in PyThread, NoAddress(t)
    PROVE  Broken(t)
  BY DEF NoAddress, Broken, NewCall, Blames, Breaks, scene, fileVars, pyLogVars

LEMMA MethodCases ==
    ASSUME NEW t \in PyThread, LegalMethod(t), Types
    PROVE  Broken(t) \/ AtOnce(t) \/ \E meth, kind : Begins(t, meth, kind)
<1>1. PICK c, meth, kind : Legal(c, meth, kind) /\ Method(t, c, meth, kind)
  BY DEF LegalMethod
<1> USE <1>1 DEF Method, NewCall, Blames, Breaks, Returned, scene, fileVars, pyLogVars
<1>0. cls = c /\ inC \in [PyThread -> Call] /\ inC[t].kind = "python"
  BY DEF Types, Runs
<1>2. CASE Others(t) # {} /\ Blames("call during loadelf") /\ Breaks("shared")
           /\ UNCHANGED <<inC, req, last, pyFails>>
  BY <1>0, <1>2 DEF Broken
<1>3. CASE /\ Others(t) = {} /\ kind = "connect" /\ cself = "on" /\ c # "GatewayGlip"
           /\ Blames("connected twice") /\ Breaks("abort")
           /\ UNCHANGED <<inC, req, last, pyFails>>
  BY <1>0, <1>3 DEF Broken
<1>4. CASE /\ Others(t) = {} /\ (kind = "connect") = (cself = "on") /\ meth # "event_receive"
           /\ c = "GatewayGlip" \/ kind # "connect"
           /\ Returned(meth, Result(meth, kind = "disconnect" /\ c = "GatewayGlip"))
           /\ UNCHANGED <<inC, req, undefined, blame, pyFails>>
  <2>1. last'.res = "OK" => cls = "GatewayGlip"
    BY <1>0, <1>4 DEF Result, check_osd_result
  <2> QED BY <1>0, <1>4, <2>1 DEF AtOnce, Counts
<1>5. CASE /\ Others(t) = {} /\ ((kind = "connect") # (cself = "on") \/ meth = "event_receive")
           /\ Enters(t, kind, meth) /\ Returned("", "")
           /\ IF meth = "event_receive" THEN UNCHANGED req ELSE Ask(kind)
           /\ UNCHANGED <<undefined, blame, pyFails>>
  <2>1. inC'[t].kind = kind
    BY <1>0, <1>5 DEF Enters
  <2>2. Begins(t, meth, kind)
    BY <1>0, <1>5, <2>1, ReturnedMeth DEF Begins, Counts, Sets, Enters, Ask
  <2> QED BY <2>2
<1> QED BY <1>2, <1>3, <1>4, <1>5
-----------------------------------------------------------------------------
(* Deallocators, setters and the two ways in which a call ends.            *)

FailsMore == pyFails <= pyFails' /\ pyFails' \in 0 .. MaxPyFails
FilesClosed == closed' = closed \cup (IF cls = "CoretraceLogger" THEN {fp} \ {0} ELSE {})

DeallocBegins(t) ==
    /\ Runs(t) /\ Counts /\ cls # "Log" /\ cself = "on"
    /\ \A u \in PyThread \ {t} : inC[u] = InPython
    /\ last'.meth = "" /\ Sets(t, "dealloc", "")
    /\ req' = Append(req, [n |-> pyCalls', kind |-> "disconnect"])
    /\ UNCHANGED <<cls, handler, self, cself, linked, gil, ans, io, fp, cfp, closed, funcs,
                   undefined, blame, queued, records, pyEvents, pyFails>>
FreeBegins(t) ==
    /\ Runs(t) /\ Counts /\ cls # "Log" /\ cself = "off"
    /\ \A u \in PyThread \ {t} : inC[u] = InPython
    /\ last'.meth = "" /\ Sets(t, "shutdown", "") /\ FilesClosed
    /\ req' = Append(req, [n |-> pyCalls', kind |-> "shutdown"]) /\ ans' = [n |-> 0, ok |-> FALSE]
    /\ UNCHANGED <<cls, handler, self, cself, linked, gil, io, fp, cfp, funcs, undefined, blame,
                   queued, records, pyEvents, pyFails>>
FreeFollows(t) ==
    /\ undefined = "" /\ inC[t].kind = "dealloc" /\ pyCalls' = pyCalls
    /\ IsAnswered(t) \/ "timeout" \in blame'
    /\ cself' = "off" /\ Sets(t, "shutdown", "") /\ blame \subseteq blame'
    /\ closed \subseteq closed' /\ (closed' # closed => cls = "CoretraceLogger")
    /\ closed' \subseteq closed \cup ({fp} \ {0})
    /\ req' = Append(req, [n |-> pyCalls', kind |-> "shutdown"]) /\ ans' = [n |-> 0, ok |-> FALSE]
    /\ FailsMore
    /\ UNCHANGED <<cls, handler, self, linked, gil, io, fp, cfp, funcs, last, undefined,
                   queued, records, pyEvents>>
StopFails(t) ==
    /\ undefined = "" /\ inC[t].kind = "dealloc" /\ undefined' = "abort"
    /\ blame' = blame \cup {"stop failed"} /\ FailsMore
    /\ UNCHANGED <<cls, handler, self, cself, linked, gil, inC, req, ans, io, fp, cfp, closed,
                   funcs, last, queued, records, pyCalls, pyEvents>>
ObjectDropped(t) ==
    /\ undefined = "" /\ inC[t].kind = "dealloc" /\ ~IsAnswered(t)
    /\ self' = "dead" /\ inC' = [inC EXCEPT ![t] = InPython]
    /\ blame' = blame \cup {"disconnect failed"} /\ FailsMore
    /\ UNCHANGED <<cls, handler, cself, linked, gil, req, ans, io, fp, cfp, closed, funcs, last,
                   undefined, queued, records, pyCalls, pyEvents>>
Freed(t) ==
    /\ undefined = "" /\ inC[t].kind = "shutdown"
    /\ undefined' = "" \/ (undefined' = "closedfile" /\ cls = "SystraceLogger" /\ cfp \in closed)
    /\ io' = "none" /\ linked' = FALSE /\ req' = <<>> /\ closed' = closed \cup ({fp} \ {0})
    /\ cself' = "freed" /\ self' = "dead" /\ inC' = [inC EXCEPT ![t] = InPython]
    /\ blame \subseteq blame' /\ FailsMore
    /\ UNCHANGED <<cls, handler, gil, ans, fp, cfp, funcs, last, queued, records, pyCalls,
                   pyEvents>>
Ends(t, ok) ==
    /\ undefined = "" /\ inC[t].kind \in {"connect", "disconnect"} \cup Data
    /\ cself' = IF ok /\ inC[t].kind = "connect" THEN "on"
                ELSE IF ok /\ inC[t].kind = "disconnect" THEN "off" ELSE cself
    /\ inC' = [inC EXCEPT ![t] = IF inC[t].kind = "nogil"
                                 THEN [kind |-> "regain", meth |-> inC[t].meth, n |-> inC[t].n]
                                 ELSE InPython]
    /\ last'.meth = inC[t].meth /\ (last'.res = "OK" => ok)
    /\ undefined' = "" \/ (undefined' = "free" /\ ~ok /\ inC[t].meth = "find_memories")
    /\ blame \subseteq blame' /\ FailsMore
    /\ UNCHANGED <<cls, handler, self, linked, gil, req, ans, io, fp, cfp, closed, funcs, queued,
                   records, pyCalls, pyEvents>>
(* With an answer, or without one: then only a stop may still succeed.     *)
EndsAnswered(t) == Ends(t, ans.ok) /\ IsAnswered(t)
GaveUp(t) ==
    /\ ~IsAnswered(t) /\ "timeout" \in blame'
    /\ io = "gil" \/ inC[t].meth = "event_receive" \/ pyFails' > 0
    /\ \E ok \in BOOLEAN : Ends(t, ok) /\ (ok => inC[t].meth = "stop")

LEMMA Bounds == /\ PENDING \in Nat /\ MaxPyCalls \in Nat /\ MaxPyEvents \in Nat
                /\ MaxPyFails \in Nat /\ "io" \notin PyThread /\ "none" \notin PyThread
                /\ MainThread \in PyThread
  BY PyBindingsAssumption

LEMMA FailsCount ==
    ASSUME Types
    PROVE  /\ pyFails' = pyFails => FailsMore
           /\ MayFail => FailsMore /\ pyFails' > 0
<1>1. pyFails \in 0 .. MaxPyFails
  BY DEF Types, CountTypes
<1> QED BY <1>1, Bounds DEF FailsMore, MayFail

LEMMA GivesUpCounts ==
    ASSUME NEW t \in PyThread, GivesUp(t), Types
    PROVE  /\ undefined = "" /\ ~IsAnswered(t) /\ FailsMore
           /\ io = "gil" \/ inC[t].meth = "event_receive" \/ pyFails' > 0
  BY FailsCount DEF GivesUp, IsAnswered

LEMMA DeallocCases ==
    ASSUME NEW t \in PyThread, DeallocAny(t)
    PROVE  DeallocBegins(t) \/ FreeBegins(t)
  BY ReturnedMeth DEF DeallocAny, Dealloc, DeallocBegins, FreeBegins, FilesClosed, Counts,
     NewCall, Enters, Frees, Ask, Sets, scene, fileVars, pyLogVars

LEMMA DisconnectedCase ==
    ASSUME NEW t \in PyThread, DeallocDisconnected(t), Types
    PROVE  FreeFollows(t)
  BY FailsCount DEF DeallocDisconnected, FreeFollows, IsAnswered, Enters, Frees, Ask, Sets, scene,
     fileVars, pyLogVars

LEMMA DeallocFailsCases ==
    ASSUME NEW t \in PyThread, DeallocFails(t), Types
    PROVE  FreeFollows(t) \/ StopFails(t) \/ ObjectDropped(t)
<1>1. /\ undefined = "" /\ ~IsAnswered(t) /\ FailsMore
      /\ FailsMore
  BY GivesUpCounts DEF DeallocFails, Types
<1> QED
  BY <1>1 DEF DeallocFails, FreeFollows, StopFails, ObjectDropped, Enters, Frees, Ask, Sets,
     Leaves, Blames, Breaks, scene, fileVars, pyLogVars

LEMMA FreedCase ==
    ASSUME NEW t \in PyThread, DeallocFreed(t), Types
    PROVE  Freed(t)
<1>1. FailsMore
  BY FailsCount, GivesUpCounts DEF DeallocFreed
<1> QED
  BY <1>1 DEF DeallocFreed, Freed, Leaves, Blames, Breaks, scene, fileVars, pyLogVars

LEMMA Regained ==
    ASSUME NEW c \in Call
    PROVE  [c EXCEPT !.kind = "regain"] = [kind |-> "regain", meth |-> c.meth, n |-> c.n]
<1>1. PICK k \in Kinds, m \in Methods, n \in 0 .. MaxPyCalls :
          c = [kind |-> k, meth |-> m, n |-> n]
  BY DEF Call
<1>2. [[kind |-> k, meth |-> m, n |-> n] EXCEPT !.kind = "regain"]
      = [kind |-> "regain", meth |-> m, n |-> n]
  OBVIOUS
<1> QED BY ONLY <1>1, <1>2

LEMMA FinishCase ==
    ASSUME NEW t \in PyThread, NEW ok \in BOOLEAN, Finish(t, ok), Types, undefined = "",
           inC[t].kind \in {"connect", "disconnect"} \cup Data,
           blame \subseteq blame', FailsMore
    PROVE  Ends(t, ok)
<1>1. [inC[t] EXCEPT !.kind = "regain"]
      = [kind |-> "regain", meth |-> inC[t].meth, n |-> inC[t].n]
  BY Regained DEF Types
<1>2. inC' = [inC EXCEPT ![t] = IF inC[t].kind = "nogil"
                                 THEN [kind |-> "regain", meth |-> inC[t].meth, n |-> inC[t].n]
                                 ELSE InPython]
  BY <1>1 DEF Finish
<1>3. last'.meth = inC[t].meth /\ (last'.res = "OK" => ok)
  BY DEF Finish, Returned, Result, check_osd_result
<1>4. undefined' = "" \/ (undefined' = "free" /\ ~ok /\ inC[t].meth = "find_memories")
  BY DEF Finish, FreeMemories, Breaks
<1>5. cself' = IF ok /\ inC[t].kind = "connect" THEN "on"
               ELSE IF ok /\ inC[t].kind = "disconnect" THEN "off" ELSE cself
  BY DEF Finish
<1> QED BY <1>2, <1>3, <1>4, <1>5 DEF Ends, Finish, scene, fileVars, pyLogVars

LEMMA AnsweredCase ==
    ASSUME NEW t \in PyThread, Answered(t), Types
    PROVE  EndsAnswered(t)
<1>1. FailsMore /\ ans.ok \in BOOLEAN
  BY FailsCount DEF Answered, Types, RequestTypes
<1>2. Ends(t, ans.ok)
  BY <1>1, FinishCase DEF Answered, Data
<1> QED BY <1>2 DEF Answered, EndsAnswered, IsAnswered

LEMMA TimesOutCase ==
    ASSUME NEW t \in PyThread, TimesOut(t), Types
    PROVE  GaveUp(t)
<1>1. Ends(t, inC[t].meth = "stop")
  BY FinishCase, GivesUpCounts DEF TimesOut, Data, Blames
<1> QED BY <1>1, GivesUpCounts DEF TimesOut, GaveUp, Blames
-----------------------------------------------------------------------------
(* The files of the loggers, and the I/O thread at its requests.           *)

SetsFile(t) ==
    /\ Runs(t) /\ Counts /\ cls # "Log" /\ Sets(t, "setter", "") /\ last'.meth = ""
    /\ blame \subseteq blame'
    /\ \/ closed' = closed /\ undefined' = ""
       \/ closed' = closed \cup ({fp} \ {0}) /\ "file changed" \in blame' /\ undefined' = ""
       \/ closed' = closed /\ undefined' = "closedtwice" /\ fp \in closed
    /\ UNCHANGED <<cls, handler, self, cself, linked, gil, req, ans, io, fp, cfp, funcs, queued,
                   records, pyEvents, pyFails>>
FileOpens(t) ==
    /\ undefined = "" /\ gil = t /\ inC[t].kind = "setter" /\ last'.meth = "set"
    /\ inC' = [inC EXCEPT ![t] = InPython] /\ fp' \in {0, inC[t].n} /\ cfp' \in {cfp, inC[t].n}
    /\ FailsMore
    /\ UNCHANGED <<cls, handler, self, cself, linked, gil, req, ans, io, closed, funcs, undefined,
                   blame, queued, records, pyCalls, pyEvents>>
ElfBegins(t) ==
    /\ Runs(t) /\ Counts /\ cls = "CoretraceLogger" /\ Sets(t, "elf", "")
    /\ last'.meth = "" /\ funcs' = "undefined"
    /\ blame' = blame \cup {"ELF file changed"}
    /\ UNCHANGED <<cls, handler, self, cself, linked, gil, req, ans, io, fp, cfp, closed,
                   undefined, queued, records, pyEvents, pyFails>>
ElfEnds(t) ==
    /\ undefined = "" /\ inC[t].kind = "elf" /\ inC' = [inC EXCEPT ![t] = InPython]
    /\ funcs' \in {"there", "none"} /\ last'.meth = "elf" /\ FailsMore
    /\ UNCHANGED <<cls, handler, self, cself, linked, gil, req, ans, io, fp, cfp, closed,
                   undefined, blame, queued, records, pyCalls, pyEvents>>

Takes == undefined = "" /\ io = "idle" /\ req # <<>> /\ cls # "Log" /\ req' = Tail(req)
IoDone ==
    /\ Takes /\ (Head(req).kind \in Data => linked) /\ ans' = [n |-> Head(req).n, ok |-> TRUE]
    /\ linked' \in BOOLEAN
    /\ linked' <=> IF Head(req).kind \in Data THEN linked ELSE Head(req).kind = "connect"
    /\ io' \in {"idle", "none"}
    /\ UNCHANGED <<cls, handler, self, cself, gil, inC, fp, cfp, closed, funcs, last, undefined,
                   blame, queued, records, pyCalls, pyEvents, pyFails>>
IoFails ==
    /\ Takes
    /\ Head(req).kind = "connect" \/ (Head(req).kind \in Data /\ linked)
    /\ ans' = [n |-> Head(req).n, ok |-> FALSE]
    /\ linked' \in BOOLEAN /\ (linked' <=> Head(req).kind \in Data)
    /\ FailsMore /\ pyFails' > 0
    /\ UNCHANGED <<cls, handler, self, cself, gil, inC, io, fp, cfp, closed, funcs, last,
                   undefined, blame, queued, records, pyCalls, pyEvents>>
IoAborts ==
    /\ Takes /\ Head(req).kind \in Data /\ ~linked /\ undefined' = "socket"
    /\ UNCHANGED <<cls, handler, self, cself, linked, gil, inC, ans, io, fp, cfp, closed, funcs,
                   last, blame, queued, records, pyCalls, pyEvents, pyFails>>

LEMMA IoTakes == IoDone \/ IoFails \/ IoAborts => Takes
  BY DEF IoDone, IoFails, IoAborts

LEMMA SetFileCase ==
    ASSUME NEW t \in PyThread, NEW c \in TraceLoggers, SetFile(t, c)
    PROVE  SetsFile(t)
  BY ReturnedMeth DEF SetFile, SetsFile, TraceLoggers, Runs, Counts, NewCall, Enters, Sets, Blames,
     Breaks, scene, pyLogVars

LEMMA FileOpenedCase ==
    ASSUME NEW t \in PyThread, FileOpened(t), Types
    PROVE  FileOpens(t)
<1>1. FailsMore
  BY FailsCount DEF FileOpened
<1>2. last'.meth = "set"
  BY ReturnedMeth DEF FileOpened
<1> QED BY ONLY <1>1, <1>2, FileOpened(t) DEF FileOpened, FileOpens, Leaves, scene, pyLogVars

LEMMA ElfCases ==
    ASSUME NEW t \in PyThread, CoretraceLogger_elf_file(t) \/ ElfRead(t), Types
    PROVE  ElfBegins(t) \/ ElfEnds(t)
<1>1. ElfRead(t) => FailsMore
  BY FailsCount DEF ElfRead
<1>2. ASSUME CoretraceLogger_elf_file(t)
      PROVE  ElfBegins(t)
  BY ONLY <1>2, ReturnedMeth DEF CoretraceLogger_elf_file, ElfBegins, Counts, NewCall, Enters, Sets,
     Blames, scene, pyLogVars
<1>3. ASSUME ElfRead(t)
      PROVE  ElfEnds(t)
  <2>1. last'.meth = "elf"
    BY <1>3, ReturnedMeth DEF ElfRead
  <2> QED BY ONLY <1>1, <1>3, <2>1 DEF ElfRead, ElfEnds, Leaves, scene, pyLogVars
<1> QED BY <1>2, <1>3

LEMMA BooleanValue ==
    ASSUME NEW x, NEW b \in BOOLEAN, x = b
    PROVE  x \in BOOLEAN /\ (x <=> b)
  OBVIOUS

LEMMA Membership ==
    ASSUME NEW x, NEW e, NEW S, x = (e \in S)
    PROVE  x \in BOOLEAN /\ (x <=> e \in S)
<1> DEFINE b == e \in S
<1>1. b \in BOOLEAN /\ x = b
  OBVIOUS
<1> HIDE DEF b
<1>2. x \in BOOLEAN /\ (x <=> b)
  BY ONLY <1>1, BooleanValue
<1> QED BY <1>2 DEF b

LEMMA IoCases ==
    ASSUME IoServes, Types
    PROVE  IoDone \/ IoFails \/ IoAborts
<1> DEFINE data == Head(req).kind \in {"access", "blocking", "nogil"}
<1>1. linked \in BOOLEAN
  BY DEF Types, ObjectTypes
<1>2. CASE /\ ~data \/ linked
           /\ ans' = [n |-> Head(req).n, ok |-> TRUE] /\ UNCHANGED <<undefined, pyFails>>
           /\ linked' = (IF data THEN linked ELSE Head(req).kind = "connect")
           /\ io' = IF Head(req).kind = "shutdown" THEN "none" ELSE "idle"
  <2>1. linked' \in BOOLEAN
    BY <1>1, <1>2
  <2>2. linked' <=> IF data THEN linked ELSE Head(req).kind = "connect"
    BY <1>1, <1>2
  <2> QED BY <1>2, <2>1, <2>2 DEF IoServes, IoDone, Takes, Data, scene, fileVars, pyLogVars
<1>3. CASE /\ Head(req).kind = "connect" \/ (data /\ linked)
           /\ ans' = [n |-> Head(req).n, ok |-> FALSE] /\ MayFail /\ UNCHANGED <<io, undefined>>
           /\ linked' = data
  <2>1. linked' \in BOOLEAN /\ (linked' <=> data)
    BY <1>3, Membership
  <2> QED
    BY <1>3, <2>1, FailsCount DEF IoServes, IoFails, Takes, Data, scene, fileVars, pyLogVars
<1>4. CASE /\ data /\ ~linked /\ Breaks("socket") /\ UNCHANGED <<ans, linked, io, pyFails>>
  BY <1>4 DEF IoServes, IoAborts, Takes, Data, Breaks, scene, fileVars, pyLogVars
<1> QED BY <1>2, <1>3, <1>4 DEF IoServes

Calls(t) == \/ Broken(t) \/ AtOnce(t) \/ Makes(t) \/ MakesNot(t)
            \/ (\E meth, kind : Begins(t, meth, kind))
            \/ DeallocBegins(t) \/ FreeBegins(t) \/ SetsFile(t) \/ ElfBegins(t) \/ Log_dealloc(t)
Ending(t) == \/ EndsAnswered(t) \/ GaveUp(t) \/ FreeFollows(t) \/ StopFails(t)
             \/ ObjectDropped(t) \/ Freed(t) \/ FileOpens(t) \/ ElfEnds(t)
IoForms == IoDone \/ IoFails \/ IoAborts \/ IoEvent \/ IoTakesGil \/ IoHandlerEnds
Step(t) == \/ TakeGil(t) \/ DropGil(t) \/ Calls(t) \/ Ending(t) \/ IoForms
           \/ log_cb \/ log_cb_withgil \/ UNCHANGED pyVars

(* Every step of the bindings has one of these forms.                      *)
LEMMA StepForms ==
    ASSUME Types, [PyNext]_pyVars
    PROVE  \E t \in PyThread : Step(t)
<1>1. ASSUME NEW t \in PyThread,
             Constructors(t) \/ Deallocators(t) \/ HostmodMethods(t) \/ OtherMethods(t)
             \/ LoggerMethods(t)
      PROVE  Calls(t) \/ Ending(t)
  BY <1>1, ConstructorForms, ConstructCases, DeallocatorForms, DeallocCases, HostmodForms,
     OtherForms, LoggerForms, MethodCases, ReadCases, NoAddressBreaks, SetFileCase, ElfCases
     DEF Calls, Ending
<1>2. ASSUME NEW t \in PyThread, Returns(t)
      PROVE  Calls(t) \/ Ending(t)
  BY <1>2, AnsweredCase, TimesOutCase, DisconnectedCase, DeallocFailsCases, FreedCase,
     FileOpenedCase, ElfCases DEF Returns, Ending, Calls
<1>3. IoStep \/ IoEvent => IoForms
  BY IoCases DEF IoStep, IoForms
<1>4. \E t \in PyThread : TRUE
  BY Bounds
<1> QED BY <1>1, <1>2, <1>3, <1>4 DEF PyNext, Step
-----------------------------------------------------------------------------
(* The steps that change a variable: all others leave it alone.            *)

LEMMA SceneFrame ==
    ASSUME NEW t \in PyThread, Step(t)
    PROVE  cls' = cls /\ handler' = handler /\ blame \subseteq blame'
  BY DEF Step, Calls, Ending, IoForms, TakeGil, DropGil, Broken, AtOnce, Makes, MakesNot,
     Begins, DeallocBegins, FreeBegins, SetsFile, ElfBegins, Log_dealloc, EndsAnswered, GaveUp,
     FreeFollows, StopFails, ObjectDropped, Freed, FileOpens, ElfEnds, IoDone, IoFails,
     IoAborts, IoEvent, IoTakesGil, IoHandlerEnds, log_cb, log_cb_withgil, Ends, pyVars, scene,
     Blames, LogRecorded, LogDiscarded

LEMMA SelfFrame ==
    ASSUME NEW t \in PyThread, Step(t)
    PROVE  self' = self \/ Makes(t) \/ MakesNot(t) \/ Log_dealloc(t) \/ ObjectDropped(t) \/
           Freed(t)
  BY DEF Step, Calls, Ending, IoForms, TakeGil, DropGil, Broken, AtOnce, Begins, DeallocBegins,
     FreeBegins, SetsFile, ElfBegins, EndsAnswered, GaveUp, FreeFollows, StopFails, FileOpens,
     ElfEnds, IoDone, IoFails, IoAborts, IoEvent, IoTakesGil, IoHandlerEnds, log_cb,
     log_cb_withgil, pyVars, scene, fileVars, pyLogVars, Ends, Takes, Returned, Counts, NewCall

LEMMA CselfFrame ==
    ASSUME NEW t \in PyThread, Step(t)
    PROVE  cself' = cself \/ Makes(t) \/ Log_dealloc(t) \/ EndsAnswered(t) \/ GaveUp(t) \/
           FreeFollows(t) \/ Freed(t)
  BY DEF Step, Calls, Ending, IoForms, TakeGil, DropGil, Broken, AtOnce, MakesNot, Begins,
     DeallocBegins, FreeBegins, SetsFile, ElfBegins, StopFails, ObjectDropped, FileOpens,
     ElfEnds, IoDone, IoFails, IoAborts, IoEvent, IoTakesGil, IoHandlerEnds, log_cb,
     log_cb_withgil, pyVars, scene, fileVars, pyLogVars, Takes, Returned, Counts, NewCall

LEMMA LinkedFrame ==
    ASSUME NEW t \in PyThread, Step(t)
    PROVE  linked' = linked \/ IoDone \/ IoFails \/ Freed(t)
  BY DEF Step, Calls, Ending, IoForms, TakeGil, DropGil, Broken, AtOnce, Makes, MakesNot,
     Begins, DeallocBegins, FreeBegins, SetsFile, ElfBegins, Log_dealloc, EndsAnswered, GaveUp,
     FreeFollows, StopFails, ObjectDropped, FileOpens, ElfEnds, IoAborts, IoEvent, IoTakesGil,
     IoHandlerEnds, log_cb, log_cb_withgil, pyVars, scene, fileVars, pyLogVars, Ends, Takes,
     Returned, Counts, NewCall

LEMMA GilFrame ==
    ASSUME NEW t \in PyThread, Step(t)
    PROVE  gil' = gil \/ TakeGil(t) \/ DropGil(t) \/ (\E meth, kind : Begins(t, meth, kind)) \/
           IoTakesGil \/ IoHandlerEnds
  BY DEF Step, Calls, Ending, IoForms, Broken, AtOnce, Makes, MakesNot, DeallocBegins,
     FreeBegins, SetsFile, ElfBegins, Log_dealloc, EndsAnswered, GaveUp, FreeFollows, StopFails,
     ObjectDropped, Freed, FileOpens, ElfEnds, IoDone, IoFails, IoAborts, IoEvent, log_cb,
     log_cb_withgil, pyVars, scene, fileVars, pyLogVars, Ends, Takes, Returned, Counts, NewCall

LEMMA InCFrame ==
    ASSUME NEW t \in PyThread, Step(t)
    PROVE  inC' = inC \/ TakeGil(t) \/ (\E meth, kind : Begins(t, meth, kind)) \/
           DeallocBegins(t) \/ FreeBegins(t) \/ SetsFile(t) \/ ElfBegins(t) \/ EndsAnswered(t)
           \/ GaveUp(t) \/ FreeFollows(t) \/ ObjectDropped(t) \/ Freed(t) \/ FileOpens(t) \/
           ElfEnds(t)
  BY DEF Step, Calls, Ending, IoForms, DropGil, Broken, AtOnce, Makes, MakesNot, Log_dealloc,
     StopFails, IoDone, IoFails, IoAborts, IoEvent, IoTakesGil, IoHandlerEnds, log_cb,
     log_cb_withgil, pyVars, scene, fileVars, pyLogVars, Takes, Returned, Counts, NewCall

LEMMA ReqFrame ==
    ASSUME NEW t \in PyThread, Step(t)
    PROVE  req' = req \/ (\E meth, kind : Begins(t, meth, kind)) \/ DeallocBegins(t) \/
           FreeBegins(t) \/ FreeFollows(t) \/ Freed(t) \/ IoDone \/ IoFails \/ IoAborts
  BY DEF Step, Calls, Ending, IoForms, TakeGil, DropGil, Broken, AtOnce, Makes, MakesNot,
     SetsFile, ElfBegins, Log_dealloc, EndsAnswered, GaveUp, StopFails, ObjectDropped,
     FileOpens, ElfEnds, IoEvent, IoTakesGil, IoHandlerEnds, log_cb, log_cb_withgil, pyVars,
     scene, fileVars, pyLogVars, Ends, Returned, Counts, NewCall

LEMMA AnsFrame ==
    ASSUME NEW t \in PyThread, Step(t)
    PROVE  ans' = ans \/ FreeBegins(t) \/ FreeFollows(t) \/ IoDone \/ IoFails \/ IoEvent
  BY DEF Step, Calls, Ending, IoForms, TakeGil, DropGil, Broken, AtOnce, Makes, MakesNot,
     Begins, DeallocBegins, SetsFile, ElfBegins, Log_dealloc, EndsAnswered, GaveUp, StopFails,
     ObjectDropped, Freed, FileOpens, ElfEnds, IoAborts, IoTakesGil, IoHandlerEnds, log_cb,
     log_cb_withgil, pyVars, scene, fileVars, pyLogVars, Ends, Takes, Returned, Counts, NewCall

LEMMA IoFrame ==
    ASSUME NEW t \in PyThread, Step(t)
    PROVE  io' = io \/ Makes(t) \/ Freed(t) \/ IoDone \/ IoEvent \/ IoTakesGil \/ IoHandlerEnds
  BY DEF Step, Calls, Ending, IoForms, TakeGil, DropGil, Broken, AtOnce, MakesNot, Begins,
     DeallocBegins, FreeBegins, SetsFile, ElfBegins, Log_dealloc, EndsAnswered, GaveUp,
     FreeFollows, StopFails, ObjectDropped, FileOpens, ElfEnds, IoFails, IoAborts, log_cb,
     log_cb_withgil, pyVars, scene, fileVars, pyLogVars, Ends, Takes, Returned, Counts, NewCall

LEMMA FileFrame ==
    ASSUME NEW t \in PyThread, Step(t)
    PROVE  (fp' = fp /\ cfp' = cfp) \/ FileOpens(t)
  BY DEF Step, Calls, Ending, IoForms, TakeGil, DropGil, Broken, AtOnce, Makes, MakesNot,
     Begins, DeallocBegins, FreeBegins, SetsFile, ElfBegins, Log_dealloc, EndsAnswered, GaveUp,
     FreeFollows, StopFails, ObjectDropped, Freed, ElfEnds, IoDone, IoFails, IoAborts, IoEvent,
     IoTakesGil, IoHandlerEnds, log_cb, log_cb_withgil, pyVars, scene, fileVars, pyLogVars,
     Ends, Takes, Returned, Counts, NewCall

LEMMA ClosedFrame ==
    ASSUME NEW t \in PyThread, Step(t)
    PROVE  closed' = closed \/ FreeBegins(t) \/ FreeFollows(t) \/ Freed(t) \/ SetsFile(t)
  BY DEF Step, Calls, Ending, IoForms, TakeGil, DropGil, Broken, AtOnce, Makes, MakesNot,
     Begins, DeallocBegins, ElfBegins, Log_dealloc, EndsAnswered, GaveUp, StopFails,
     ObjectDropped, FileOpens, ElfEnds, IoDone, IoFails, IoAborts, IoEvent, IoTakesGil,
     IoHandlerEnds, log_cb, log_cb_withgil, pyVars, scene, fileVars, pyLogVars, Ends, Takes,
     Returned, Counts, NewCall

LEMMA FuncsFrame ==
    ASSUME NEW t \in PyThread, Step(t)
    PROVE  funcs' = funcs \/ ElfBegins(t) \/ ElfEnds(t)
  BY DEF Step, Calls, Ending, IoForms, TakeGil, DropGil, Broken, AtOnce, Makes, MakesNot,
     Begins, DeallocBegins, FreeBegins, SetsFile, Log_dealloc, EndsAnswered, GaveUp,
     FreeFollows, StopFails, ObjectDropped, Freed, FileOpens, IoDone, IoFails, IoAborts,
     IoEvent, IoTakesGil, IoHandlerEnds, log_cb, log_cb_withgil, pyVars, scene, fileVars,
     pyLogVars, Ends, Takes, Returned, Counts, NewCall

LEMMA LastFrame ==
    ASSUME NEW t \in PyThread, Step(t)
    PROVE  last' = last \/ AtOnce(t) \/ Makes(t) \/ MakesNot(t) \/ (\E meth, kind : Begins(t,
           meth, kind)) \/ DeallocBegins(t) \/ FreeBegins(t) \/ SetsFile(t) \/ ElfBegins(t) \/
           Log_dealloc(t) \/ EndsAnswered(t) \/ GaveUp(t) \/ FileOpens(t) \/ ElfEnds(t)
  BY DEF Step, Calls, Ending, IoForms, TakeGil, DropGil, Broken, FreeFollows, StopFails,
     ObjectDropped, Freed, IoDone, IoFails, IoAborts, IoEvent, IoTakesGil, IoHandlerEnds,
     log_cb, log_cb_withgil, pyVars, scene, fileVars, pyLogVars, Takes, Returned, Counts,
     NewCall

LEMMA UndefinedFrame ==
    ASSUME NEW t \in PyThread, Step(t)
    PROVE  undefined' = undefined \/ Broken(t) \/ SetsFile(t) \/ EndsAnswered(t) \/ GaveUp(t) \/
           StopFails(t) \/ Freed(t) \/ IoAborts \/ IoEvent \/ IoTakesGil \/ log_cb
  BY DEF Step, Calls, Ending, IoForms, TakeGil, DropGil, AtOnce, Makes, MakesNot, Begins,
     DeallocBegins, FreeBegins, ElfBegins, Log_dealloc, FreeFollows, ObjectDropped, FileOpens,
     ElfEnds, IoDone, IoFails, IoHandlerEnds, log_cb_withgil, pyVars, scene, fileVars,
     pyLogVars, Takes, Returned, Counts, NewCall

LEMMA LogFrame ==
    ASSUME NEW t \in PyThread, Step(t)
    PROVE  (queued' = queued /\ records' = records) \/ log_cb \/ log_cb_withgil
  BY DEF Step, Calls, Ending, IoForms, TakeGil, DropGil, Broken, AtOnce, Makes, MakesNot,
     Begins, DeallocBegins, FreeBegins, SetsFile, ElfBegins, Log_dealloc, EndsAnswered, GaveUp,
     FreeFollows, StopFails, ObjectDropped, Freed, FileOpens, ElfEnds, IoDone, IoFails,
     IoAborts, IoEvent, IoTakesGil, IoHandlerEnds, pyVars, scene, fileVars, pyLogVars, Ends,
     Takes, Returned, Counts, NewCall

LEMMA EventsFrame ==
    ASSUME NEW t \in PyThread, Step(t)
    PROVE  pyEvents' = pyEvents \/ IoEvent \/ log_cb
  BY DEF Step, Calls, Ending, IoForms, TakeGil, DropGil, Broken, AtOnce, Makes, MakesNot,
     Begins, DeallocBegins, FreeBegins, SetsFile, ElfBegins, Log_dealloc, EndsAnswered, GaveUp,
     FreeFollows, StopFails, ObjectDropped, Freed, FileOpens, ElfEnds, IoDone, IoFails,
     IoAborts, IoTakesGil, IoHandlerEnds, log_cb_withgil, pyVars, scene, fileVars, pyLogVars,
     Ends, Takes, Returned, Counts, NewCall

LEMMA CallsFrame ==
    ASSUME NEW t \in PyThread, Step(t)
    PROVE  pyCalls' = pyCalls \/ (pyCalls < MaxPyCalls /\ pyCalls' = pyCalls + 1)
  BY DEF Step, Calls, Ending, IoForms, TakeGil, DropGil, Broken, AtOnce, Makes, MakesNot,
     Begins, DeallocBegins, FreeBegins, SetsFile, ElfBegins, Log_dealloc, EndsAnswered, GaveUp,
     FreeFollows, StopFails, ObjectDropped, Freed, FileOpens, ElfEnds, IoDone, IoFails,
     IoAborts, IoEvent, IoTakesGil, IoHandlerEnds, log_cb, log_cb_withgil, Ends, Takes, Counts,
     NewCall, pyVars

LEMMA FailsFrame ==
    ASSUME NEW t \in PyThread, Step(t)
    PROVE  pyFails' = pyFails \/ MayFail \/ FailsMore
  BY DEF Step, Calls, Ending, IoForms, TakeGil, DropGil, Broken, AtOnce, Makes, MakesNot,
     Begins, DeallocBegins, FreeBegins, SetsFile, ElfBegins, Log_dealloc, EndsAnswered, GaveUp,
     FreeFollows, StopFails, ObjectDropped, Freed, FileOpens, ElfEnds, IoDone, IoFails,
     IoAborts, IoEvent, IoTakesGil, IoHandlerEnds, log_cb, log_cb_withgil, Ends, Takes,
     LogDiscarded, LogRecorded, MayFail, pyVars

-----------------------------------------------------------------------------
(* The types.                                                              *)

LEMMA SeqAppend ==
    ASSUME NEW S, NEW s \in Seq(S), NEW e \in S
    PROVE  /\ Append(s, e) \in Seq(S) /\ Len(Append(s, e)) = Len(s) + 1 /\ Len(s) \in Nat
           /\ Append(s, e)[Len(s) + 1] = e /\ \A i \in 1 .. Len(s) : Append(s, e)[i] = s[i]
           /\ Append(s, e) # <<>>
  OBVIOUS

LEMMA SeqTail ==
    ASSUME NEW S, NEW s \in Seq(S), s # <<>>
    PROVE  /\ Head(s) \in S /\ Head(s) = s[1] /\ Tail(s) \in Seq(S)
           /\ Len(Tail(s)) = Len(s) - 1 /\ Len(s) \in Nat /\ Len(s) > 0
           /\ \A i \in 1 .. (Len(s) - 1) : Tail(s)[i] = s[i + 1]
  OBVIOUS

LEMMA CallsCount ==
    ASSUME NEW t \in PyThread, Step(t), Types
    PROVE  pyCalls' \in 0 .. MaxPyCalls /\ pyCalls <= pyCalls' /\ pyFails' \in 0 .. MaxPyFails
           /\ pyFails <= pyFails' /\ pyCalls \in Nat
<1>1. pyCalls \in 0 .. MaxPyCalls /\ pyFails \in 0 .. MaxPyFails
  BY DEF Types, CountTypes
<1> QED BY <1>1, Bounds, CallsFrame, FailsFrame DEF FailsMore, MayFail

LEMMA ObjectTypesStep ==
    ASSUME NEW t \in PyThread, Step(t), Types
    PROVE  ObjectTypes'
<1> USE DEF Types, ObjectTypes
<1>1. cls' \in Classes /\ handler' \in HandlersOf(cls')
  BY SceneFrame DEF HandlersOf
<1>2. self' \in {"none", "live", "dead"}
  BY SelfFrame DEF Makes, MakesNot, Log_dealloc, ObjectDropped, Freed
<1>3. cself' \in {"null", "off", "on", "freed"}
  BY CselfFrame DEF Makes, Log_dealloc, EndsAnswered, GaveUp, Ends, FreeFollows, Freed
<1>4. linked' \in BOOLEAN
  BY LinkedFrame DEF IoDone, IoFails, Freed
<1>5. gil' \in PyThread \cup {"io", "none"}
  BY GilFrame DEF TakeGil, DropGil, Begins, IoTakesGil, IoHandlerEnds
<1>6. io' \in {"none", "idle", "gil", "handler"}
  BY IoFrame DEF Makes, Freed, IoDone, IoEvent, IoTakesGil, IoHandlerEnds
<1> QED BY <1>1, <1>2, <1>3, <1>4, <1>5, <1>6

LEMMA CellTypes ==
    ASSUME Types, pyCalls' \in 0 .. MaxPyCalls, NEW t \in PyThread
    PROVE  /\ InPython \in Call /\ inC[t] \in Call
           /\ \A k \in Kinds, m \in Methods : [kind |-> k, meth |-> m, n |-> pyCalls'] \in Call
           /\ [kind |-> "regain", meth |-> inC[t].meth, n |-> inC[t].n] \in Call
           /\ \A c \in Call : [inC EXCEPT ![t] = c] \in [PyThread -> Call]
<1>1. inC[t] \in Call /\ \A c \in Call : [inC EXCEPT ![t] = c] \in [PyThread -> Call]
  BY DEF Types
<1>2. InPython \in Call
  BY Bounds DEF Call, InPython, Kinds, Methods
<1>3. \A k \in Kinds, m \in Methods : [kind |-> k, meth |-> m, n |-> pyCalls'] \in Call
  BY DEF Call
<1>4. [kind |-> "regain", meth |-> inC[t].meth, n |-> inC[t].n] \in Call
  BY <1>1 DEF Call, Kinds
<1> QED BY <1>1, <1>2, <1>3, <1>4

LEMMA InCTypesStep ==
    ASSUME NEW t \in PyThread, Step(t), Types
    PROVE  inC' \in [PyThread -> Call]
<1>1. pyCalls' \in 0 .. MaxPyCalls
  BY CallsCount
<1>2. CASE inC' = inC
  BY <1>2 DEF Types
<1>3. CASE TakeGil(t)
  BY <1>1, <1>3, CellTypes DEF TakeGil
<1>4. ASSUME NEW meth, NEW kind, Begins(t, meth, kind)
      PROVE  inC' \in [PyThread -> Call]
  BY <1>1, <1>4, CellTypes DEF Begins, Sets, Legal, Kinds, Data
<1>5. CASE DeallocBegins(t) \/ FreeBegins(t) \/ SetsFile(t) \/ ElfBegins(t) \/ FreeFollows(t)
  BY <1>1, <1>5, CellTypes, ZenonT(60) DEF DeallocBegins, FreeBegins, SetsFile, ElfBegins, FreeFollows,
     Sets, Kinds, Methods
<1>6. CASE EndsAnswered(t) \/ GaveUp(t)
  BY <1>1, <1>6, CellTypes DEF EndsAnswered, GaveUp, Ends
<1>7. CASE ObjectDropped(t) \/ Freed(t) \/ FileOpens(t) \/ ElfEnds(t)
  BY <1>1, <1>7, CellTypes DEF ObjectDropped, Freed, FileOpens, ElfEnds
<1> QED BY <1>2, <1>3, <1>4, <1>5, <1>6, <1>7, InCFrame

LEMMA RequestTypesStep ==
    ASSUME NEW t \in PyThread, Step(t), Types
    PROVE  RequestTypes'
<1>1. pyCalls' \in 0 .. MaxPyCalls
  BY CallsCount
<1>2. \A k \in Asked : [n |-> pyCalls', kind |-> k] \in Request
  BY <1>1 DEF Request
<1>3. req \in Seq(Request) /\ ans \in [n : 0 .. MaxPyCalls, ok : BOOLEAN]
  BY DEF Types, RequestTypes
<1>4. \A r \in Request : Append(req, r) \in Seq(Request)
  BY <1>3
<1>5. req # <<>> => Tail(req) \in Seq(Request) /\ Head(req) \in Request
  BY <1>3
<1>6. req' \in Seq(Request)
  <2>1. ASSUME NEW meth, NEW kind, Begins(t, meth, kind)
        PROVE  req' \in Seq(Request)
    <3>1. kind \in Asked
      BY <2>1 DEF Begins, Legal, Asked, Data
    <3> QED BY <1>2, <1>3, <1>4, <2>1, <3>1 DEF Begins
  <2>2. CASE DeallocBegins(t) \/ FreeBegins(t) \/ FreeFollows(t)
    BY <1>2, <1>4, <2>2 DEF DeallocBegins, FreeBegins, FreeFollows, Asked
  <2>3. CASE IoDone \/ IoFails \/ IoAborts
    BY <1>5, <2>3, IoTakes DEF Takes
  <2>4. CASE Freed(t)
    <3>1. <<>> \in Seq(Request)
      OBVIOUS
    <3> QED BY ONLY <2>4, <3>1 DEF Freed
  <2> QED BY <1>3, <2>1, <2>2, <2>3, <2>4, ReqFrame
<1>7. ans' \in [n : 0 .. MaxPyCalls, ok : BOOLEAN]
  <2>1. CASE FreeBegins(t) \/ FreeFollows(t)
    <3>1. [n |-> 0, ok |-> FALSE] \in [n : 0 .. MaxPyCalls, ok : BOOLEAN]
      BY Bounds
    <3> QED BY ONLY <2>1, <3>1 DEF FreeBegins, FreeFollows
  <2>2. CASE IoDone \/ IoFails
    <3>1. Head(req).n \in 0 .. MaxPyCalls
      BY <1>5, <2>2, IoTakes DEF Takes, Request
    <3>2. \A n \in 0 .. MaxPyCalls :
              /\ [n |-> n, ok |-> TRUE] \in [n : 0 .. MaxPyCalls, ok : BOOLEAN]
              /\ [n |-> n, ok |-> FALSE] \in [n : 0 .. MaxPyCalls, ok : BOOLEAN]
      OBVIOUS
    <3> QED BY ONLY <2>2, <3>1, <3>2 DEF IoDone, IoFails
  <2>3. CASE IoEvent
    <3>1. \A u \in PyThread : inC[u].n \in 0 .. MaxPyCalls
      BY DEF Types, Call
    <3>2. \A n \in 0 .. MaxPyCalls : [n |-> n, ok |-> TRUE] \in [n : 0 .. MaxPyCalls, ok : BOOLEAN]
      OBVIOUS
    <3> QED BY ONLY <1>3, <2>3, <3>1, <3>2 DEF IoEvent
  <2> QED BY <1>3, <2>1, <2>2, <2>3, AnsFrame
<1> QED BY <1>6, <1>7 DEF RequestTypes

LEMMA FileTypesStep ==
    ASSUME NEW t \in PyThread, Step(t), Types
    PROVE  FileTypes'
<1>1. /\ fp \in 0 .. MaxPyCalls /\ cfp \in 0 .. MaxPyCalls /\ closed \subseteq 1 .. MaxPyCalls
      /\ funcs \in {"none", "there", "undefined"}
  BY DEF Types, FileTypes
<1>2. fp' \in 0 .. MaxPyCalls /\ cfp' \in 0 .. MaxPyCalls
  <2>1. inC[t].n \in 0 .. MaxPyCalls
    BY DEF Types, Call
  <2>2. CASE FileOpens(t)
    <3>1. fp' \in {0, inC[t].n} /\ cfp' \in {cfp, inC[t].n}
      BY <2>2 DEF FileOpens
    <3> QED BY ONLY <1>1, <2>1, <3>1, Bounds
  <2> QED BY <1>1, <2>2, FileFrame
<1>3. {fp} \ {0} \subseteq 1 .. MaxPyCalls
  BY <1>1
<1>4. closed' \subseteq 1 .. MaxPyCalls
  BY <1>1, <1>3, ClosedFrame DEF FreeBegins, FilesClosed, FreeFollows, Freed, SetsFile
<1>5. funcs' \in {"none", "there", "undefined"}
  BY <1>1, FuncsFrame DEF ElfBegins, ElfEnds
<1> QED BY <1>2, <1>4, <1>5 DEF FileTypes

LEMMA CountTypesStep ==
    ASSUME NEW t \in PyThread, Step(t), Types
    PROVE  CountTypes'
<1>1. pyEvents \in 0 .. MaxPyEvents
  BY DEF Types, CountTypes
<1>2. pyEvents' \in 0 .. MaxPyEvents
  <2>1. pyEvents' = pyEvents \/ (pyEvents < MaxPyEvents /\ pyEvents' = pyEvents + 1)
    BY EventsFrame DEF IoEvent, log_cb
  <2> QED BY ONLY <1>1, <2>1, Bounds
<1> QED BY <1>2, CallsCount DEF CountTypes

LEMMA LogTypesStep ==
    ASSUME NEW t \in PyThread, Step(t), Types
    PROVE  LogTypes'
<1>1. queued \in Numbers /\ records \in Numbers /\ Len(queued) <= PENDING
  BY DEF Types, LogTypes
<1>2. pyEvents \in 0 .. MaxPyEvents
  BY DEF Types, CountTypes
<1>3. CASE log_cb
  <2>1. pyEvents' \in 1 .. MaxPyEvents
    <3>1. pyEvents < MaxPyEvents /\ pyEvents' = pyEvents + 1
      BY <1>3 DEF log_cb
    <3> QED BY ONLY <1>2, <3>1, Bounds
  <2>2. Append(queued, pyEvents') \in Numbers
        /\ Len(Append(queued, pyEvents')) = Len(queued) + 1 /\ Len(queued) \in Nat
    BY ONLY <1>1, <2>1, SeqAppend DEF Numbers
  <2>3. queued' = queued \/ (queued' = Append(queued, pyEvents') /\ Len(queued) < PENDING)
    BY <1>3 DEF log_cb
  <2>4. records' = records
    BY <1>3 DEF log_cb
  <2>5. queued' \in Numbers /\ Len(queued') <= PENDING
    <3>1. CASE queued' = queued
      BY ONLY <1>1, <3>1
    <3>2. CASE queued' = Append(queued, pyEvents') /\ Len(queued) < PENDING
      BY ONLY <2>2, <3>2, Bounds
    <3> QED BY <2>3, <3>1, <3>2
  <2> QED BY ONLY <1>1, <2>4, <2>5 DEF LogTypes
<1>4. CASE log_cb_withgil
  <2>1. queued # <<>> /\ queued' = Tail(queued)
        /\ (records' = records \/ records' = Append(records, Head(queued)))
    BY <1>4 DEF log_cb_withgil, LogDiscarded, LogRecorded
  <2>2. /\ Head(queued) \in 1 .. MaxPyEvents /\ Tail(queued) \in Numbers
        /\ Len(Tail(queued)) = Len(queued) - 1 /\ Len(queued) \in Nat
    BY ONLY <1>1, <2>1, SeqTail DEF Numbers
  <2>3. Append(records, Head(queued)) \in Numbers
    BY ONLY <1>1, <2>2, SeqAppend DEF Numbers
  <2>4. queued' \in Numbers /\ Len(queued') <= PENDING
    BY ONLY <1>1, <2>1, <2>2, Bounds
  <2>5. records' \in Numbers
    BY ONLY <1>1, <2>1, <2>3
  <2> QED BY ONLY <2>4, <2>5 DEF LogTypes
<1> QED BY <1>1, <1>3, <1>4, LogFrame DEF LogTypes

LEMMA TypesStep ==
    ASSUME NEW t \in PyThread, Step(t), Types
    PROVE  Types'
  BY ObjectTypesStep, InCTypesStep, RequestTypesStep, FileTypesStep, CountTypesStep,
     LogTypesStep DEF Types
-----------------------------------------------------------------------------
(* Where the threads are after a step.                                     *)

LEMMA Placed ==
    ASSUME Types, NEW t \in PyThread, NEW r, inC' = [inC EXCEPT ![t] = r]
    PROVE  inC'[t] = r /\ \A u \in PyThread \ {t} : inC'[u] = inC[u]
<1>1. inC \in [PyThread -> Call]
  BY DEF Types
<1> QED BY ONLY <1>1, inC' = [inC EXCEPT ![t] = r]

Enter(t) == DeallocBegins(t) \/ FreeBegins(t) \/ SetsFile(t) \/ ElfBegins(t) \/ FreeFollows(t)
Leave(t) == ObjectDropped(t) \/ Freed(t) \/ FileOpens(t) \/ ElfEnds(t)
Return(t) == EndsAnswered(t) \/ GaveUp(t)
Begin(t) == \E meth, kind : Begins(t, meth, kind)

At(t, k, m, n) == inC'[t].kind = k /\ inC'[t].meth = m /\ inC'[t].n = n

LEMMA SetsCell ==
    ASSUME Types, NEW t \in PyThread, NEW k, NEW m, Sets(t, k, m)
    PROVE  At(t, k, m, pyCalls')
<1>1. inC'[t] = [kind |-> k, meth |-> m, n |-> pyCalls']
  BY Placed DEF Sets
<1> QED BY ONLY <1>1 DEF At

LEMMA BeginsCell ==
    ASSUME Types, NEW t \in PyThread, NEW meth, NEW kind, Begins(t, meth, kind)
    PROVE  At(t, kind, meth, pyCalls')
  BY SetsCell DEF Begins

LEMMA EnterCell ==
    ASSUME Types, NEW t \in PyThread, Enter(t)
    PROVE  /\ DeallocBegins(t) => At(t, "dealloc", "", pyCalls')
           /\ FreeBegins(t) \/ FreeFollows(t) => At(t, "shutdown", "", pyCalls')
           /\ SetsFile(t) => At(t, "setter", "", pyCalls')
           /\ ElfBegins(t) => At(t, "elf", "", pyCalls')
<1> USE SetsCell
<1>1. DeallocBegins(t) => At(t, "dealloc", "", pyCalls')
  BY DEF DeallocBegins
<1>2. FreeBegins(t) \/ FreeFollows(t) => At(t, "shutdown", "", pyCalls')
  BY DEF FreeBegins, FreeFollows
<1>3. SetsFile(t) => At(t, "setter", "", pyCalls')
  BY DEF SetsFile
<1>4. ElfBegins(t) => At(t, "elf", "", pyCalls')
  BY DEF ElfBegins
<1> QED BY ONLY <1>1, <1>2, <1>3, <1>4

LEMMA OutCell ==
    ASSUME Types, NEW t \in PyThread,
           Leave(t) \/ (Return(t) /\ inC[t].kind # "nogil")
           \/ (TakeGil(t) /\ inC[t].kind = "regain")
    PROVE  inC'[t] = InPython /\ At(t, "python", "", 0)
<1>1. inC' = [inC EXCEPT ![t] = InPython]
  <2>1. CASE Leave(t)
    BY <2>1 DEF Leave, ObjectDropped, Freed, FileOpens, ElfEnds
  <2>2. CASE Return(t) /\ inC[t].kind # "nogil"
    BY <2>2 DEF Return, EndsAnswered, GaveUp, Ends
  <2>3. CASE TakeGil(t) /\ inC[t].kind = "regain"
    BY <2>3 DEF TakeGil
  <2> QED BY <2>1, <2>2, <2>3
<1>2. inC'[t] = InPython
  BY <1>1, Placed
<1>3. At(t, "python", "", 0)
  <2>1. InPython.kind = "python" /\ InPython.meth = "" /\ InPython.n = 0
    BY DEF InPython
  <2> QED BY ONLY <1>2, <2>1 DEF At
<1> QED BY <1>2, <1>3

LEMMA RegainCell ==
    ASSUME Types, NEW t \in PyThread, Return(t), inC[t].kind = "nogil"
    PROVE  At(t, "regain", inC[t].meth, inC[t].n)
<1>1. inC' = [inC EXCEPT ![t] = [kind |-> "regain", meth |-> inC[t].meth, n |-> inC[t].n]]
  BY DEF Return, EndsAnswered, GaveUp, Ends
<1>2. inC'[t] = [kind |-> "regain", meth |-> inC[t].meth, n |-> inC[t].n]
  BY <1>1, Placed
<1> QED BY ONLY <1>2 DEF At

LEMMA WaitingCell ==
    ASSUME Types, NEW t \in PyThread, TakeGil(t), inC[t].kind # "regain"
    PROVE  inC'[t] = inC[t]
<1>1. inC' = [inC EXCEPT ![t] = inC[t]]
  BY DEF TakeGil
<1> QED BY <1>1, Placed

LEMMA CellForms ==
    ASSUME NEW t \in PyThread, Step(t)
    PROVE  inC' = inC \/ TakeGil(t) \/ Begin(t) \/ Enter(t) \/ Return(t) \/ Leave(t)
  BY InCFrame DEF Begin, Enter, Return, Leave

LEMMA OtherCells ==
    ASSUME NEW t \in PyThread, Step(t), Types, NEW u \in PyThread, u # t
    PROVE  inC'[u] = inC[u]
<1>1. (\E r : inC' = [inC EXCEPT ![t] = r]) => inC'[u] = inC[u]
  BY Placed
<1>2. TakeGil(t) \/ Begin(t) \/ Enter(t) \/ Return(t) \/ Leave(t)
      => \E r : inC' = [inC EXCEPT ![t] = r]
  BY DEF TakeGil, Begin, Begins, Enter, DeallocBegins, FreeBegins, SetsFile, ElfBegins,
     FreeFollows, Sets, Return, EndsAnswered, GaveUp, Ends, Leave, ObjectDropped, Freed,
     FileOpens, ElfEnds
<1> QED BY ONLY <1>1, <1>2, CellForms, Step(t), t \in PyThread

(* A call that enters the library finds nobody there.                      *)
LEMMA NobodyInside ==
    ASSUME NEW t \in PyThread, Types, GilInv, CallInv,
           Begin(t) \/ DeallocBegins(t) \/ FreeBegins(t) \/ ElfBegins(t)
    PROVE  /\ \A u \in PyThread : ~Inside(u)
           /\ gil = t /\ inC[t].kind = "python" /\ undefined = "" /\ self = "live"
<1>1. gil = t /\ inC[t].kind = "python" /\ undefined = "" /\ self = "live"
  BY DEF Begin, Begins, DeallocBegins, FreeBegins, ElfBegins, Runs, Counts
<1>2. CASE Begin(t) \/ DeallocBegins(t) \/ FreeBegins(t)
  <2>1. \A u \in PyThread \ {t} : ~Inside(u)
    <3>1. CASE Begin(t)
      BY <3>1 DEF Begin, Begins, Others, Inside
    <3>2. CASE DeallocBegins(t) \/ FreeBegins(t)
      <4>1. InPython.kind = "python"
        BY DEF InPython
      <4>2. \A u \in PyThread \ {t} : inC[u] = InPython
        BY <3>2 DEF DeallocBegins, FreeBegins
      <4> QED BY ONLY <4>1, <4>2 DEF Inside
    <3> QED BY <1>2, <3>1, <3>2
  <2> QED BY <1>1, <2>1 DEF Inside
<1>3. CASE ElfBegins(t)
  <2>1. \A u \in PyThread : Inside(u) => cls = "MemoryAccess" \/ gil = u
    BY DEF GilInv, CallInv
  <2> QED BY <1>1, <1>3, <2>1 DEF ElfBegins, Inside
<1> QED BY <1>1, <1>2, <1>3

LEMMA GilStep ==
    ASSUME NEW t \in PyThread, Step(t), Types, GilInv, CallInv
    PROVE  GilInv'
<1>1. io' \in {"gil", "handler"} => handler' = "python"
  BY IoFrame, SceneFrame DEF GilInv, Makes, Freed, IoDone, IoEvent, IoTakesGil, IoHandlerEnds
<1>2. io' = "handler" => gil' = "io"
  <2>1. io' = "handler" => IoTakesGil \/ (io = "handler" /\ io' = io)
    BY IoFrame DEF Makes, Freed, IoDone, IoEvent, IoHandlerEnds
  <2>2. gil = "io" => gil' = "io" \/ IoHandlerEnds
    BY GilFrame, Bounds DEF TakeGil, DropGil, Begins, IoTakesGil, Runs
  <2> QED BY <2>1, <2>2 DEF GilInv, IoTakesGil, IoHandlerEnds
<1>3. ASSUME NEW u \in PyThread, Inside(u)', inC'[u].kind \notin {"nogil", "regain"}
      PROVE  gil' = u
  <2>1. CASE inC'[u] = inC[u]
    <3>1. gil = u
      BY <1>3, <2>1 DEF Inside, GilInv
    <3>2. gil' = gil \/ inC[u].kind \in {"python", "setter"} \/ Begin(t)
      BY <3>1, GilFrame, Bounds DEF TakeGil, DropGil, Begin, IoTakesGil, IoHandlerEnds, GilInv
    <3> QED BY <1>3, <2>1, <3>1, <3>2, NobodyInside DEF Inside
  <2>2. CASE inC'[u] # inC[u]
    <3>1. u = t
      BY <2>2, OtherCells
    <3>2. CASE TakeGil(t) \/ Return(t) \/ Leave(t)
      BY <1>3, <2>2, <3>1, <3>2, OutCell, RegainCell, WaitingCell DEF Inside, At
    <3>3. CASE Begin(t) \/ DeallocBegins(t) \/ FreeBegins(t) \/ ElfBegins(t)
      <4>1. gil = t
        BY <3>3, NobodyInside
      <4>2. CASE Begin(t)
        <5>1. PICK meth, kind : Begins(t, meth, kind)
          BY <4>2 DEF Begin
        <5>2. inC'[t].kind = kind
          BY <5>1, BeginsCell DEF At
        <5> QED BY <1>3, <3>1, <4>1, <5>1, <5>2 DEF Begins
      <4>3. CASE ~Begin(t)
        BY <3>1, <3>3, <4>1, <4>3 DEF DeallocBegins, FreeBegins, ElfBegins
      <4> QED BY <4>2, <4>3
    <3>4. CASE SetsFile(t)
      BY <1>3, <3>1, <3>4, EnterCell DEF Inside, At, Enter
    <3>5. CASE FreeFollows(t)
      BY <3>1, <3>5 DEF FreeFollows, GilInv, Inside
    <3> QED BY <2>2, <3>2, <3>3, <3>4, <3>5, CellForms DEF Enter
  <2> QED BY <2>1, <2>2
<1>4. ASSUME NEW u \in PyThread, NEW v \in PyThread, Inside(u)', Inside(v)'
      PROVE  u = v
  <2>1. CASE inC' = inC \/ TakeGil(t) \/ Return(t) \/ Leave(t) \/ SetsFile(t) \/ FreeFollows(t)
    <3>1. \A w \in PyThread : Inside(w)' => Inside(w)
      <4>1. ASSUME NEW w \in PyThread, w # t, Inside(w)'
            PROVE  Inside(w)
        BY <4>1, OtherCells DEF Inside
      <4>2. ASSUME Inside(t)'
            PROVE  Inside(t)
        <5>1. CASE inC' = inC
          BY <4>2, <5>1 DEF Inside
        <5>2. CASE TakeGil(t) \/ Leave(t) \/ SetsFile(t)
          BY <4>2, <5>2, OutCell, WaitingCell, EnterCell DEF Inside, At, Enter
        <5>3. CASE Return(t) \/ FreeFollows(t)
          BY <5>3 DEF Inside, Return, EndsAnswered, GaveUp, Ends, FreeFollows, Data
        <5> QED BY <2>1, <5>1, <5>2, <5>3
      <4> QED BY <4>1, <4>2
    <3> QED BY <1>4, <3>1 DEF GilInv
  <2>2. CASE Begin(t) \/ DeallocBegins(t) \/ FreeBegins(t) \/ ElfBegins(t)
    <3>1. \A w \in PyThread : Inside(w)' => w = t
      BY <2>2, NobodyInside, OtherCells DEF Inside
    <3> QED BY <1>4, <3>1
  <2> QED BY <2>1, <2>2, CellForms DEF Enter
<1> QED BY <1>1, <1>2, <1>3, <1>4 DEF GilInv
-----------------------------------------------------------------------------
(* CallInv: what a thread in the library relies on is not taken away from  *)
(* it by other threads.                                                    *)

(* A thread that waits meets none of the other calls.                      *)
LEMMA OthersWait ==
    ASSUME NEW t \in PyThread, Step(t), Types, GilInv, CallInv,
           NEW u \in PyThread, Inside(u), inC'[u] = inC[u]
    PROVE  /\ ~Begin(t) /\ ~DeallocBegins(t) /\ ~FreeBegins(t) /\ ~ElfBegins(t)
           /\ ~Return(t) /\ ~FreeFollows(t) /\ ~ObjectDropped(t) /\ ~Freed(t) /\ ~ElfEnds(t)
           /\ ~Makes(t) /\ ~MakesNot(t) /\ ~Log_dealloc(t)
<1>1. self = "live" /\ cls # "Log"
  BY DEF CallInv
<1>2. ~Return(t) /\ ~FreeFollows(t) /\ ~ObjectDropped(t) /\ ~Freed(t) /\ ~ElfEnds(t)
  <2>1. CASE u = t
    <3>1. ~Return(t)
      BY <2>1, OutCell, RegainCell DEF Inside, At
    <3>2. ~ObjectDropped(t) /\ ~Freed(t) /\ ~ElfEnds(t)
      BY <2>1, OutCell DEF Inside, At, Leave
    <3>3. ~FreeFollows(t)
      BY <2>1, EnterCell DEF At, Enter, FreeFollows
    <3> QED BY <3>1, <3>2, <3>3
  <2>2. CASE u # t
    <3>1. ~Inside(t)
      BY <2>2 DEF GilInv
    <3> QED BY <3>1 DEF Inside, Return, EndsAnswered, GaveUp, Ends, FreeFollows, ObjectDropped,
        Freed, ElfEnds, Data
  <2> QED BY <2>1, <2>2
<1>3. ~Makes(t) /\ ~MakesNot(t) /\ ~Log_dealloc(t)
  BY <1>1 DEF Makes, MakesNot, Log_dealloc
<1>4. ~Begin(t) /\ ~DeallocBegins(t) /\ ~FreeBegins(t) /\ ~ElfBegins(t)
  BY NobodyInside
<1> QED BY <1>2, <1>3, <1>4

LEMMA StillInside ==
    ASSUME NEW t \in PyThread, Step(t), Types, GilInv, CallInv,
           NEW u \in PyThread, Inside(u), inC'[u] = inC[u]
    PROVE  self' = "live" /\ last'.meth \notin {"connect", "disconnect"} /\ cself' = cself
<1>1. self = "live" /\ cls # "Log" /\ last.meth \notin {"connect", "disconnect"}
  BY DEF CallInv
<1>2. /\ ~Begin(t) /\ ~DeallocBegins(t) /\ ~FreeBegins(t) /\ ~ElfBegins(t)
      /\ ~Return(t) /\ ~FreeFollows(t) /\ ~ObjectDropped(t) /\ ~Freed(t) /\ ~ElfEnds(t)
      /\ ~Makes(t) /\ ~MakesNot(t) /\ ~Log_dealloc(t)
  BY OthersWait
<1>5. self' = "live"
  BY <1>1, <1>2, SelfFrame
<1>6. cself' = cself
  BY <1>2, CselfFrame DEF Return
<1>7. AtOnce(t) => last'.meth \notin {"connect", "disconnect"}
  BY DEF AtOnce, Others, Inside, Runs
<1>8. SetsFile(t) \/ FileOpens(t) => last'.meth \notin {"connect", "disconnect"}
  BY DEF SetsFile, FileOpens
<1> QED BY <1>1, <1>2, <1>5, <1>6, <1>7, <1>8, LastFrame DEF Return, Begin

CallOK(t) ==
    /\ inC[t].kind = "python" => inC[t] = InPython
    /\ inC[t].kind = "setter" => inC[t].meth = ""
    /\ Inside(t) => /\ inC[t].n \in 1 .. pyCalls /\ self = "live" /\ cls # "Log"
                    /\ last.meth \notin {"connect", "disconnect"}
    /\ inC[t].kind \in {"nogil", "regain"} => cls = "MemoryAccess"
    /\ inC[t].meth = "find_memories" => cls = "MemoryAccess"
    /\ inC[t].meth = "event_receive" => inC[t].kind \in {"access", "blocking"}
    /\ inC[t].meth = "connect" <=> inC[t].kind = "connect"
    /\ inC[t].meth = "disconnect" <=> inC[t].kind = "disconnect"
    /\ inC[t].kind = "connect" => cself # "on"
    /\ Asking(t) /\ inC[t].kind # "connect" => cself = "on"
    /\ inC[t].kind = "shutdown" => cself = "off"

LEMMA CallStep ==
    ASSUME NEW t \in PyThread, Step(t), Types, GilInv, CallInv
    PROVE  CallInv'
<1>1. /\ pyCalls' \in Nat /\ pyCalls \in Nat /\ pyCalls <= pyCalls' /\ cls' = cls
      /\ \A u \in PyThread : CallOK(u)
  <2>1. \A u \in PyThread : CallOK(u)
    BY DEF CallInv, CallOK
  <2>2. pyCalls' \in 0 .. MaxPyCalls /\ pyCalls <= pyCalls' /\ pyCalls \in Nat
    BY CallsCount
  <2> QED BY <2>1, <2>2, Bounds, SceneFrame
<1>0. pyCalls' = pyCalls + 1 => pyCalls' \in 1 .. pyCalls'
  <2>1. pyCalls \in Nat
    BY <1>1
  <2> QED BY ONLY <2>1
<1>2. ASSUME NEW u \in PyThread, inC'[u] = inC[u]
      PROVE  CallOK(u)'
  <2>1. CASE Inside(u)
    <3>1. self' = "live" /\ last'.meth \notin {"connect", "disconnect"} /\ cself' = cself
      BY <1>2, <2>1, StillInside
    <3>2. inC[u].n \in 1 .. pyCalls'
      <4>1. inC[u].n \in 1 .. pyCalls
        BY ONLY <1>1, <2>1, u \in PyThread DEF CallOK
      <4> QED BY ONLY <1>1, <4>1
    <3> QED BY ONLY <1>1, <1>2, <2>1, <3>1, <3>2 DEF CallOK, Inside, Asking
  <2>2. CASE ~Inside(u)
    BY ONLY <1>1, <1>2, <2>2 DEF CallOK, Inside, Asking, Data
  <2> QED BY <2>1, <2>2
<1>3. ASSUME TakeGil(t) \/ Return(t) \/ Leave(t), inC'[t] # inC[t]
      PROVE  CallOK(t)'
  <2>1. CASE Return(t) /\ inC[t].kind = "nogil"
    <3>1. At(t, "regain", inC[t].meth, inC[t].n)
      BY <2>1, RegainCell
    <3>2. self' = self /\ last'.meth = inC[t].meth /\ cself' = cself
      BY <2>1, SelfFrame DEF Return, EndsAnswered, GaveUp, Ends
    <3>3. Inside(t) /\ inC[t].n \in 1 .. pyCalls'
      <4>1. Inside(t) /\ inC[t].n \in 1 .. pyCalls
        BY ONLY <1>1, <2>1, t \in PyThread DEF CallOK, Inside
      <4> QED BY ONLY <1>1, <4>1
    <3> QED BY ONLY <1>1, <2>1, <3>1, <3>2, <3>3 DEF CallOK, Inside, Asking, At, Data
  <2>2. CASE ~(Return(t) /\ inC[t].kind = "nogil")
    <3>1. inC'[t] = InPython /\ At(t, "python", "", 0)
      BY <1>3, <2>2, OutCell, WaitingCell
    <3> QED BY ONLY <1>1, <3>1 DEF CallOK, Inside, Asking, At, Data
  <2> QED BY <2>1, <2>2
<1>4. ASSUME NEW meth, NEW kind, Begins(t, meth, kind)
      PROVE  CallOK(t)'
  <2>1. At(t, kind, meth, pyCalls')
    BY <1>4, BeginsCell
  <2>2. /\ self' = "live" /\ pyCalls' = pyCalls + 1 /\ last'.meth = "" /\ Legal(cls, meth, kind)
        /\ cself' = cself /\ ((kind = "connect") # (cself = "on") \/ meth = "event_receive")
    BY <1>4 DEF Begins, Counts
  <2>3. pyCalls' \in 1 .. pyCalls'
    BY ONLY <1>0, <2>2
  <2> QED BY ONLY <1>1, <2>1, <2>2, <2>3 DEF CallOK, Inside, Asking, At, Data, Legal
<1>5. ASSUME DeallocBegins(t) \/ FreeBegins(t) \/ ElfBegins(t) \/ SetsFile(t)
      PROVE  CallOK(t)'
  <2>1. self' = "live" /\ pyCalls' = pyCalls + 1 /\ last'.meth = "" /\ cls # "Log" /\ cself' = cself
    BY <1>5 DEF DeallocBegins, FreeBegins, ElfBegins, SetsFile, Counts
  <2>0. pyCalls' \in 1 .. pyCalls'
    BY ONLY <1>0, <2>1
  <2>2. CASE DeallocBegins(t)
    <3>1. At(t, "dealloc", "", pyCalls') /\ cself = "on"
      BY <2>2, EnterCell DEF Enter, DeallocBegins
    <3> QED BY ONLY <1>1, <2>0, <2>1, <3>1 DEF CallOK, Inside, Asking, At, Data
  <2>3. CASE FreeBegins(t)
    <3>1. At(t, "shutdown", "", pyCalls') /\ cself = "off"
      BY <2>3, EnterCell DEF Enter, FreeBegins
    <3> QED BY ONLY <1>1, <2>0, <2>1, <3>1 DEF CallOK, Inside, Asking, At, Data
  <2>4. CASE ElfBegins(t)
    <3>1. At(t, "elf", "", pyCalls')
      BY <2>4, EnterCell DEF Enter
    <3> QED BY ONLY <1>1, <2>0, <2>1, <3>1 DEF CallOK, Inside, Asking, At, Data
  <2>5. CASE SetsFile(t)
    <3>1. At(t, "setter", "", pyCalls')
      BY <2>5, EnterCell DEF Enter
    <3> QED BY ONLY <1>1, <2>0, <2>1, <3>1 DEF CallOK, Inside, Asking, At, Data
  <2> QED BY <1>5, <2>2, <2>3, <2>4, <2>5
<1>6. ASSUME FreeFollows(t)
      PROVE  CallOK(t)'
  <2>1. At(t, "shutdown", "", pyCalls') /\ cself' = "off" /\ self' = self /\ last' = last
        /\ pyCalls' = pyCalls /\ inC[t].kind = "dealloc"
    BY <1>6, EnterCell DEF Enter, FreeFollows
  <2>2. self = "live" /\ cls # "Log" /\ last.meth \notin {"connect", "disconnect"}
        /\ pyCalls \in 1 .. pyCalls
    <3>1. self = "live" /\ cls # "Log" /\ last.meth \notin {"connect", "disconnect"}
          /\ inC[t].n \in 1 .. pyCalls
      BY ONLY <1>1, <2>1, t \in PyThread DEF CallOK, Inside
    <3> QED BY ONLY <1>1, <3>1
  <2> QED BY ONLY <1>1, <2>1, <2>2 DEF CallOK, Inside, Asking, At, Data
<1>7. CallOK(t)'
  BY <1>2, <1>3, <1>4, <1>5, <1>6, CellForms DEF Enter, Begin
<1>8. \A u \in PyThread : CallOK(u)'
  BY <1>2, <1>7, OtherCells
<1> QED BY ONLY <1>8 DEF CallOK, CallInv
-----------------------------------------------------------------------------
(* QueueInv: the last request is that of the thread that waits.            *)

LEMMA SeqEmpty ==
    ASSUME NEW S, NEW s \in Seq(S)
    PROVE  /\ Len(s) \in Nat /\ (s = <<>> <=> Len(s) = 0)
           /\ \A i \in 1 .. Len(s) : s[i] \in S
  OBVIOUS

LEMMA RequestFields ==
    ASSUME NEW r \in Request
    PROVE  r.n \in Nat /\ r.kind \in Asked
  BY Bounds DEF Request

LEMMA AnsFields ==
    \A n, ok : ans' = [n |-> n, ok |-> ok] => ans'.n = n /\ ans'.ok = ok
  OBVIOUS

LEMMA TailLast ==
    ASSUME NEW s \in Seq(Request), NEW n, NEW kind, LastIs(s, n, kind)
    PROVE  \/ Head(s).n = n /\ Head(s).kind = kind /\ Tail(s) = <<>> /\ Len(s) = 1
           \/ Head(s).n # n /\ LastIs(Tail(s), n, kind) /\ Len(s) # 1
<1>1. /\ s # <<>> /\ s[Len(s)].n = n /\ s[Len(s)].kind = kind
      /\ \A i \in 1 .. (Len(s) - 1) : s[i].n # n
  BY DEF LastIs
<1>2. /\ Head(s) = s[1] /\ Tail(s) \in Seq(Request) /\ Len(Tail(s)) = Len(s) - 1
      /\ Len(s) \in Nat /\ Len(s) > 0
      /\ \A i \in 1 .. (Len(s) - 1) : Tail(s)[i] = s[i + 1]
  BY ONLY <1>1, SeqTail, s \in Seq(Request)
<1>3. CASE Len(s) = 1
  <2>1. Tail(s) = <<>>
    BY ONLY <1>2, <1>3, SeqEmpty
  <2> QED BY ONLY <1>1, <1>2, <1>3, <2>1
<1>4. CASE Len(s) # 1
  <2>1. 1 \in 1 .. (Len(s) - 1) /\ Len(s) - 1 \in 1 .. (Len(s) - 1)
        /\ (Len(s) - 1) + 1 = Len(s)
    BY ONLY <1>2, <1>4
  <2>2. Tail(s)[Len(Tail(s))] = s[Len(s)] /\ Head(s).n # n
    BY ONLY <1>1, <1>2, <2>1
  <2>3. Tail(s) # <<>>
    <3>1. Len(Tail(s)) # 0
      BY ONLY <1>2, <1>4
    <3> QED BY ONLY <1>2, <3>1, SeqEmpty
  <2>4. ASSUME NEW i \in 1 .. (Len(Tail(s)) - 1)
        PROVE  Tail(s)[i].n # n
    <3>1. i \in 1 .. (Len(s) - 1) /\ i + 1 \in 1 .. (Len(s) - 1)
      BY ONLY <1>2, <2>4
    <3> QED BY ONLY <1>1, <1>2, <3>1
  <2> QED BY ONLY <1>1, <1>4, <2>2, <2>3, <2>4 DEF LastIs
<1> QED BY <1>3, <1>4

LEMMA AppendLast ==
    ASSUME NEW s \in Seq(Request), NEW n \in Nat, NEW kind, NEW m \in Nat, m < n,
           \A i \in 1 .. Len(s) : s[i].n <= m, [n |-> n, kind |-> kind] \in Request
    PROVE  LastIs(Append(s, [n |-> n, kind |-> kind]), n, kind)
<1> DEFINE r == [n |-> n, kind |-> kind]
<1>1. r.n = n /\ r.kind = kind /\ r \in Request
  OBVIOUS
<1> HIDE DEF r
<1>2. /\ Len(Append(s, r)) = Len(s) + 1 /\ Len(s) \in Nat /\ Append(s, r)[Len(s) + 1] = r
      /\ \A i \in 1 .. Len(s) : Append(s, r)[i] = s[i]
      /\ Append(s, r) # <<>>
  BY ONLY <1>1, SeqAppend, s \in Seq(Request)
<1>3. (Len(s) + 1) - 1 = Len(s)
  BY ONLY <1>2
<1>4. ASSUME NEW i \in 1 .. Len(s)
      PROVE  s[i].n # n
  <2>1. s[i].n <= m
    BY <1>4
  <2>2. s[i].n \in Nat
    BY SeqEmpty, RequestFields
  <2> QED BY ONLY <2>1, <2>2, m < n, n \in Nat, m \in Nat
<1>5. LastIs(Append(s, r), n, kind)
  BY ONLY <1>1, <1>2, <1>3, <1>4 DEF LastIs
<1> QED BY ONLY <1>5 DEF r

LEMMA EventThread ==
    ASSUME CallInv, NEW u \in PyThread, inC[u].meth = "event_receive"
    PROVE  Inside(u) /\ ~Asking(u)
  BY DEF CallInv, Inside, Asking

LEMMA NumberedStep ==
    ASSUME NEW t \in PyThread, Step(t), Types, CallInv, QueueInv
    PROVE  Numbered'
<1>1. /\ pyCalls \in Nat /\ pyCalls' \in Nat /\ pyCalls <= pyCalls'
      /\ pyCalls' \in 0 .. MaxPyCalls
  <2>1. pyCalls' \in 0 .. MaxPyCalls /\ pyCalls <= pyCalls' /\ pyCalls \in Nat
    BY CallsCount
  <2> QED BY ONLY <2>1, Bounds
<1>2. /\ req \in Seq(Request) /\ ans.n \in Nat /\ ans.n <= pyCalls
      /\ \A i \in 1 .. Len(req) : req[i].n <= pyCalls /\ req[i].n \in Nat
  <2>1. req \in Seq(Request) /\ ans.n \in Nat
    BY Bounds DEF Types, RequestTypes
  <2>2. \A i \in 1 .. Len(req) : req[i].n \in Nat
    BY ONLY <2>1, SeqEmpty, RequestFields
  <2> QED BY <2>1, <2>2 DEF QueueInv, Numbered
<1>3. ans'.n <= pyCalls'
  <2>1. CASE FreeBegins(t) \/ FreeFollows(t)
    <3>1. ans'.n = 0
      BY <2>1, AnsFields DEF FreeBegins, FreeFollows
    <3> QED BY ONLY <1>1, <3>1
  <2>2. CASE IoDone \/ IoFails
    <3>1. req # <<>> /\ ans'.n = Head(req).n
      BY <2>2, IoTakes, AnsFields DEF IoDone, IoFails, Takes
    <3>2. Head(req) = req[1] /\ 1 \in 1 .. Len(req)
      <4>1. Head(req) = req[1] /\ Len(req) \in Nat /\ Len(req) > 0
        BY ONLY <1>2, <3>1, SeqTail
      <4> QED BY ONLY <4>1
    <3> QED BY ONLY <1>1, <1>2, <3>1, <3>2
  <2>3. CASE IoEvent
    <3>1. ans' = ans \/ \E u \in PyThread : Inside(u) /\ ans'.n = inC[u].n
      <4>1. \/ ans' = ans
            \/ \E u \in PyThread : /\ inC[u].meth = "event_receive"
                                   /\ ans' = [n |-> inC[u].n, ok |-> TRUE]
        BY <2>3 DEF IoEvent
      <4> QED BY <4>1, EventThread
    <3>2. \A u \in PyThread : Inside(u) => inC[u].n \in 1 .. pyCalls
      BY DEF CallInv
    <3> QED BY ONLY <1>1, <1>2, <3>1, <3>2
  <2>4. CASE ans' = ans
    BY ONLY <1>1, <1>2, <2>4
  <2> QED BY <2>1, <2>2, <2>3, <2>4, AnsFrame
<1>4. \A i \in 1 .. Len(req') : req'[i].n <= pyCalls'
  <2>1. ASSUME NEW kind \in Asked, req' = Append(req, [n |-> pyCalls', kind |-> kind])
        PROVE  \A i \in 1 .. Len(req') : req'[i].n <= pyCalls'
    <3> DEFINE r == [n |-> pyCalls', kind |-> kind]
    <3>1. r \in Request /\ r.n = pyCalls'
      BY ONLY <1>1, kind \in Asked DEF Request
    <3>2. req' = Append(req, r)
      BY ONLY <2>1
    <3> HIDE DEF r
    <3>3. /\ Len(req') = Len(req) + 1 /\ Len(req) \in Nat /\ req'[Len(req) + 1] = r
          /\ \A i \in 1 .. Len(req) : req'[i] = req[i]
      BY ONLY <1>2, <3>1, <3>2, SeqAppend
    <3>4. \A i \in 1 .. (Len(req) + 1) : i \in 1 .. Len(req) \/ i = Len(req) + 1
      BY ONLY <3>3
    <3> QED BY ONLY <1>1, <1>2, <3>1, <3>3, <3>4
  <2>2. ASSUME req' = Tail(req), req # <<>>
        PROVE  \A i \in 1 .. Len(req') : req'[i].n <= pyCalls'
    <3>1. /\ Len(req') = Len(req) - 1 /\ Len(req) \in Nat
          /\ \A i \in 1 .. (Len(req) - 1) : req'[i] = req[i + 1]
      BY ONLY <1>2, <2>2, SeqTail
    <3>2. \A i \in 1 .. (Len(req) - 1) : i + 1 \in 1 .. Len(req)
      BY ONLY <3>1
    <3> QED BY ONLY <1>1, <1>2, <3>1, <3>2, SMTT(40)
  <2>3. CASE IoDone \/ IoFails \/ IoAborts
    BY <2>2, <2>3, IoTakes DEF Takes
  <2>4. CASE Freed(t)
    <3>1. req' = <<>>
      BY <2>4 DEF Freed
    <3> QED BY ONLY <3>1
  <2>5. CASE req' = req
    BY ONLY <1>1, <1>2, <2>5
  <2>6. ASSUME NEW meth, NEW kind, Begins(t, meth, kind)
        PROVE  req' = req \/ (kind \in Asked /\ req' = Append(req, [n |-> pyCalls', kind |-> kind]))
    BY <2>6 DEF Begins, Legal, Asked, Data
  <2>7. CASE DeallocBegins(t) \/ FreeBegins(t) \/ FreeFollows(t)
    <3>1. \E kind \in {"disconnect", "shutdown"} :
              req' = Append(req, [n |-> pyCalls', kind |-> kind])
      BY <2>7 DEF DeallocBegins, FreeBegins, FreeFollows
    <3> QED BY ONLY <2>1, <3>1 DEF Asked
  <2> QED BY <2>1, <2>3, <2>4, <2>5, <2>6, <2>7, ReqFrame
<1> QED BY ONLY <1>3, <1>4 DEF Numbered
LEMMA EventIsNobodys ==
    ASSUME NEW u \in PyThread, Types, GilInv, CallInv, Inside(u), Asking(u), IoEvent
    PROVE  ans' = ans
<1>1. \A v \in PyThread : inC[v].meth = "event_receive" => FALSE
  BY EventThread DEF GilInv
<1> QED BY <1>1 DEF IoEvent

LEMMA AskingInside == ASSUME NEW u, Asking(u) PROVE Inside(u)
  BY DEF Asking, Inside, Data

LEMMA AskedStep ==
    ASSUME NEW t \in PyThread, Step(t), Types, GilInv, CallInv, QueueInv,
           NEW u \in PyThread, inC'[u] = inC[u], Asking(u), undefined = "", undefined' = ""
    PROVE  AskOK(u)'
<1>1. Inside(u)
  BY AskingInside
<1>2. AskOK(u)
  BY DEF QueueInv
<1>3. /\ ~Begin(t) /\ ~DeallocBegins(t) /\ ~FreeBegins(t) /\ ~FreeFollows(t) /\ ~Freed(t)
  BY <1>1, OthersWait
<1>4. (IsAnswered(u)' <=> ans'.n = inC[u].n) /\ Wanted(u)' = Wanted(u)
  BY DEF IsAnswered, Wanted
<1>5. CASE IoDone \/ IoFails
  <2>1. req # <<>> /\ req' = Tail(req) /\ req \in Seq(Request) /\ ans'.n = Head(req).n
        /\ linked \in BOOLEAN /\ linked' \in BOOLEAN
    <3>1. req # <<>> /\ req' = Tail(req)
      BY <1>5, IoTakes DEF Takes
    <3>2. ans'.n = Head(req).n
      BY <1>5, AnsFields DEF IoDone, IoFails
    <3>3. linked' \in BOOLEAN
      BY TypesStep DEF Types, ObjectTypes
    <3> QED BY <3>1, <3>2, <3>3 DEF Types, ObjectTypes, RequestTypes
  <2>2. ~IsAnswered(u) /\ LastIs(req, inC[u].n, Wanted(u))
    BY ONLY <1>2, <2>1 DEF AskOK, Has
  <2>3. \/ Head(req).n = inC[u].n /\ Head(req).kind = Wanted(u) /\ Tail(req) = <<>>
        \/ Head(req).n # inC[u].n /\ LastIs(Tail(req), inC[u].n, Wanted(u))
    BY ONLY <2>1, <2>2, TailLast
  <2>4. CASE Head(req).n # inC[u].n
    <3>1. LastIs(req', inC[u].n, Wanted(u)) /\ ~(IsAnswered(u)')
      BY ONLY <1>4, <2>1, <2>3, <2>4
    <3>2. LastIs(req, inC[u].n, Wanted(u))'
      BY ONLY <1>4, <3>1, inC'[u] = inC[u] DEF LastIs
    <3> QED BY ONLY <3>1, <3>2 DEF AskOK
  <2>5. CASE Head(req).n = inC[u].n
    <3>1. Head(req).kind = Wanted(u) /\ req' = <<>> /\ IsAnswered(u)'
      BY ONLY <1>4, <2>1, <2>3, <2>5
    <3>2. Wanted(u) = "connect" => (linked' <=> ans'.ok)
      BY <1>5, <3>1, AnsFields DEF IoDone, IoFails, Data
    <3>3. Wanted(u) = "disconnect" => ans'.ok /\ ~linked'
      BY <1>5, <3>1, AnsFields DEF IoDone, IoFails, Data
    <3> QED BY ONLY <1>4, <3>1, <3>2, <3>3 DEF AskOK, Has
  <2> QED BY <2>4, <2>5
<1>6. CASE ~IoDone /\ ~IoFails
  <2>1. ~IoAborts
    BY DEF IoAborts
  <2>2. req' = req /\ linked' = linked
    BY <1>3, <1>6, <2>1, ReqFrame, LinkedFrame DEF Begin
  <2>3. ans' = ans
    BY <1>1, <1>3, <1>6, EventIsNobodys, AnsFrame
  <2> QED BY ONLY <1>2, <2>2, <2>3, inC'[u] = inC[u] DEF AskOK, Has, LastIs, Wanted, IsAnswered
<1> QED BY <1>5, <1>6

LEMMA AskBegins ==
    ASSUME NEW t \in PyThread, Step(t), Types, QueueInv, NEW kind \in Asked, NEW k,
           At(t, k, inC'[t].meth, pyCalls'), pyCalls' = pyCalls + 1, ans' = ans,
           kind = (IF k = "dealloc" THEN "disconnect" ELSE k),
           req' = Append(req, [n |-> pyCalls', kind |-> kind])
    PROVE  AskOK(t)' /\ ~(IsAnswered(t)')
<1>1. pyCalls \in Nat /\ pyCalls' \in Nat /\ pyCalls' \in 0 .. MaxPyCalls /\ pyCalls < pyCalls'
  <2>1. pyCalls' \in 0 .. MaxPyCalls /\ pyCalls \in Nat
    BY CallsCount
  <2> QED BY ONLY <2>1, Bounds, pyCalls' = pyCalls + 1
<1>2. [n |-> pyCalls', kind |-> kind] \in Request
  BY ONLY <1>1, kind \in Asked DEF Request
<1>3. req \in Seq(Request) /\ \A i \in 1 .. Len(req) : req[i].n <= pyCalls
  BY DEF Types, RequestTypes, QueueInv, Numbered
<1>4. LastIs(req', pyCalls', kind)
  <2>1. LastIs(Append(req, [n |-> pyCalls', kind |-> kind]), pyCalls', kind)
    BY ONLY <1>1, <1>2, <1>3, AppendLast
  <2> QED BY ONLY <2>1, req' = Append(req, [n |-> pyCalls', kind |-> kind])
<1>5. inC'[t].n = pyCalls' /\ Wanted(t)' = kind
  BY DEF At, Wanted
<1>6. ~(IsAnswered(t)')
  <2>1. ans.n <= pyCalls /\ ans.n \in Nat
    <3>1. ans.n <= pyCalls
      BY DEF QueueInv, Numbered
    <3>2. ans.n \in 0 .. MaxPyCalls
      BY DEF Types, RequestTypes
    <3> QED BY ONLY <3>1, <3>2, Bounds
  <2>2. ans'.n # inC'[t].n
    BY ONLY <1>1, <1>5, <2>1, ans' = ans
  <2> QED BY ONLY <2>2 DEF IsAnswered
<1> QED BY ONLY <1>4, <1>5, <1>6 DEF AskOK

LEMMA QueueStep ==
    ASSUME NEW t \in PyThread, Step(t), Types, GilInv, CallInv, QueueInv
    PROVE  QueueInv'
<1>1. Numbered'
  BY NumberedStep
<1>2. ~ans'.ok /\ ans'.n > 0 => pyFails' > 0
  <2>1. ~ans.ok /\ ans.n > 0 => pyFails' > 0
    <3>1. pyFails \in Nat /\ pyFails' \in Nat /\ pyFails <= pyFails'
      <4>1. pyFails \in 0 .. MaxPyFails /\ pyFails' \in 0 .. MaxPyFails /\ pyFails <= pyFails'
        BY CallsCount DEF Types, CountTypes
      <4> QED BY ONLY <4>1, Bounds
    <3>2. ~ans.ok /\ ans.n > 0 => pyFails > 0
      BY DEF QueueInv
    <3> QED BY ONLY <3>1, <3>2
  <2>2. FreeBegins(t) \/ FreeFollows(t) => ans'.n = 0
    BY AnsFields DEF FreeBegins, FreeFollows
  <2>3. IoDone => ans'.ok
    BY AnsFields DEF IoDone
  <2>4. IoFails => pyFails' > 0
    BY DEF IoFails
  <2>5. IoEvent => ans' = ans \/ ans'.ok
    BY AnsFields DEF IoEvent
  <2> QED BY ONLY <2>1, <2>2, <2>3, <2>4, <2>5, AnsFrame, Step(t), t \in PyThread
<1>3. ASSUME NEW u \in PyThread, undefined' = "", Asking(u)'
      PROVE  AskOK(u)'
  <2>1. undefined = ""
    BY <1>3, UndefinedFrame DEF Broken, Runs, SetsFile, EndsAnswered, GaveUp, Ends, StopFails,
       Freed, IoAborts, Takes, IoEvent, IoTakesGil, log_cb
  <2>2. CASE inC'[u] = inC[u]
    <3>1. Asking(u)
      BY <1>3, <2>2 DEF Asking
    <3> QED BY <1>3, <2>1, <2>2, <3>1, AskedStep
  <2>3. CASE inC'[u] # inC[u]
    <3>1. u = t
      BY <2>3, OtherCells
    <3>2. ASSUME NEW meth, NEW kind, Begins(t, meth, kind)
          PROVE  AskOK(t)'
      <4>1. At(t, kind, meth, pyCalls')
        BY <3>2, BeginsCell
      <4>2. meth # "event_receive"
        BY <1>3, <3>1, <4>1 DEF Asking, At
      <4>3. /\ req' = Append(req, [n |-> pyCalls', kind |-> kind]) /\ ans' = ans
            /\ pyCalls' = pyCalls + 1 /\ kind \in Asked /\ kind # "dealloc"
        BY <3>2, <4>2 DEF Begins, Counts, Legal, Asked, Data
      <4>4. At(t, kind, inC'[t].meth, pyCalls')
        BY ONLY <4>1 DEF At
      <4> QED BY <4>3, <4>4, AskBegins
    <3>3. CASE DeallocBegins(t)
      <4>1. At(t, "dealloc", "", pyCalls')
        BY <3>3, EnterCell DEF Enter
      <4>2. At(t, "dealloc", inC'[t].meth, pyCalls')
        BY ONLY <4>1 DEF At
      <4>3. /\ req' = Append(req, [n |-> pyCalls', kind |-> "disconnect"]) /\ ans' = ans
            /\ pyCalls' = pyCalls + 1 /\ "disconnect" \in Asked
        BY <3>3 DEF DeallocBegins, Counts, Asked
      <4> QED BY <3>1, <4>2, <4>3, AskBegins
    <3>4. FreeBegins(t) \/ FreeFollows(t) \/ SetsFile(t) \/ ElfBegins(t) => ~(Asking(t)')
      BY EnterCell DEF Enter, At, Asking, Data
    <3>5. Leave(t) \/ Return(t) \/ TakeGil(t) => ~(Asking(t)') \/ inC'[t] = inC[t]
      BY OutCell, RegainCell, WaitingCell DEF At, Asking, Data
    <3> QED BY <1>3, <2>3, <3>1, <3>2, <3>3, <3>4, <3>5, CellForms DEF Enter, Begin
  <2> QED BY <2>2, <2>3
<1> QED BY ONLY <1>1, <1>2, <1>3 DEF QueueInv
-----------------------------------------------------------------------------
(* AgreeInv: without a wait that was given up, the object and its I/O      *)
(* thread agree.                                                           *)

LEMMA OneRequest ==
    ASSUME req = <<>>, NEW r \in Request, req' = Append(req, r)
    PROVE  Len(req') = 1 /\ req'[1] = r
  OBVIOUS

LEMMA Serves ==
    ASSUME Types, QueueInv, IoDone \/ IoFails
    PROVE  /\ req # <<>> /\ req' = Tail(req) /\ req \in Seq(Request)
           /\ Head(req) = req[1] /\ Len(req) \in Nat /\ Len(req) > 0
           /\ Len(req') = Len(req) - 1 /\ \A i \in 1 .. Len(req') : req'[i] = req[i + 1]
           /\ ans'.n = Head(req).n
           /\ IoDone => (linked' <=> IF Head(req).kind \in Data THEN linked
                                     ELSE Head(req).kind = "connect")
           /\ IoFails => (linked' <=> Head(req).kind \in Data)
                         /\ Head(req).kind \in {"connect"} \cup Data
<1>1. req # <<>> /\ req' = Tail(req) /\ req \in Seq(Request)
  BY IoTakes DEF Takes, Types, RequestTypes
<1>2. /\ Head(req) = req[1] /\ Len(req) \in Nat /\ Len(req) > 0
      /\ Len(req') = Len(req) - 1 /\ \A i \in 1 .. Len(req') : req'[i] = req[i + 1]
  BY ONLY <1>1, SeqTail
<1>3. ans'.n = Head(req).n
  BY AnsFields DEF IoDone, IoFails
<1>4. IoDone => (linked' <=> IF Head(req).kind \in Data THEN linked
                             ELSE Head(req).kind = "connect")
  BY DEF IoDone
<1>5. IoFails => (linked' <=> Head(req).kind \in Data)
                 /\ Head(req).kind \in {"connect"} \cup Data
  BY DEF IoFails
<1> QED BY ONLY <1>1, <1>2, <1>3, <1>4, <1>5

(* A thread that stays where it is.                                        *)
LEMMA AgreeStays ==
    ASSUME NEW t \in PyThread, Step(t), Types, GilInv, CallInv, QueueInv,
           NEW u \in PyThread, Inside(u), inC'[u] = inC[u], AgreeOK(u),
           undefined = "", undefined' = ""
    PROVE  AgreeOK(u)'
<1>1. ~Begin(t) /\ ~DeallocBegins(t) /\ ~FreeBegins(t) /\ ~FreeFollows(t) /\ ~Freed(t)
  BY OthersWait
<1>2. cself' = cself
  BY StillInside
<1>3. CASE IoDone \/ IoFails
  <2>1. /\ req # <<>> /\ req' = Tail(req) /\ req \in Seq(Request)
        /\ Head(req) = req[1] /\ Len(req) \in Nat /\ Len(req) > 0
        /\ Len(req') = Len(req) - 1 /\ \A i \in 1 .. Len(req') : req'[i] = req[i + 1]
        /\ ans'.n = Head(req).n
        /\ IoDone => (linked' <=> IF Head(req).kind \in Data THEN linked
                                  ELSE Head(req).kind = "connect")
        /\ IoFails => (linked' <=> Head(req).kind \in Data)
                      /\ Head(req).kind \in {"connect"} \cup Data
    BY <1>3, Serves
  <2>2. CASE Asking(u)
    <3>1. AskOK(u)
      BY <2>2 DEF QueueInv
    <3>2. ~IsAnswered(u) /\ LastIs(req, inC[u].n, Wanted(u)) /\ Len(req) = 1
      BY ONLY <2>1, <2>2, <3>1, AgreeOK(u) DEF AskOK, Has, AgreeOK
    <3>3. req[1].n = inC[u].n /\ req[1].kind = Wanted(u)
      BY ONLY <3>2 DEF LastIs
    <3>4. IsAnswered(u)'
      BY ONLY <2>1, <3>3, inC'[u] = inC[u] DEF IsAnswered
    <3>5. inC[u].kind \in Data => linked'
      BY ONLY <1>3, <2>1, <2>2, <3>3, AgreeOK(u) DEF AgreeOK, Wanted, Data
    <3>6. inC[u].kind # "shutdown" /\ Asking(u)'
      BY <2>2 DEF Asking, Data
    <3> QED BY ONLY <3>4, <3>5, <3>6, inC'[u] = inC[u] DEF AgreeOK
  <2>3. CASE ~Asking(u)
    <3>1. inC[u].kind = "shutdown"
      BY ONLY <2>1, <2>3, AgreeOK(u) DEF AgreeOK, Settled
    <3>2. ~linked /\ \A i \in 1 .. Len(req) : req[i].kind = "shutdown"
      BY ONLY <3>1, AgreeOK(u) DEF AgreeOK
    <3>3. 1 \in 1 .. Len(req) /\ \A i \in 1 .. Len(req') : i + 1 \in 1 .. Len(req)
      BY ONLY <2>1
    <3>4. ~linked'
      BY ONLY <1>3, <2>1, <3>2, <3>3 DEF Data
    <3>5. \A i \in 1 .. Len(req') : req'[i].kind = "shutdown"
      BY ONLY <2>1, <3>2, <3>3
    <3>6. ~(Asking(u)')
      BY <2>3 DEF Asking
    <3> QED BY ONLY <3>1, <3>4, <3>5, <3>6, inC'[u] = inC[u] DEF AgreeOK, Data
  <2> QED BY <2>2, <2>3
<1>4. CASE ~IoDone /\ ~IoFails
  <2>1. ~IoAborts
    BY DEF IoAborts
  <2>2. req' = req /\ linked' = linked
    BY <1>1, <1>4, <2>1, ReqFrame, LinkedFrame DEF Begin
  <2>3. Asking(u) => ans' = ans
    BY <1>1, <1>4, EventIsNobodys, AnsFrame
  <2> QED
    BY ONLY <1>2, <2>2, <2>3, inC'[u] = inC[u], AgreeOK(u)
    DEF AgreeOK, Settled, Asking, IsAnswered
<1> QED BY <1>3, <1>4

(* A thread that enters the library.                                       *)
LEMMA AgreeEnters ==
    ASSUME NEW t \in PyThread, Step(t), Types, GilInv, CallInv, QueueInv, AgreeInv,
           Begin(t) \/ DeallocBegins(t) \/ FreeBegins(t) \/ ElfBegins(t),
           undefined' = "", "timeout" \notin blame
    PROVE  AgreeOK(t)'
<1>1. Settled
  <2>1. /\ \A u \in PyThread : ~Inside(u)
        /\ undefined = "" /\ self = "live"
    BY NobodyInside
  <2> QED BY ONLY <2>1, AgreeInv, "timeout" \notin blame DEF AgreeInv
<1>2. req = <<>> /\ (linked <=> cself = "on")
  BY <1>1 DEF Settled
<1>3. pyCalls' \in 0 .. MaxPyCalls
  BY CallsCount
<1>4. ASSUME NEW meth, NEW kind, Begins(t, meth, kind)
      PROVE  AgreeOK(t)'
  <2>1. At(t, kind, meth, pyCalls')
    BY <1>4, BeginsCell
  <2>2. /\ cself' = cself /\ linked' = linked
        /\ (kind = "connect") # (cself = "on") \/ meth = "event_receive"
        /\ Legal(cls, meth, kind)
        /\ req' = IF meth = "event_receive" THEN req
                  ELSE Append(req, [n |-> pyCalls', kind |-> kind])
    BY <1>4 DEF Begins
  <2>3. CASE meth = "event_receive"
    BY ONLY <1>2, <2>1, <2>2, <2>3 DEF AgreeOK, Settled, Asking, At, Legal, Data
  <2>4. CASE meth # "event_receive"
    <3>1. [n |-> pyCalls', kind |-> kind] \in Request
      BY <1>3, <2>2 DEF Request, Legal, Asked, Data
    <3>2. Len(req') = 1
      BY ONLY <1>2, <2>2, <2>4, <3>1, OneRequest
    <3>3. Asking(t)' /\ kind # "shutdown"
      BY ONLY <2>1, <2>2, <2>4 DEF Asking, At, Legal, Data
    <3>4. kind \in Data => linked
      BY ONLY <1>2, <2>2, <2>4 DEF Data
    <3> QED BY ONLY <1>2, <2>1, <2>2, <3>2, <3>3, <3>4 DEF AgreeOK, At
  <2> QED BY <2>3, <2>4
<1>5. CASE DeallocBegins(t)
  <2>1. At(t, "dealloc", "", pyCalls')
    BY <1>5, EnterCell DEF Enter
  <2>2. /\ cself' = cself /\ linked' = linked
        /\ req' = Append(req, [n |-> pyCalls', kind |-> "disconnect"])
    BY <1>5 DEF DeallocBegins
  <2>3. [n |-> pyCalls', kind |-> "disconnect"] \in Request
    BY <1>3 DEF Request, Asked
  <2>4. Len(req') = 1
    BY ONLY <1>2, <2>2, <2>3, OneRequest
  <2> QED BY ONLY <1>2, <2>1, <2>2, <2>4 DEF AgreeOK, At, Asking, Data
<1>6. CASE FreeBegins(t)
  <2>1. At(t, "shutdown", "", pyCalls')
    BY <1>6, EnterCell DEF Enter
  <2>2. /\ cself = "off" /\ linked' = linked
        /\ req' = Append(req, [n |-> pyCalls', kind |-> "shutdown"])
    BY <1>6 DEF FreeBegins
  <2>3. [n |-> pyCalls', kind |-> "shutdown"] \in Request
        /\ [n |-> pyCalls', kind |-> "shutdown"].kind = "shutdown"
    BY <1>3 DEF Request, Asked
  <2>4. Len(req') = 1 /\ req'[1].kind = "shutdown"
    BY ONLY <1>2, <2>2, <2>3, OneRequest
  <2>5. \A i \in 1 .. Len(req') : req'[i].kind = "shutdown"
    BY ONLY <2>4
  <2> QED BY ONLY <1>2, <2>1, <2>2, <2>5 DEF AgreeOK, At, Asking, Data
<1>7. CASE ElfBegins(t)
  <2>1. At(t, "elf", "", pyCalls')
    BY <1>7, EnterCell DEF Enter
  <2>2. cself' = cself /\ linked' = linked /\ req' = req
    BY <1>7 DEF ElfBegins
  <2> QED BY ONLY <1>2, <2>1, <2>2 DEF AgreeOK, At, Asking, Data, Settled
<1> QED BY <1>4, <1>5, <1>6, <1>7 DEF Begin

(* What a thread that returns leaves behind.                               *)
LEMMA SettledAfter ==
    ASSUME NEW t \in PyThread, Step(t), Types, GilInv, CallInv, QueueInv, AgreeOK(t),
           Return(t) \/ ElfEnds(t) \/ (TakeGil(t) /\ inC[t].kind = "regain"),
           "timeout" \notin blame'
    PROVE  Settled'
<1>1. CASE ElfEnds(t) \/ (TakeGil(t) /\ inC[t].kind = "regain")
  <2>1. ~Asking(t) /\ inC[t].kind # "shutdown"
    BY <1>1 DEF ElfEnds, Asking, Data
  <2>2. req' = req /\ linked' = linked /\ cself' = cself
    BY <1>1 DEF ElfEnds, TakeGil
  <2> QED BY ONLY <2>1, <2>2, AgreeOK(t) DEF AgreeOK, Settled
<1>2. CASE Return(t)
  <2>1. EndsAnswered(t)
    BY <1>2 DEF Return, GaveUp
  <2>2. /\ IsAnswered(t) /\ req' = req /\ linked' = linked /\ undefined = ""
        /\ inC[t].kind \in {"connect", "disconnect"} \cup Data
        /\ cself' = IF ans.ok /\ inC[t].kind = "connect" THEN "on"
                    ELSE IF ans.ok /\ inC[t].kind = "disconnect" THEN "off" ELSE cself
    BY <2>1 DEF EndsAnswered, Ends
  <2>3. CASE Asking(t)
    <3>1. Has(t)
      BY <2>2, <2>3 DEF QueueInv, AskOK
    <3>2. (inC[t].kind = "connect" => cself # "on") /\ (inC[t].kind # "connect" => cself = "on")
      BY <2>3 DEF CallInv
    <3>3. inC[t].kind \in Data => linked
      BY ONLY <2>3, AgreeOK(t) DEF AgreeOK
    <3> QED BY ONLY <2>2, <3>1, <3>2, <3>3 DEF Has, Settled, Wanted, Data
  <2>4. CASE ~Asking(t)
    <3>1. inC[t].kind \in {"access", "blocking"}
      BY <2>2, <2>4 DEF CallInv, Asking
    <3>2. Settled
      BY ONLY <2>4, <3>1, AgreeOK(t) DEF AgreeOK
    <3> QED BY ONLY <2>2, <3>1, <3>2 DEF Settled
  <2> QED BY <2>3, <2>4
<1> QED BY <1>1, <1>2

LEMMA AgreeStep ==
    ASSUME NEW t \in PyThread, Step(t), Types, GilInv, CallInv, QueueInv, AgreeInv, SelfInv,
           undefined' = "", "timeout" \notin blame', self' = "live"
    PROVE  /\ (\A u \in PyThread : ~(Inside(u)')) => Settled'
           /\ \A u \in PyThread : Inside(u)' => AgreeOK(u)'
<1>1. undefined = "" /\ "timeout" \notin blame
  <2>1. undefined = ""
    BY UndefinedFrame DEF Broken, Runs, SetsFile, EndsAnswered, GaveUp, Ends, StopFails,
       Freed, IoAborts, Takes, IoEvent, IoTakesGil, log_cb
  <2> QED BY <2>1, SceneFrame
<1>2. CASE Makes(t)
  <2>1. self = "none" /\ cself' = "off" /\ inC' = inC /\ req' = req /\ linked' = linked
    BY <1>2 DEF Makes
  <2>2. \A u \in PyThread : ~Inside(u)
    BY <2>1 DEF CallInv
  <2>3. Settled' /\ \A u \in PyThread : ~(Inside(u)')
    BY <2>1, <2>2 DEF SelfInv, Settled, Inside
  <2> QED BY ONLY <2>3
<1>3. CASE ~Makes(t)
  <2>1. self = "live"
    BY <1>3, SelfFrame DEF MakesNot, Log_dealloc, ObjectDropped, Freed
  <2>2. /\ (\A u \in PyThread : ~Inside(u)) => Settled
        /\ \A u \in PyThread : Inside(u) => AgreeOK(u)
    BY ONLY <1>1, <2>1, AgreeInv DEF AgreeInv
  <2>3. ASSUME NEW u \in PyThread, Inside(u)'
        PROVE  AgreeOK(u)'
    <3>1. CASE inC'[u] = inC[u]
      <4>1. Inside(u)
        BY <2>3, <3>1 DEF Inside
      <4> QED BY <1>1, <2>2, <3>1, <4>1, AgreeStays
    <3>2. CASE inC'[u] # inC[u]
      <4>1. u = t
        BY <3>2, OtherCells
      <4>2. CASE Begin(t) \/ DeallocBegins(t) \/ FreeBegins(t) \/ ElfBegins(t)
        BY <1>1, <4>1, <4>2, AgreeEnters
      <4>3. CASE FreeFollows(t)
        <5>1. /\ At(t, "shutdown", "", pyCalls') /\ IsAnswered(t) /\ linked' = linked
              /\ inC[t].kind = "dealloc"
              /\ req' = Append(req, [n |-> pyCalls', kind |-> "shutdown"])
          BY <4>3, EnterCell DEF Enter, FreeFollows
        <5>2. Asking(t)
          BY <5>1 DEF CallInv, Asking
        <5>3. Has(t) /\ Wanted(t) = "disconnect"
          BY <1>1, <5>1, <5>2 DEF QueueInv, AskOK, Wanted
        <5>4. req = <<>> /\ ~linked
          BY ONLY <5>3 DEF Has
        <5>5. [n |-> pyCalls', kind |-> "shutdown"] \in Request
              /\ [n |-> pyCalls', kind |-> "shutdown"].kind = "shutdown"
          BY CallsCount DEF Request, Asked
        <5>6. Len(req') = 1 /\ req'[1].kind = "shutdown"
          BY ONLY <5>1, <5>4, <5>5, OneRequest
        <5>7. \A i \in 1 .. Len(req') : req'[i].kind = "shutdown"
          BY ONLY <5>6
        <5> QED BY ONLY <4>1, <5>1, <5>4, <5>7 DEF AgreeOK, At, Asking, Data
      <4>4. CASE Return(t)
        <5>1. inC[t].kind = "nogil" /\ At(t, "regain", inC[t].meth, inC[t].n)
          BY <2>3, <4>1, <4>4, OutCell, RegainCell DEF Inside, At
        <5>2. Settled'
          BY <2>2, <4>4, <5>1, SettledAfter DEF Inside
        <5> QED BY ONLY <4>1, <5>1, <5>2 DEF AgreeOK, At, Asking, Data
      <4>5. ~SetsFile(t) /\ ~Leave(t) /\ ~TakeGil(t)
        BY <2>3, <3>2, <4>1, EnterCell, OutCell, WaitingCell DEF Inside, At, Enter
      <4> QED BY <3>2, <4>1, <4>2, <4>3, <4>4, <4>5, CellForms DEF Enter
    <3> QED BY <3>1, <3>2
  <2>4. ASSUME \A u \in PyThread : ~(Inside(u)')
        PROVE  Settled'
    <3>1. CASE \A u \in PyThread : ~Inside(u)
      <4>1. Settled
        BY <2>2, <3>1
      <4>2. ~IoDone /\ ~IoFails /\ ~IoAborts
        BY <4>1, IoTakes DEF Takes, Settled
      <4>3. ~Begin(t) /\ ~DeallocBegins(t) /\ ~FreeBegins(t)
        <5>1. ASSUME NEW meth, NEW kind, Begins(t, meth, kind)
              PROVE  FALSE
          <6>1. At(t, kind, meth, pyCalls')
            BY <5>1, BeginsCell
          <6>2. kind \notin {"python", "setter"}
            BY <5>1 DEF Begins, Legal, Data
          <6> QED BY <2>4, <6>1, <6>2 DEF At, Inside
        <5>2. ~DeallocBegins(t) /\ ~FreeBegins(t)
          BY <2>4, EnterCell DEF Enter, At, Inside
        <5> QED BY <5>1, <5>2 DEF Begin
      <4>4. ~FreeFollows(t) /\ ~Freed(t) /\ ~Return(t) /\ ~Log_dealloc(t)
        BY <3>1 DEF Inside, FreeFollows, Freed, Return, EndsAnswered, GaveUp, Ends, Data,
           Log_dealloc
      <4>5. req' = req /\ linked' = linked /\ cself' = cself
        BY <1>3, <4>2, <4>3, <4>4, ReqFrame, LinkedFrame, CselfFrame DEF Begin, Return
      <4> QED BY ONLY <4>1, <4>5 DEF Settled
    <3>2. CASE \E u \in PyThread : Inside(u)
      <4>1. PICK u \in PyThread : Inside(u)
        BY <3>2
      <4>2. inC'[u] # inC[u]
        BY <2>4, <4>1 DEF Inside
      <4>3. u = t
        BY <4>2, OtherCells
      <4>4. ~Begin(t) /\ ~Enter(t)
        <5>1. ~Begin(t) /\ ~DeallocBegins(t) /\ ~FreeBegins(t) /\ ~ElfBegins(t)
          BY <4>1, NobodyInside
        <5>2. ~SetsFile(t)
          BY <4>1, <4>3 DEF SetsFile, Runs, Inside
        <5>3. ~FreeFollows(t)
          BY <2>4, EnterCell DEF Enter, At, Inside
        <5> QED BY <5>1, <5>2, <5>3 DEF Enter
      <4>5. ~ObjectDropped(t) /\ ~Freed(t) /\ ~FileOpens(t)
        BY <4>1, <4>3 DEF ObjectDropped, Freed, FileOpens, Inside
      <4>6. TakeGil(t) => inC[t].kind = "regain"
        BY <4>2, <4>3, WaitingCell
      <4>7. Return(t) \/ ElfEnds(t) \/ TakeGil(t)
        BY <4>2, <4>3, <4>4, <4>5, CellForms DEF Leave
      <4> QED BY <2>2, <4>1, <4>3, <4>6, <4>7, SettledAfter
    <3> QED BY <3>1, <3>2
  <2> QED BY <2>3, <2>4
<1> QED BY <1>2, <1>3
-----------------------------------------------------------------------------
(* SelfInv: the life of the object.                                        *)

LEMMA InsideForms ==
    ASSUME NEW t \in PyThread, CallInv,
           Return(t) \/ FreeFollows(t) \/ StopFails(t) \/ ObjectDropped(t) \/ Freed(t) \/ ElfEnds(t)
    PROVE  Inside(t) /\ self = "live" /\ cls # "Log"
<1>1. Inside(t)
  BY DEF Return, EndsAnswered, GaveUp, Ends, FreeFollows, StopFails, ObjectDropped, Freed,
     ElfEnds, Inside, Data
<1> QED BY <1>1 DEF CallInv

LEMMA LiveForms ==
    ASSUME NEW t,
           Begin(t) \/ DeallocBegins(t) \/ FreeBegins(t) \/ SetsFile(t) \/ ElfBegins(t)
           \/ Log_dealloc(t) \/ AtOnce(t)
    PROVE  self = "live" /\ undefined = ""
  BY DEF Begin, Begins, DeallocBegins, FreeBegins, SetsFile, ElfBegins, Log_dealloc, AtOnce,
     Counts, NewCall, Runs

LEMMA SelfNone ==
    ASSUME NEW t \in PyThread, Step(t), Types, CallInv, SelfInv, self' = "none"
    PROVE  /\ cself' = "null" /\ io' = "none" /\ req' = <<>> /\ ~linked' /\ closed' = {}
<1>1. self = "none"
  BY SelfFrame DEF Makes, MakesNot, Log_dealloc, ObjectDropped, Freed
<1>2. cself = "null" /\ io = "none" /\ req = <<>> /\ ~linked /\ closed = {}
  BY <1>1 DEF SelfInv
<1>3. /\ ~Begin(t) /\ ~DeallocBegins(t) /\ ~FreeBegins(t) /\ ~SetsFile(t) /\ ~Log_dealloc(t)
      /\ ~Return(t) /\ ~FreeFollows(t) /\ ~Freed(t) /\ ~Makes(t)
  BY <1>1, LiveForms, InsideForms DEF Makes
<1>4. ~IoDone /\ ~IoFails /\ ~IoAborts
  BY <1>2, IoTakes DEF Takes
<1>5. ~IoEvent /\ ~IoTakesGil /\ ~IoHandlerEnds
  BY <1>2 DEF IoEvent, IoTakesGil, IoHandlerEnds
<1> QED
  BY <1>2, <1>3, <1>4, <1>5, CselfFrame, IoFrame, ReqFrame, LinkedFrame, ClosedFrame
  DEF Begin, Return

LEMMA SelfLive ==
    ASSUME NEW t \in PyThread, Step(t), Types, CallInv, SelfInv, self' = "live"
    PROVE  cself' \in {"off", "on"}
<1>1. CASE Makes(t)
  BY <1>1 DEF Makes
<1>2. CASE ~Makes(t)
  <2>1. self = "live" /\ ~Freed(t) /\ ~Log_dealloc(t)
    BY <1>2, SelfFrame DEF MakesNot, Log_dealloc, ObjectDropped, Freed
  <2>2. cself \in {"off", "on"}
    BY <2>1 DEF SelfInv
  <2> QED BY <1>2, <2>1, <2>2, CselfFrame DEF EndsAnswered, GaveUp, Ends, FreeFollows
<1> QED BY <1>1, <1>2

LEMMA IoStaysAway ==
    ASSUME NEW t \in PyThread, Step(t), io = "none", self # "none"
    PROVE  io' = "none"
  BY IoFrame DEF Makes, Freed, IoDone, Takes, IoEvent, IoTakesGil, IoHandlerEnds

LEMMA SelfFreed ==
    ASSUME NEW t \in PyThread, Step(t), Types, CallInv, SelfInv, cself' = "freed"
    PROVE  self' = "dead" /\ (cls' = "Log" \/ io' = "none")
<1>1. cls' = cls
  BY SceneFrame
<1>2. CASE Log_dealloc(t) \/ Freed(t)
  BY <1>1, <1>2 DEF Log_dealloc, Freed
<1>3. CASE ~Log_dealloc(t) /\ ~Freed(t)
  <2>1. cself = "freed"
    BY <1>3, CselfFrame DEF Makes, EndsAnswered, GaveUp, Ends, FreeFollows
  <2>2. self = "dead" /\ (cls = "Log" \/ io = "none")
    BY <2>1 DEF SelfInv
  <2>3. self' = "dead"
    BY <2>2, SelfFrame DEF Makes, MakesNot, Log_dealloc, ObjectDropped, Freed
  <2> QED BY <1>1, <2>2, <2>3, IoStaysAway
<1> QED BY <1>2, <1>3

LEMMA SelfDead ==
    ASSUME NEW t \in PyThread, Step(t), Types, CallInv, SelfInv, self' = "dead", cls' # "Log"
    PROVE  io' = "none" \/ "disconnect failed" \in blame'
<1>1. cls # "Log" /\ blame \subseteq blame'
  BY SceneFrame
<1>2. CASE MakesNot(t)
  BY <1>2 DEF MakesNot, SelfInv
<1>3. CASE ObjectDropped(t) \/ Freed(t)
  BY <1>3 DEF ObjectDropped, Freed
<1>4. CASE ~MakesNot(t) /\ ~ObjectDropped(t) /\ ~Freed(t)
  <2>1. self = "dead"
    BY <1>1, <1>4, SelfFrame DEF Makes, Log_dealloc
  <2>2. io = "none" \/ "disconnect failed" \in blame
    BY <1>1, <2>1 DEF SelfInv
  <2> QED BY <1>1, <2>1, <2>2, IoStaysAway
<1> QED BY <1>2, <1>3, <1>4

LEMMA SelfQuiet ==
    ASSUME NEW t \in PyThread, Step(t), Types, GilInv, CallInv, QueueInv, AgreeInv, SelfInv,
           self' = "dead", "timeout" \notin blame'
    PROVE  \A i \in 1 .. Len(req') : req'[i].kind \notin Data
<1>1. "timeout" \notin blame
  BY SceneFrame
<1>2. CASE MakesNot(t) \/ Freed(t) \/ Log_dealloc(t)
  <2>1. req' = <<>>
    BY <1>2 DEF MakesNot, Freed, Log_dealloc, SelfInv
  <2> QED BY ONLY <2>1
<1>3. CASE ObjectDropped(t)
  <2>1. Inside(t) /\ self = "live"
    BY <1>3, InsideForms
  <2>2. inC[t].kind = "dealloc" /\ ~IsAnswered(t) /\ undefined = "" /\ req' = req
    BY <1>3 DEF ObjectDropped
  <2>3. Asking(t) /\ Wanted(t) = "disconnect"
    BY <2>2 DEF CallInv, Asking, Wanted
  <2>4. Len(req) = 1
    BY <1>1, <2>1, <2>2, <2>3 DEF AgreeInv, AgreeOK
  <2>5. LastIs(req, inC[t].n, Wanted(t))
    BY <2>2, <2>3 DEF QueueInv, AskOK
  <2>6. req[1].kind = "disconnect"
    BY ONLY <2>3, <2>4, <2>5 DEF LastIs
  <2>7. \A i \in 1 .. Len(req) : i = 1
    BY ONLY <2>4
  <2> QED BY ONLY <2>2, <2>6, <2>7 DEF Data
<1>4. CASE ~MakesNot(t) /\ ~Freed(t) /\ ~Log_dealloc(t) /\ ~ObjectDropped(t)
  <2>1. self = "dead"
    BY <1>4, SelfFrame DEF Makes
  <2>2. \A i \in 1 .. Len(req) : req[i].kind \notin Data
    BY <1>1, <2>1 DEF SelfInv
  <2>3. ~Begin(t) /\ ~DeallocBegins(t) /\ ~FreeBegins(t) /\ ~FreeFollows(t)
    BY <2>1, LiveForms, InsideForms
  <2>4. CASE IoDone \/ IoFails \/ IoAborts
    <3>1. req # <<>> /\ req' = Tail(req) /\ req \in Seq(Request)
      BY <2>4, IoTakes DEF Takes, Types, RequestTypes
    <3>2. /\ Len(req') = Len(req) - 1 /\ Len(req) \in Nat
          /\ \A i \in 1 .. (Len(req) - 1) : req'[i] = req[i + 1]
      BY ONLY <3>1, SeqTail
    <3>3. \A i \in 1 .. (Len(req) - 1) : i + 1 \in 1 .. Len(req)
      BY ONLY <3>2
    <3> QED BY ONLY <2>2, <3>2, <3>3
  <2>5. CASE req' = req
    BY ONLY <2>2, <2>5
  <2> QED BY <1>4, <2>3, <2>4, <2>5, ReqFrame DEF Begin
<1> QED BY <1>2, <1>3, <1>4

LEMMA SelfLog ==
    ASSUME NEW t \in PyThread, Step(t), Types, CallInv, SelfInv, cls' = "Log"
    PROVE  /\ io' \in {"none", "idle"} /\ req' = <<>> /\ ~linked'
           /\ \A u \in PyThread : inC'[u].kind = "python"
           /\ cself' = "freed" => "log dropped" \in blame'
<1>1. cls = "Log" /\ blame \subseteq blame'
  BY SceneFrame
<1>2. /\ io \in {"none", "idle"} /\ req = <<>> /\ ~linked
      /\ \A u \in PyThread : inC[u].kind = "python"
      /\ cself = "freed" => "log dropped" \in blame
  BY <1>1 DEF SelfInv
<1>3. /\ ~Begin(t) /\ ~DeallocBegins(t) /\ ~FreeBegins(t) /\ ~SetsFile(t) /\ ~ElfBegins(t)
  BY <1>1 DEF Begin, Begins, Legal, DeallocBegins, FreeBegins, SetsFile, ElfBegins
<1>4. ~Return(t) /\ ~FreeFollows(t) /\ ~Freed(t) /\ ~ObjectDropped(t) /\ ~ElfEnds(t)
  BY <1>1, InsideForms
<1>5. ~FileOpens(t) /\ (TakeGil(t) => inC'[t] = inC[t])
  BY <1>2, WaitingCell DEF FileOpens
<1>6. ~IoDone /\ ~IoFails /\ ~IoAborts /\ ~IoEvent /\ ~IoTakesGil /\ ~IoHandlerEnds
  BY <1>1, <1>2, IoTakes DEF Takes, IoEvent, IoTakesGil, IoHandlerEnds
<1>7. io' \in {"none", "idle"}
  BY <1>2, <1>4, <1>6, IoFrame DEF Makes
<1>8. req' = <<>> /\ ~linked'
  BY <1>2, <1>3, <1>4, <1>6, ReqFrame, LinkedFrame DEF Begin
<1>9. \A u \in PyThread : inC'[u].kind = "python"
  <2>1. inC'[t] = inC[t]
    BY <1>3, <1>4, <1>5, CellForms DEF Enter, Leave
  <2> QED BY <1>2, <2>1, OtherCells
<1>10. cself' = "freed" => "log dropped" \in blame'
  <2>1. cself' = "freed" => cself = "freed" \/ Log_dealloc(t)
    BY <1>4, CselfFrame DEF Makes, Return
  <2> QED BY <1>1, <1>2, <2>1 DEF Log_dealloc, Blames
<1> QED BY <1>7, <1>8, <1>9, <1>10

LEMMA SelfStep ==
    ASSUME NEW t \in PyThread, Step(t), Types, GilInv, CallInv, QueueInv, AgreeInv, SelfInv
    PROVE  SelfInv'
<1>1. self' = "none" => /\ cself' = "null" /\ io' = "none" /\ req' = <<>> /\ ~linked'
                        /\ closed' = {}
  BY SelfNone
<1>2. self' = "live" => cself' \in {"off", "on"}
  BY SelfLive
<1>3. cself' = "freed" => self' = "dead" /\ (cls' = "Log" \/ io' = "none")
  BY SelfFreed
<1>4. self' = "dead" /\ cls' # "Log" => io' = "none" \/ "disconnect failed" \in blame'
  BY SelfDead
<1>5. self' = "dead" /\ "timeout" \notin blame' =>
          \A i \in 1 .. Len(req') : req'[i].kind \notin Data
  BY SelfQuiet
<1>6. cls' = "Log" => /\ io' \in {"none", "idle"} /\ req' = <<>> /\ ~linked'
                      /\ \A u \in PyThread : inC'[u].kind = "python"
                      /\ cself' = "freed" => "log dropped" \in blame'
  BY SelfLog
<1> QED BY ONLY <1>1, <1>2, <1>3, <1>4, <1>5, <1>6 DEF SelfInv
-----------------------------------------------------------------------------
(* FileInv and LastInv: the files of the loggers, and what was returned.   *)

FreesTrace(t) == cls = "CoretraceLogger" /\ inC[t].kind = "shutdown"

LEMMA ShutdownStays ==
    ASSUME NEW t \in PyThread, Step(t), Types, GilInv, CallInv,
           NEW u \in PyThread, inC[u].kind = "shutdown", ~Freed(t)
    PROVE  inC'[u].kind = "shutdown"
<1>1. CASE u # t
  BY <1>1, OtherCells
<1>2. CASE u = t
  <2>1. Inside(t)
    BY <1>2 DEF Inside
  <2>2. ~Begin(t) /\ ~DeallocBegins(t) /\ ~FreeBegins(t) /\ ~ElfBegins(t)
    BY <2>1, NobodyInside
  <2>3. ~SetsFile(t) /\ ~FreeFollows(t) /\ ~Return(t)
    BY <1>2 DEF SetsFile, Runs, FreeFollows, Return, EndsAnswered, GaveUp, Ends, Data
  <2>4. ~Leave(t)
    BY <1>2 DEF Leave, ObjectDropped, FileOpens, ElfEnds
  <2>5. TakeGil(t) => inC'[t] = inC[t]
    BY <1>2, WaitingCell
  <2> QED BY <1>2, <2>2, <2>3, <2>4, <2>5, CellForms DEF Enter
<1> QED BY <1>1, <1>2

LEMMA FileStep ==
    ASSUME NEW t \in PyThread, Step(t), Types, GilInv, CallInv, SelfInv, FileInv
    PROVE  FileInv'
<1>0. cls' = cls /\ blame \subseteq blame'
  BY SceneFrame
<1>1. ASSUME closed' # {}
      PROVE  \/ "file changed" \in blame' \/ cself' = "freed"
             \/ \E u \in PyThread : FreesTrace(u)'
  <2>1. CASE Freed(t)
    BY <2>1 DEF Freed
  <2>2. CASE SetsFile(t) /\ closed' # closed
    BY <2>2 DEF SetsFile
  <2>3. CASE (FreeBegins(t) \/ FreeFollows(t)) /\ closed' # closed
    <3>1. cls = "CoretraceLogger"
      BY <2>3 DEF FreeBegins, FilesClosed, FreeFollows
    <3>2. inC'[t].kind = "shutdown"
      BY <2>3, EnterCell DEF Enter, At
    <3> QED BY <1>0, <3>1, <3>2 DEF FreesTrace
  <2>4. CASE closed' = closed /\ ~Freed(t)
    <3>1. \/ "file changed" \in blame \/ cself = "freed" \/ \E u \in PyThread : FreesTrace(u)
      BY <1>1, <2>4 DEF FileInv, FreesTrace
    <3>2. ASSUME cself = "freed"
          PROVE  cself' = "freed"
      <4>1. self = "dead"
        BY <3>2 DEF SelfInv
      <4>2. ~Return(t) /\ ~FreeFollows(t) /\ ~Makes(t)
        BY <4>1, InsideForms DEF Makes
      <4> QED BY <2>4, <3>2, <4>2, CselfFrame DEF Log_dealloc, Return
    <3>3. ASSUME NEW u \in PyThread, FreesTrace(u)
          PROVE  FreesTrace(u)'
      BY <1>0, <2>4, <3>3, ShutdownStays DEF FreesTrace
    <3> QED BY <1>0, <3>1, <3>2, <3>3
  <2> QED BY <2>1, <2>2, <2>3, <2>4, ClosedFrame
<1>2. funcs' = "undefined" => "ELF file changed" \in blame'
  BY <1>0, FuncsFrame DEF ElfBegins, ElfEnds, FileInv
<1> QED BY <1>0, <1>1, <1>2 DEF FileInv, FreesTrace

LEMMA LastStep ==
    ASSUME NEW t \in PyThread, Step(t), Types, GilInv, CallInv, QueueInv, SelfInv, LastInv
    PROVE  LastInv'
<1> SUFFICES ASSUME last'.res = "OK", last'.meth \in {"connect", "disconnect"},
                    cls' # "GatewayGlip"
             PROVE  Settled' /\ cself' = IF last'.meth = "connect" THEN "on" ELSE "off"
  BY DEF LastInv
<1>0. cls' = cls
  BY SceneFrame
<1>1. /\ ~AtOnce(t) /\ ~Makes(t) /\ ~MakesNot(t) /\ ~Begin(t) /\ ~DeallocBegins(t)
      /\ ~FreeBegins(t) /\ ~SetsFile(t) /\ ~ElfBegins(t) /\ ~FileOpens(t) /\ ~ElfEnds(t)
  BY <1>0 DEF AtOnce, Makes, MakesNot, Begin, Begins, DeallocBegins, FreeBegins, SetsFile,
     ElfBegins, FileOpens, ElfEnds
<1>2. ~Log_dealloc(t)
  BY ReturnedMeth DEF Log_dealloc
<1>3. CASE Return(t)
  <2>1. EndsAnswered(t)
    BY <1>3 DEF Return, GaveUp, Ends
  <2>2. /\ IsAnswered(t) /\ req' = req /\ linked' = linked /\ undefined = ""
        /\ last'.meth = inC[t].meth /\ ans.ok
        /\ cself' = IF ans.ok /\ inC[t].kind = "connect" THEN "on"
                    ELSE IF ans.ok /\ inC[t].kind = "disconnect" THEN "off" ELSE cself
    BY <2>1 DEF EndsAnswered, Ends
  <2>3. inC[t].kind = inC[t].meth
    BY <2>2 DEF CallInv
  <2>4. Asking(t) /\ Wanted(t) = inC[t].kind
    BY <2>2, <2>3 DEF Asking, Wanted
  <2>5. Has(t)
    BY <2>2, <2>4 DEF QueueInv, AskOK
  <2> QED BY ONLY <2>2, <2>3, <2>4, <2>5, last'.meth \in {"connect", "disconnect"}
          DEF Has, Settled
<1>4. CASE ~Return(t)
  <2>1. last' = last
    BY <1>1, <1>2, <1>4, LastFrame DEF Begin, Return
  <2>2. Settled /\ cself = IF last.meth = "connect" THEN "on" ELSE "off"
    BY <1>0, <2>1 DEF LastInv
  <2>3. ~FreeFollows(t) /\ ~Freed(t)
    BY <2>1, InsideForms DEF CallInv
  <2>4. ~IoDone /\ ~IoFails /\ ~IoAborts
    BY <2>2, IoTakes DEF Takes, Settled
  <2>5. req' = req /\ linked' = linked /\ cself' = cself
    BY <1>1, <1>2, <1>4, <2>3, <2>4, ReqFrame, LinkedFrame, CselfFrame DEF Begin, Return
  <2> QED BY ONLY <2>1, <2>2, <2>5 DEF Settled
<1> QED BY <1>3, <1>4

-----------------------------------------------------------------------------
(* PyUndefinedOnlyIf: what ends the defined behaviour.                     *)

LEMMA FilesOpen ==
    ASSUME Types, CallInv, SelfInv, FileInv, undefined = "", closed # {},
           "file changed" \notin blame, self = "live"
    PROVE  \E u \in PyThread : FreesTrace(u) /\ Inside(u)
<1>1. cself # "freed"
  BY DEF SelfInv
<1> QED BY <1>1 DEF FileInv, FreesTrace, Inside

LEMMA UndefinedCalls ==
    ASSUME NEW t \in PyThread, Step(t), Types, GilInv, CallInv, SelfInv, FileInv,
           Broken(t) \/ SetsFile(t)
    PROVE  /\ undefined' = "shared" => cls = "MemoryAccess"
           /\ undefined' = "abort" => blame' \cap {"connected twice", "diaddr"} # {}
           /\ undefined' = "closedtwice" => "file changed" \in blame
           /\ undefined' \in {"", "shared", "abort", "options", "log", "closedtwice"}
<1>1. ASSUME Broken(t), undefined' = "shared"
      PROVE  cls = "MemoryAccess"
  <2>1. gil = t /\ Others(t) # {}
    BY <1>1 DEF Broken, Runs
  <2>2. PICK u \in PyThread : u # t /\ Inside(u)
    BY <2>1 DEF Others, Inside
  <2>3. inC[u].kind \in {"nogil", "regain"}
    BY <2>1, <2>2 DEF GilInv
  <2> QED BY <2>3 DEF CallInv
<1>2. ASSUME SetsFile(t), undefined' = "closedtwice"
      PROVE  "file changed" \in blame
  <2>1. /\ self = "live" /\ undefined = "" /\ fp \in closed /\ gil = t
        /\ inC[t].kind = "python"
    BY <1>2 DEF SetsFile, Counts, Runs
  <2>2. ASSUME NEW u \in PyThread, FreesTrace(u), Inside(u)
        PROVE  FALSE
    BY <2>1, <2>2 DEF FreesTrace, GilInv
  <2> QED BY <2>1, <2>2, FilesOpen
<1> QED BY <1>1, <1>2 DEF Broken, SetsFile

LEMMA UndefinedReturns ==
    ASSUME NEW t \in PyThread, Step(t), Types, GilInv, CallInv, QueueInv, SelfInv, FileInv,
           Return(t) \/ StopFails(t) \/ Freed(t)
    PROVE  /\ undefined' = "free" => cls = "MemoryAccess" /\ pyFails' > 0
           /\ undefined' = "abort" => "stop failed" \in blame'
           /\ undefined' = "closedfile" => "file changed" \in blame
           /\ undefined' \in {"", "free", "abort", "closedfile"}
<1>1. ASSUME Return(t), undefined' = "free"
      PROVE  cls = "MemoryAccess" /\ pyFails' > 0
  <2>1. inC[t].meth = "find_memories"
    BY <1>1 DEF Return, EndsAnswered, GaveUp, Ends
  <2>2. cls = "MemoryAccess"
    BY <2>1 DEF CallInv
  <2>3. handler = "none"
    BY <2>2 DEF Types, ObjectTypes, HandlersOf, TraceLoggers
  <2>4. CASE EndsAnswered(t)
    <3>1. ~ans.ok /\ ans.n = inC[t].n /\ Inside(t)
      BY <1>1, <2>4 DEF EndsAnswered, Ends, IsAnswered, Inside, Data
    <3>2. inC[t].n \in 1 .. pyCalls
      BY <3>1 DEF CallInv
    <3>3. inC[t].n > 0
      BY ONLY <3>2
    <3>4. pyFails > 0
      BY <3>1, <3>3 DEF QueueInv
    <3>5. pyFails \in 0 .. MaxPyFails /\ pyFails' \in 0 .. MaxPyFails /\ pyFails <= pyFails'
      BY CallsCount DEF Types, CountTypes
    <3>6. pyFails' > 0
      BY ONLY <3>4, <3>5, Bounds
    <3> QED BY <2>2, <3>6
  <2>5. CASE GaveUp(t)
    <3>1. io = "gil" \/ inC[t].meth = "event_receive" \/ pyFails' > 0
      BY <2>5 DEF GaveUp
    <3> QED BY <2>1, <2>2, <2>3, <3>1 DEF GilInv
  <2> QED BY <1>1, <2>4, <2>5 DEF Return
<1>2. ASSUME Freed(t), undefined' = "closedfile"
      PROVE  "file changed" \in blame
  <2>1. /\ undefined = "" /\ cls = "SystraceLogger" /\ cfp \in closed
    BY <1>2 DEF Freed
  <2>2. self = "live"
    BY <1>2, InsideForms
  <2> QED BY <2>1, <2>2, FilesOpen DEF FreesTrace
<1>3. StopFails(t) => undefined' = "abort" /\ "stop failed" \in blame'
  BY DEF StopFails
<1>4. Return(t) => undefined' \in {"", "free"}
  BY DEF Return, EndsAnswered, GaveUp, Ends
<1>5. Freed(t) => undefined' \in {"", "closedfile"}
  BY DEF Freed
<1> QED BY ONLY <1>1, <1>2, <1>3, <1>4, <1>5, Return(t) \/ StopFails(t) \/ Freed(t)

LEMMA SocketNeedsTimeout ==
    ASSUME Types, GilInv, CallInv, QueueInv, AgreeInv, SelfInv, IoAborts
    PROVE  "timeout" \in blame
<1>1. /\ undefined = "" /\ req # <<>> /\ Head(req).kind \in Data /\ ~linked
  BY DEF IoAborts, Takes
<1>2. SUFFICES ASSUME "timeout" \notin blame PROVE FALSE
  OBVIOUS
<1>3. Head(req) = req[1] /\ 1 \in 1 .. Len(req)
  <2>1. Head(req) = req[1] /\ Len(req) \in Nat /\ Len(req) > 0
    BY <1>1, SeqTail DEF Types, RequestTypes
  <2> QED BY ONLY <2>1
<1>4. self # "none"
  BY <1>1 DEF SelfInv
<1>5. self # "dead"
  BY <1>1, <1>2, <1>3 DEF SelfInv
<1>6. self = "live"
  BY <1>4, <1>5 DEF Types, ObjectTypes
<1>7. /\ (\A t \in PyThread : ~Inside(t)) => Settled
      /\ \A t \in PyThread : Inside(t) => AgreeOK(t)
  BY <1>1, <1>2, <1>6 DEF AgreeInv
<1>8. ~Settled
  BY <1>1 DEF Settled
<1>9. PICK t \in PyThread : Inside(t) /\ AgreeOK(t)
  BY <1>7, <1>8
<1>10. CASE Asking(t)
  <2>1. AskOK(t)
    BY <1>1, <1>10 DEF QueueInv
  <2>2. ~IsAnswered(t) /\ LastIs(req, inC[t].n, Wanted(t)) /\ Len(req) = 1
    BY ONLY <1>1, <1>9, <1>10, <2>1 DEF AskOK, Has, AgreeOK
  <2>3. Wanted(t) \in Data
    BY ONLY <1>1, <1>3, <2>2 DEF LastIs
  <2>4. inC[t].kind \in Data
    BY ONLY <2>3 DEF Wanted, Data
  <2> QED BY ONLY <1>1, <1>9, <1>10, <2>4 DEF AgreeOK
<1>11. CASE ~Asking(t)
  BY ONLY <1>1, <1>3, <1>8, <1>9, <1>11 DEF AgreeOK, Data
<1> QED BY <1>10, <1>11

LEMMA EventNeedsCause ==
    ASSUME Types, GilInv, CallInv, QueueInv, AgreeInv, SelfInv, FileInv, IoEvent
    PROVE  /\ undefined' = "closedfile" => blame \cap {"file changed", "timeout"} # {}
           /\ undefined' = "elf" => "ELF file changed" \in blame
           /\ undefined' \in {"", "closedfile", "elf"}
<1>1. undefined = "" /\ io = "idle" /\ linked
  BY DEF IoEvent
<1>2. undefined' = "" \/ (undefined' = "closedfile" /\ cfp \in closed)
      \/ (undefined' = "elf" /\ funcs = "undefined")
  BY <1>1 DEF IoEvent, TraceEvent
<1>3. ASSUME cfp \in closed, blame \cap {"file changed", "timeout"} = {}
      PROVE  FALSE
  <2>1. cls # "Log" /\ self # "none"
    BY <1>1 DEF SelfInv
  <2>2. "file changed" \notin blame /\ "timeout" \notin blame
    BY <1>3
  <2>3. cself # "freed"
    BY <1>1, <2>1 DEF SelfInv
  <2>4. PICK u \in PyThread : inC[u].kind = "shutdown"
    BY <1>3, <2>2, <2>3 DEF FileInv
  <2>5. Inside(u) /\ self = "live"
    BY <2>4 DEF Inside, CallInv
  <2>6. AgreeOK(u)
    BY <1>1, <2>2, <2>5 DEF AgreeInv
  <2> QED BY ONLY <1>1, <2>4, <2>6 DEF AgreeOK
<1> QED BY <1>2, <1>3 DEF FileInv

LEMMA IoNeedsCause ==
    ASSUME NEW t \in PyThread, Step(t), Types, SelfInv, IoTakesGil \/ log_cb
    PROVE  /\ undefined' = "object" => "disconnect failed" \in blame
           /\ undefined' = "logfreed" => "log dropped" \in blame
           /\ undefined' \in {"", "object", "logfreed"}
<1>1. CASE IoTakesGil
  <2>1. io = "gil" /\ undefined' = IF self = "dead" THEN "object" ELSE ""
    BY <1>1 DEF IoTakesGil
  <2> QED BY <2>1 DEF SelfInv
<1>2. CASE log_cb
  <2>1. cls = "Log" /\ (undefined' = "" \/ (undefined' = "logfreed" /\ cself = "freed"))
    BY <1>2 DEF log_cb, Breaks
  <2> QED BY <2>1 DEF SelfInv
<1> QED BY <1>1, <1>2

LEMMA UndefinedStep ==
    ASSUME NEW t \in PyThread, Step(t), Types, GilInv, CallInv, QueueInv, AgreeInv, SelfInv,
           FileInv, PyUndefinedOnlyIf
    PROVE  PyUndefinedOnlyIf'
<1>0. cls' = cls /\ blame \subseteq blame'
  BY SceneFrame
<1>1. CASE undefined' = undefined
  <2>1. pyFails > 0 => pyFails' > 0
    <3>1. pyFails \in 0 .. MaxPyFails /\ pyFails' \in 0 .. MaxPyFails /\ pyFails <= pyFails'
      BY CallsCount DEF Types, CountTypes
    <3> QED BY ONLY <3>1, Bounds
  <2> QED BY ONLY <1>0, <1>1, <2>1, PyUndefinedOnlyIf DEF PyUndefinedOnlyIf
<1>2. CASE Broken(t) \/ SetsFile(t)
  BY ONLY <1>0, <1>2, UndefinedCalls, Step(t), t \in PyThread, Types, GilInv, CallInv, SelfInv,
     FileInv DEF PyUndefinedOnlyIf
<1>3. CASE Return(t) \/ StopFails(t) \/ Freed(t)
  BY ONLY <1>0, <1>3, UndefinedReturns, Step(t), t \in PyThread, Types, GilInv, CallInv,
     QueueInv, SelfInv, FileInv DEF PyUndefinedOnlyIf
<1>4. CASE IoAborts
  <2>1. "timeout" \in blame /\ undefined' = "socket"
    BY <1>4, SocketNeedsTimeout DEF IoAborts
  <2> QED BY ONLY <1>0, <2>1 DEF PyUndefinedOnlyIf
<1>5. CASE IoEvent
  <2>1. /\ undefined' = "closedfile" => blame \cap {"file changed", "timeout"} # {}
        /\ undefined' = "elf" => "ELF file changed" \in blame
        /\ undefined' \in {"", "closedfile", "elf"}
    BY <1>5, EventNeedsCause
  <2> QED BY ONLY <1>0, <2>1 DEF PyUndefinedOnlyIf
<1>6. CASE IoTakesGil \/ log_cb
  <2>1. /\ undefined' = "object" => "disconnect failed" \in blame
        /\ undefined' = "logfreed" => "log dropped" \in blame
        /\ undefined' \in {"", "object", "logfreed"}
    BY <1>6, IoNeedsCause
  <2> QED BY ONLY <1>0, <2>1 DEF PyUndefinedOnlyIf
<1> QED BY <1>1, <1>2, <1>3, <1>4, <1>5, <1>6, UndefinedFrame DEF Return
-----------------------------------------------------------------------------
(* LogInv: the messages of the log.                                        *)

LEMMA SeqConcat ==
    ASSUME NEW S, NEW r \in Seq(S), NEW q \in Seq(S)
    PROVE  /\ r \o q \in Seq(S) /\ Len(r \o q) = Len(r) + Len(q)
           /\ Len(r) \in Nat /\ Len(q) \in Nat
           /\ \A i \in 1 .. Len(r) : (r \o q)[i] = r[i]
           /\ \A i \in 1 .. Len(q) : (r \o q)[Len(r) + i] = q[i]
  OBVIOUS

LEMMA SeqEqual ==
    ASSUME NEW S, NEW a \in Seq(S), NEW b \in Seq(S), Len(a) = Len(b),
           \A i \in 1 .. Len(a) : a[i] = b[i]
    PROVE  a = b
  OBVIOUS

(* A message that is queued comes last.                                    *)
LEMMA MessageQueued ==
    ASSUME NEW r \in Numbers, NEW q \in Numbers, NEW e \in 1 .. MaxPyEvents
    PROVE  r \o Append(q, e) = Append(r \o q, e)
<1> DEFINE S == 1 .. MaxPyEvents
           a == r \o q
           b == Append(q, e)
           left == r \o b
           right == Append(a, e)
<1>1. /\ a \in Seq(S) /\ Len(a) = Len(r) + Len(q) /\ Len(r) \in Nat /\ Len(q) \in Nat
      /\ \A i \in 1 .. Len(r) : a[i] = r[i]
      /\ \A i \in 1 .. Len(q) : a[Len(r) + i] = q[i]
  BY SeqConcat DEF Numbers
<1>2. /\ b \in Seq(S) /\ Len(b) = Len(q) + 1 /\ b[Len(q) + 1] = e
      /\ \A i \in 1 .. Len(q) : b[i] = q[i]
  BY SeqAppend DEF Numbers
<1>3. /\ right \in Seq(S) /\ Len(right) = Len(a) + 1 /\ right[Len(a) + 1] = e
      /\ \A i \in 1 .. Len(a) : right[i] = a[i]
  BY <1>1, SeqAppend
<1>4. /\ left \in Seq(S) /\ Len(left) = Len(r) + Len(b)
      /\ \A i \in 1 .. Len(r) : left[i] = r[i]
      /\ \A i \in 1 .. Len(b) : left[Len(r) + i] = b[i]
  BY <1>2, SeqConcat DEF Numbers
<1> HIDE DEF S, a, b, left, right
<1>5. ASSUME NEW i \in 1 .. Len(left)
      PROVE  left[i] = right[i]
  <2>1. CASE i <= Len(r)
    BY ONLY <1>1, <1>2, <1>3, <1>4, <1>5, <2>1
  <2>2. CASE i > Len(r)
    <3>1. PICK j \in 1 .. Len(b) : i = Len(r) + j
      <4>1. i - Len(r) \in 1 .. Len(b) /\ i = Len(r) + (i - Len(r))
        BY ONLY <1>1, <1>2, <1>4, <1>5, <2>2
      <4> QED BY ONLY <4>1
    <3>2. left[i] = b[j]
      BY ONLY <1>4, <3>1
    <3>3. CASE j <= Len(q)
      BY ONLY <1>1, <1>2, <1>3, <3>1, <3>2, <3>3
    <3>4. CASE j = Len(q) + 1
      <4>1. i = Len(a) + 1
        BY ONLY <1>1, <3>1, <3>4
      <4> QED BY ONLY <1>2, <1>3, <3>2, <3>4, <4>1
    <3> QED BY ONLY <1>1, <1>2, <3>1, <3>3, <3>4
  <2> QED BY ONLY <1>1, <1>5, <2>1, <2>2
<1>6. Len(left) = Len(right)
  BY ONLY <1>1, <1>2, <1>3, <1>4
<1>7. left = right
  BY ONLY <1>3, <1>4, <1>5, <1>6, SeqEqual
<1> QED BY <1>7 DEF left, right, a, b

(* A message that is handled moves from the queue to the records.          *)
LEMMA MessageHandled ==
    ASSUME NEW r \in Numbers, NEW q \in Numbers, q # <<>>
    PROVE  Append(r, Head(q)) \o Tail(q) = r \o q
<1> DEFINE S == 1 .. MaxPyEvents
           h == Head(q)
           w == Tail(q)
           a == Append(r, h)
           left == a \o w
           right == r \o q
<1>1. /\ h \in S /\ h = q[1] /\ w \in Seq(S) /\ Len(w) = Len(q) - 1
      /\ Len(q) \in Nat /\ Len(q) > 0 /\ \A i \in 1 .. (Len(q) - 1) : w[i] = q[i + 1]
  BY SeqTail DEF Numbers
<1>2. /\ a \in Seq(S) /\ Len(a) = Len(r) + 1 /\ Len(r) \in Nat /\ a[Len(r) + 1] = h
      /\ \A i \in 1 .. Len(r) : a[i] = r[i]
  BY <1>1, SeqAppend DEF Numbers
<1>3. /\ right \in Seq(S) /\ Len(right) = Len(r) + Len(q)
      /\ \A i \in 1 .. Len(r) : right[i] = r[i]
      /\ \A i \in 1 .. Len(q) : right[Len(r) + i] = q[i]
  BY SeqConcat DEF Numbers
<1>4. /\ left \in Seq(S) /\ Len(left) = Len(a) + Len(w)
      /\ \A i \in 1 .. Len(a) : left[i] = a[i]
      /\ \A i \in 1 .. Len(w) : left[Len(a) + i] = w[i]
  BY <1>1, <1>2, SeqConcat
<1> HIDE DEF S, h, w, a, left, right
<1>5. ASSUME NEW i \in 1 .. Len(left)
      PROVE  left[i] = right[i]
  <2>1. CASE i <= Len(r)
    BY ONLY <1>1, <1>2, <1>3, <1>4, <1>5, <2>1
  <2>2. CASE i = Len(r) + 1
    <3>1. left[i] = a[i] /\ a[i] = h
      BY ONLY <1>2, <1>4, <2>2
    <3>2. right[i] = q[1]
      BY ONLY <1>1, <1>3, <2>2
    <3> QED BY ONLY <1>1, <3>1, <3>2
  <2>3. CASE i > Len(r) + 1
    <3>1. PICK j \in 1 .. Len(w) : i = Len(a) + j
      <4>1. i - Len(a) \in 1 .. Len(w) /\ i = Len(a) + (i - Len(a))
        BY ONLY <1>1, <1>2, <1>4, <1>5, <2>3
      <4> QED BY ONLY <4>1
    <3>2. left[i] = w[j] /\ w[j] = q[j + 1]
      BY ONLY <1>1, <1>4, <3>1
    <3>3. j + 1 \in 1 .. Len(q) /\ i = Len(r) + (j + 1)
      BY ONLY <1>1, <1>2, <3>1
    <3> QED BY ONLY <1>3, <3>2, <3>3
  <2> QED BY ONLY <1>2, <1>5, <2>1, <2>2, <2>3
<1>6. Len(left) = Len(right)
  BY ONLY <1>1, <1>2, <1>3, <1>4
<1>7. left = right
  BY ONLY <1>3, <1>4, <1>5, <1>6, SeqEqual
<1> QED BY <1>7 DEF left, right, a, h, w

(* A message that is lost leaves the others in their order.                *)
LEMMA MessageLost ==
    ASSUME NEW r \in Numbers, NEW q \in Numbers, q # <<>>, NEW n \in Nat,
           Rising(r \o q), Upto(r \o q, n)
    PROVE  Rising(r \o Tail(q)) /\ Upto(r \o Tail(q), n)
<1> DEFINE S == 1 .. MaxPyEvents
           w == Tail(q)
           a == r \o q
           b == r \o w
           Old(i) == IF i <= Len(r) THEN i ELSE i + 1
<1>1. /\ w \in Seq(S) /\ Len(w) = Len(q) - 1
      /\ Len(q) \in Nat /\ Len(q) > 0 /\ \A i \in 1 .. (Len(q) - 1) : w[i] = q[i + 1]
  BY SeqTail DEF Numbers
<1>2. /\ a \in Seq(S) /\ Len(a) = Len(r) + Len(q) /\ Len(r) \in Nat
      /\ \A i \in 1 .. Len(r) : a[i] = r[i]
      /\ \A i \in 1 .. Len(q) : a[Len(r) + i] = q[i]
  BY SeqConcat DEF Numbers
<1>3. /\ b \in Seq(S) /\ Len(b) = Len(r) + Len(w)
      /\ \A i \in 1 .. Len(r) : b[i] = r[i]
      /\ \A i \in 1 .. Len(w) : b[Len(r) + i] = w[i]
  BY <1>1, SeqConcat DEF Numbers
<1>4. Rising(a) /\ Upto(a, n)
  OBVIOUS
<1> HIDE DEF S, w, a, b
<1>5. ASSUME NEW i \in 1 .. Len(b)
      PROVE  Old(i) \in 1 .. Len(a) /\ b[i] = a[Old(i)]
  <2>1. CASE i <= Len(r)
    BY ONLY <1>1, <1>2, <1>3, <1>5, <2>1
  <2>2. CASE i > Len(r)
    <3>1. PICK j \in 1 .. Len(w) : i = Len(r) + j
      <4>1. i - Len(r) \in 1 .. Len(w) /\ i = Len(r) + (i - Len(r))
        BY ONLY <1>1, <1>2, <1>3, <1>5, <2>2
      <4> QED BY ONLY <4>1
    <3>2. b[i] = w[j] /\ w[j] = q[j + 1]
      BY ONLY <1>1, <1>3, <3>1
    <3>3. j + 1 \in 1 .. Len(q) /\ Old(i) = Len(r) + (j + 1)
      BY ONLY <1>1, <1>2, <2>2, <3>1
    <3>4. Old(i) \in 1 .. Len(a)
      BY ONLY <1>2, <3>3
    <3> QED BY ONLY <1>2, <3>2, <3>3, <3>4
  <2> QED BY ONLY <1>2, <1>5, <2>1, <2>2
<1>6. Rising(b)
  <2>1. ASSUME NEW i \in 1 .. Len(b), NEW j \in 1 .. Len(b), i < j
        PROVE  Old(i) < Old(j)
    BY ONLY <1>2, <2>1
  <2> HIDE DEF Old
  <2>2. ASSUME NEW i \in 1 .. Len(b), NEW j \in 1 .. Len(b), i < j
        PROVE  b[i] < b[j]
    BY ONLY <1>4, <1>5, <2>1, <2>2 DEF Rising
  <2> QED BY ONLY <2>2 DEF Rising
<1>7. Upto(b, n)
  <2> HIDE DEF Old
  <2> QED BY ONLY <1>4, <1>5 DEF Upto
<1> QED BY <1>6, <1>7 DEF b, w

LEMMA RisingAppend ==
    ASSUME NEW a \in Numbers, NEW n \in Nat, NEW e \in 1 .. MaxPyEvents, e = n + 1,
           Rising(a), Upto(a, n)
    PROVE  Rising(Append(a, e)) /\ Upto(Append(a, e), e)
<1> DEFINE b == Append(a, e)
<1>1. /\ Len(b) = Len(a) + 1 /\ Len(a) \in Nat /\ b[Len(a) + 1] = e
      /\ \A i \in 1 .. Len(a) : b[i] = a[i]
  BY SeqAppend DEF Numbers
<1>2. \A i \in 1 .. Len(a) : a[i] \in Int
  <2>1. \A i \in 1 .. Len(a) : a[i] \in 1 .. MaxPyEvents
    BY SeqEmpty DEF Numbers
  <2> QED BY ONLY <2>1
<1> HIDE DEF b
<1>3. ASSUME NEW i \in 1 .. Len(b)
      PROVE  b[i] <= e /\ (i <= Len(a) => b[i] < e)
  <2>1. CASE i <= Len(a)
    <3>1. i \in 1 .. Len(a)
      BY ONLY <1>1, <1>3, <2>1
    <3>2. b[i] = a[i] /\ a[i] \in Int /\ a[i] <= n
      BY ONLY <1>1, <1>2, <3>1, Upto(a, n) DEF Upto
    <3> QED BY ONLY <3>2, n \in Nat, e = n + 1
  <2>2. CASE i = Len(a) + 1
    BY ONLY <1>1, <2>2, n \in Nat, e = n + 1
  <2> QED BY ONLY <1>1, <1>3, <2>1, <2>2
<1>4. ASSUME NEW i \in 1 .. Len(b), NEW j \in 1 .. Len(b), i < j
      PROVE  b[i] < b[j]
  <2>1. CASE j <= Len(a)
    <3>1. i \in 1 .. Len(a) /\ j \in 1 .. Len(a)
      BY ONLY <1>1, <1>4, <2>1
    <3> QED BY ONLY <1>1, <1>4, <3>1, Rising(a) DEF Rising
  <2>2. CASE j = Len(a) + 1
    <3>1. i <= Len(a) /\ b[j] = e
      BY ONLY <1>1, <1>4, <2>2
    <3> QED BY ONLY <1>3, <3>1
  <2> QED BY ONLY <1>1, <1>4, <2>1, <2>2
<1>5. Rising(b) /\ Upto(b, e)
  BY ONLY <1>3, <1>4 DEF Rising, Upto
<1> QED BY <1>5 DEF b

LEMMA InOrderStep ==
    ASSUME NEW t \in PyThread, Step(t), Types, LogInv
    PROVE  (Rising(records \o queued) /\ Upto(records \o queued, pyEvents))'
<1>1. queued \in Numbers /\ records \in Numbers /\ pyEvents \in 0 .. MaxPyEvents
  BY DEF Types, LogTypes, CountTypes
<1>2. Rising(records \o queued) /\ Upto(records \o queued, pyEvents)
  BY DEF LogInv
<1>3. CASE log_cb
  <2>1. /\ records' = records /\ pyEvents < MaxPyEvents /\ pyEvents' = pyEvents + 1
        /\ queued' = queued \/ queued' = Append(queued, pyEvents')
    BY <1>3 DEF log_cb
  <2>2. pyEvents \in Nat /\ pyEvents' \in 1 .. MaxPyEvents /\ pyEvents' = pyEvents + 1
    BY ONLY <1>1, <2>1, Bounds
  <2>3. CASE queued' = queued
    <3>1. Upto(records \o queued, pyEvents')
      <4>1. records \o queued \in Seq(1 .. MaxPyEvents)
        BY <1>1, SeqConcat DEF Numbers
      <4>2. \A i \in 1 .. Len(records \o queued) : (records \o queued)[i] \in 1 .. MaxPyEvents
        BY ONLY <4>1, SeqEmpty
      <4> DEFINE all == records \o queued
      <4> HIDE DEF all
      <4>3. \A i \in 1 .. Len(all) : all[i] \in 1 .. MaxPyEvents /\ all[i] <= pyEvents
        BY <1>2, <4>2 DEF all, Upto
      <4>4. \A i \in 1 .. Len(all) : all[i] <= pyEvents'
        BY ONLY <2>2, <4>3
      <4> QED BY ONLY <4>4 DEF all, Upto
    <3> QED BY ONLY <1>2, <2>1, <2>3, <3>1 DEF Rising, Upto
  <2>4. CASE queued' = Append(queued, pyEvents')
    <3>1. records \o queued \in Numbers
      BY <1>1, SeqConcat DEF Numbers
    <3>2. Rising(Append(records \o queued, pyEvents'))
          /\ Upto(Append(records \o queued, pyEvents'), pyEvents')
      BY ONLY <1>2, <2>2, <3>1, RisingAppend
    <3>3. records' \o queued' = Append(records \o queued, pyEvents')
      BY ONLY <1>1, <2>1, <2>2, <2>4, MessageQueued
    <3> QED BY ONLY <3>2, <3>3 DEF Rising, Upto
  <2> QED BY <2>1, <2>3, <2>4
<1>4. CASE log_cb_withgil
  <2>1. /\ queued # <<>> /\ queued' = Tail(queued) /\ pyEvents' = pyEvents
        /\ records' = records \/ records' = Append(records, Head(queued))
    BY <1>4 DEF log_cb_withgil, LogDiscarded, LogRecorded
  <2>2. CASE records' = records
    <3>1. Rising(records \o Tail(queued)) /\ Upto(records \o Tail(queued), pyEvents)
      <4>1. pyEvents \in Nat
        BY ONLY <1>1
      <4> QED BY ONLY <1>1, <1>2, <2>1, <4>1, MessageLost
    <3> QED BY ONLY <2>1, <2>2, <3>1 DEF Rising, Upto
  <2>3. CASE records' = Append(records, Head(queued))
    <3>1. records' \o queued' = records \o queued
      BY ONLY <1>1, <2>1, <2>3, MessageHandled
    <3> QED BY ONLY <1>2, <2>1, <3>1 DEF Rising, Upto
  <2> QED BY <2>1, <2>2, <2>3
<1>5. CASE queued' = queued /\ records' = records /\ ~log_cb
  <2>1. pyEvents' = pyEvents \/ pyEvents' = pyEvents + 1
    BY <1>5, EventsFrame DEF IoEvent
  <2>2. records \o queued \in Seq(1 .. MaxPyEvents)
    BY <1>1, SeqConcat DEF Numbers
  <2>3. \A i \in 1 .. Len(records \o queued) : (records \o queued)[i] \in 1 .. MaxPyEvents
    BY ONLY <2>2, SeqEmpty
  <2> DEFINE all == records \o queued
  <2> HIDE DEF all
  <2>4. \A i \in 1 .. Len(all) : all[i] \in 1 .. MaxPyEvents /\ all[i] <= pyEvents
    BY <1>2, <2>3 DEF all, Upto
  <2>5. \A i \in 1 .. Len(all) : all[i] <= pyEvents'
    BY ONLY <1>1, <2>1, <2>4
  <2>6. Upto(records \o queued, pyEvents')
    BY ONLY <2>5 DEF all, Upto
  <2> QED BY ONLY <1>2, <1>5, <2>6 DEF Rising, Upto
<1> QED BY <1>3, <1>4, <1>5, LogFrame

LEMMA DefinedBefore ==
    ASSUME NEW t \in PyThread, Step(t), undefined' = ""
    PROVE  undefined = ""
  BY UndefinedFrame DEF Broken, Runs, SetsFile, EndsAnswered, GaveUp, Ends, StopFails, Freed,
     IoAborts, Takes, IoEvent, IoTakesGil, log_cb

Losses == {"queue full", "unraisable", "shutdown"}

LEMMA NoneLostStep ==
    ASSUME NEW t \in PyThread, Step(t), Types, SelfInv, LogInv,
           cls' = "Log", undefined' = "", blame' \cap Losses = {}
    PROVE  (Len(records \o queued) = pyEvents)'
<1>1. queued \in Numbers /\ records \in Numbers /\ pyEvents \in 0 .. MaxPyEvents
  BY DEF Types, LogTypes, CountTypes
<1>2. cls = "Log" /\ undefined = "" /\ blame \cap Losses = {} /\ blame \subseteq blame'
  BY DefinedBefore, SceneFrame
<1>3. Len(records \o queued) = pyEvents
  BY <1>2 DEF LogInv, Losses
<1>4. CASE log_cb
  <2>1. /\ records' = records /\ pyEvents < MaxPyEvents /\ pyEvents' = pyEvents + 1
        /\ queued' = Append(queued, pyEvents')
    BY <1>4 DEF log_cb, Breaks, Blames, Losses
  <2>2. pyEvents' \in 1 .. MaxPyEvents
    BY ONLY <1>1, <2>1, Bounds
  <2>3. records \o queued \in Numbers
    BY <1>1, SeqConcat DEF Numbers
  <2>4. records' \o queued' = Append(records \o queued, pyEvents')
    BY ONLY <1>1, <2>1, <2>2, MessageQueued
  <2>5. Len(Append(records \o queued, pyEvents')) = Len(records \o queued) + 1
    BY <2>2, <2>3, SeqAppend DEF Numbers
  <2> QED BY ONLY <1>3, <2>1, <2>4, <2>5
<1>5. CASE log_cb_withgil
  <2>1. /\ queued # <<>> /\ queued' = Tail(queued) /\ pyEvents' = pyEvents
        /\ records' = Append(records, Head(queued))
    BY <1>5 DEF log_cb_withgil, LogDiscarded, LogRecorded, Blames, Losses
  <2>2. records' \o queued' = records \o queued
    BY ONLY <1>1, <2>1, MessageHandled
  <2> QED BY ONLY <1>3, <2>1, <2>2
<1>6. CASE queued' = queued /\ records' = records /\ ~log_cb
  <2>1. ~IoEvent
    BY <1>2 DEF SelfInv, IoEvent
  <2> QED BY <1>3, <1>6, <2>1, EventsFrame
<1> QED BY <1>4, <1>5, <1>6, LogFrame

LEMMA LogStep ==
    ASSUME NEW t \in PyThread, Step(t), Types, SelfInv, LogInv
    PROVE  LogInv'
<1>1. (Rising(records \o queued) /\ Upto(records \o queued, pyEvents))'
  BY InOrderStep
<1>2. cls' = "Log" /\ undefined' = "" /\ blame' \cap Losses = {} =>
          (Len(records \o queued) = pyEvents)'
  BY NoneLostStep
<1> QED BY ONLY <1>1, <1>2 DEF LogInv, Losses
-----------------------------------------------------------------------------
(* The inductive invariant, and what it says.                              *)

LEMMA SeqNothing == /\ \A S : <<>> \in Seq(S)
                    /\ Len(<<>>) = 0 /\ <<>> \o <<>> = <<>>
  OBVIOUS

LEMMA IInvInit == PyInit => IInv
<1> SUFFICES ASSUME PyInit
             PROVE  IInv
  OBVIOUS
<1>0. \A t \in PyThread : inC[t] = InPython /\ inC[t].kind = "python" /\ ~Inside(t)
                          /\ inC[t].meth = "" /\ ~Asking(t)
  BY DEF PyInit, InPython, Inside, Asking, Data
<1>1. Types
  <2>1. InPython \in Call
    BY Bounds DEF InPython, Call, Kinds, Methods
  <2>2. inC \in [PyThread -> Call]
    BY <2>1 DEF PyInit
  <2>0. 0 \in 0 .. MaxPyCalls /\ 0 \in 0 .. MaxPyEvents /\ 0 \in 0 .. MaxPyFails
    BY ONLY Bounds
  <2>3. RequestTypes
    <3>1. [n |-> 0, ok |-> FALSE] \in [n : 0 .. MaxPyCalls, ok : BOOLEAN]
      BY ONLY <2>0
    <3>2. <<>> \in Seq(Request)
      BY ONLY SeqNothing
    <3>3. req = <<>> /\ ans = [n |-> 0, ok |-> FALSE]
      BY DEF PyInit
    <3> QED BY ONLY <3>1, <3>2, <3>3 DEF RequestTypes
  <2>4. FileTypes /\ CountTypes
    <3>1. /\ fp = 0 /\ cfp = 0 /\ closed = {} /\ funcs = "none"
          /\ pyCalls = 0 /\ pyEvents = 0 /\ pyFails = 0
      BY DEF PyInit
    <3> QED BY ONLY <2>0, <3>1 DEF FileTypes, CountTypes
  <2>5. LogTypes
    <3>1. queued = <<>> /\ records = <<>>
      BY DEF PyInit
    <3>2. <<>> \in Numbers
      BY ONLY SeqNothing DEF Numbers
    <3> QED BY ONLY <3>1, <3>2, SeqNothing, Bounds DEF LogTypes
  <2>6. ObjectTypes
    BY DEF PyInit, ObjectTypes
  <2> QED BY ONLY <2>2, <2>3, <2>4, <2>5, <2>6 DEF Types
<1>2. GilInv
  BY <1>0 DEF PyInit, GilInv
<1>3. CallInv
  BY <1>0 DEF CallInv
<1>4. QueueInv
  <2>1. req = <<>> /\ ans.n = 0 /\ pyCalls = 0
    BY DEF PyInit
  <2>2. Numbered
    BY ONLY <2>1, SeqNothing DEF Numbered
  <2>3. \A t \in PyThread : ~Asking(t)
    BY <1>0
  <2>4. ~(ans.n > 0)
    BY ONLY <2>1
  <2> QED BY ONLY <2>2, <2>3, <2>4 DEF QueueInv
<1>5. AgreeInv /\ SelfInv
  BY <1>0 DEF PyInit, AgreeInv, SelfInv
<1>6. FileInv /\ LastInv /\ PyUndefinedOnlyIf
  BY DEF PyInit, FileInv, LastInv, PyUndefinedOnlyIf
<1>7. LogInv
  <2>0. records = <<>> /\ queued = <<>> /\ pyEvents = 0
    BY DEF PyInit
  <2>1. records \o queued = <<>> /\ Len(records \o queued) = 0 /\ pyEvents = 0
    BY ONLY <2>0, SeqNothing
  <2> QED BY ONLY <2>1 DEF LogInv, Rising, Upto
<1> QED BY ONLY <1>1, <1>2, <1>3, <1>4, <1>5, <1>6, <1>7 DEF IInv

LEMMA IInvNext == IInv /\ [PyNext]_pyVars => IInv'
<1> SUFFICES ASSUME IInv, [PyNext]_pyVars
             PROVE  IInv'
  OBVIOUS
<1>0. /\ Types /\ GilInv /\ CallInv /\ QueueInv /\ AgreeInv /\ SelfInv
      /\ FileInv /\ LastInv /\ LogInv /\ PyUndefinedOnlyIf
  BY DEF IInv
<1>1. PICK t \in PyThread : Step(t)
  BY <1>0, StepForms
<1>2. Types' /\ GilInv' /\ CallInv'
  BY ONLY <1>0, <1>1, TypesStep, GilStep, CallStep
<1>3. QueueInv'
  BY ONLY <1>0, <1>1, QueueStep
<1>4. AgreeInv'
  <2>1. undefined' = "" /\ "timeout" \notin blame' /\ self' = "live" =>
            /\ (\A u \in PyThread : ~(Inside(u)')) => Settled'
            /\ \A u \in PyThread : Inside(u)' => AgreeOK(u)'
    BY ONLY <1>0, <1>1, AgreeStep
  <2> QED BY ONLY <2>1 DEF AgreeInv
<1>5. SelfInv' /\ FileInv' /\ LastInv'
  BY ONLY <1>0, <1>1, SelfStep, FileStep, LastStep
<1>6. LogInv' /\ PyUndefinedOnlyIf'
  BY ONLY <1>0, <1>1, LogStep, UndefinedStep
<1> QED BY ONLY <1>2, <1>3, <1>4, <1>5, <1>6 DEF IInv

LEMMA TypesOK == ASSUME Types PROVE PyTypeOK
<1>1. handler \in {"python", "c", "none"}
  BY DEF Types, ObjectTypes, HandlersOf
<1>2. \A t \in PyThread : inC[t].kind \in Kinds /\ inC[t].n \in 0 .. MaxPyCalls
  BY DEF Types, Call
<1> QED
  BY <1>1, <1>2 DEF Types, ObjectTypes, FileTypes, LogTypes, PyTypeOK

(* Eight severities and six levels.                                        *)
LEMMA Severities ==
    /\ \A p \in 0 .. 7 : loglevel_syslog2py(p) =
          IF p <= 2 THEN 50 ELSE IF p = 3 THEN 40 ELSE IF p = 4 THEN 30
          ELSE IF p <= 6 THEN 20 ELSE 10
    /\ loglevel_py2syslog(50) = 2 /\ loglevel_py2syslog(40) = 3 /\ loglevel_py2syslog(30) = 4
    /\ loglevel_py2syslog(20) = 6 /\ loglevel_py2syslog(10) = 7 /\ loglevel_py2syslog(0) = 0
  BY DEF loglevel_syslog2py, loglevel_py2syslog, CRITICAL, ERROR, WARNING, INFO, DEBUG, NOTSET,
     LOG_ERR, Unknown

LEMMA LevelsDoAgree == LevelsAgree
<1> DEFINE PassedOn(level, p) == osd_log_cond(osd_log_new(loglevel_py2syslog(level)), p)
           AtLeast(level, p) == loglevel_syslog2py(p) >= level
<1>1. ASSUME NEW p \in 0 .. 7
      PROVE  /\ PassedOn(50, p) <=> AtLeast(50, p)
             /\ PassedOn(40, p) <=> AtLeast(40, p)
             /\ PassedOn(30, p) <=> AtLeast(30, p)
             /\ PassedOn(20, p) <=> AtLeast(20, p)
             /\ PassedOn(10, p) <=> AtLeast(10, p)
             /\ PassedOn(0, p) <=> AtLeast(40, p)
  BY <1>1, Severities DEF osd_log_cond, osd_log_new, LOG_ERR
<1> QED BY <1>1 DEF LevelsAgree, CRITICAL, ERROR, WARNING, INFO, DEBUG, NOTSET, osd_log_cond

LEMMA IInvSafe ==
    ASSUME IInv
    PROVE  BindingsAreSafe /\ ReturnedIsDone
<1>0. Types /\ SelfInv /\ LastInv /\ LogInv /\ PyUndefinedOnlyIf
  BY DEF IInv
<1>1. LogsHandledInOrder
  <2>1. queued \in Numbers /\ records \in Numbers
    BY <1>0 DEF Types, LogTypes
  <2>2. records \o queued \in Seq(1 .. MaxPyEvents)
    BY <2>1, SeqConcat DEF Numbers
  <2>3. DOMAIN (records \o queued) = 1 .. Len(records \o queued)
    BY ONLY <2>2
  <2> QED BY ONLY <1>0, <2>3 DEF LogInv, Rising, LogsHandledInOrder
<1>2. BindingsAreSafe
  BY ONLY <1>0, <1>1, TypesOK, LevelsDoAgree DEF BindingsAreSafe
<1>3. ReturnedIsDone
  BY ONLY <1>0 DEF SelfInv, LastInv, Settled, ReturnedIsDone
<1> QED BY <1>2, <1>3

LEMMA IInvAlways == PySpec => []IInv
  BY IInvInit, IInvNext, PTL DEF PySpec

(* Whatever the Python threads call and in which order, and whenever the   *)
(* I/O thread of libosd calls back: the generated module stays within its  *)
(* types and queues, the process keeps its defined behaviour unless one of *)
(* the named causes came before, and log_cb() and log_cb_withgil() hand on *)
(* the messages of the library in their order, none of them twice.         *)
THEOREM BindingsStaySafe == PySpec => []BindingsAreSafe
<1>1. IInv => BindingsAreSafe
  BY IInvSafe
<1> QED BY <1>1, IInvAlways, PTL

(* connect() and disconnect() that return without an exception, after      *)
(* check_osd_result(), leave the object and its I/O thread connected or    *)
(* disconnected, and no I/O thread survives the context that it works for. *)
THEOREM ReturnsAreDone == PySpec => []ReturnedIsDone
<1>1. IInv => ReturnedIsDone
  BY IInvSafe
<1> QED BY <1>1, IInvAlways, PTL
-----------------------------------------------------------------------------
(* Packets: blocks, and the sequences of words they stand for.             *)

Cell == Nat \cup {Undef}
IsBlock(b) ==
    /\ Capacity(b) \in Nat /\ Capacity(b) >= 3
    /\ b \in [-1 .. (Capacity(b) - 1) -> Cell]
    /\ b[-1] \in 0 .. (SIZE_MOD - 1)
IsPacketOf(b, n) ==
    n \in 3 .. (SIZE_MOD - 1) /\ b \in [-1 .. (n - 1) -> Nat] /\ b[-1] = n

LEMMA SizeIsSmall == SIZE_MOD \in Nat /\ SIZE_MOD > 3 /\ SIZE_MOD \in Int
  BY SizeAssumption

LEMMA Remainder ==
    ASSUME NEW n \in Int, NEW m \in Int, m > 0
    PROVE  n % m \in 0 .. (m - 1) /\ (n \in 0 .. (m - 1) => n % m = n)
  OBVIOUS

LEMMA SizeFieldIs ==
    ASSUME NEW n \in Nat
    PROVE  SizeField(n) \in 0 .. (SIZE_MOD - 1) /\ (n <= SIZE_MOD - 1 => SizeField(n) = n)
<1>1. /\ n \in Int /\ SIZE_MOD \in Int /\ SIZE_MOD > 0
      /\ n <= SIZE_MOD - 1 => n \in 0 .. (SIZE_MOD - 1)
  BY SizeIsSmall
<1> QED BY ONLY <1>1, Remainder DEF SizeField

LEMMA CapacityIs ==
    ASSUME NEW m \in Nat, NEW b, DOMAIN b = -1 .. (m - 1)
    PROVE  Capacity(b) = m
<1>1. Cardinality(-1 .. (m - 1)) = m + 1
  <2>1. -1 \in Int /\ m - 1 \in Int /\ ~(-1 > m - 1) /\ (m - 1) - (-1) + 1 = m + 1
    OBVIOUS
  <2> QED BY ONLY <2>1, FS_Interval
<1> QED BY <1>1 DEF Capacity

LEMMA BlockIs ==
    ASSUME NEW m \in Nat, m >= 3, NEW b, b \in [-1 .. (m - 1) -> Cell],
           b[-1] \in 0 .. (SIZE_MOD - 1)
    PROVE  IsBlock(b) /\ Capacity(b) = m
<1>1. Capacity(b) = m
  BY CapacityIs
<1> QED BY ONLY <1>1, m \in Nat, m >= 3, b \in [-1 .. (m - 1) -> Cell],
           b[-1] \in 0 .. (SIZE_MOD - 1) DEF IsBlock

LEMMA PacketIs ==
    ASSUME NEW b, NEW n, IsPacketOf(b, n)
    PROVE  /\ IsBlock(b) /\ WellFormed(b) /\ Capacity(b) = n /\ DataSizeWords(b) = n
           /\ n \in Nat /\ DOMAIN b = -1 .. (n - 1) /\ \A i \in -1 .. (n - 1) : b[i] \in Nat
<1>1. /\ n \in Nat /\ n >= 3 /\ n <= SIZE_MOD - 1 /\ b \in [-1 .. (n - 1) -> Nat] /\ b[-1] = n
  BY SizeIsSmall DEF IsPacketOf
<1>2. b \in [-1 .. (n - 1) -> Cell]
  BY ONLY <1>1 DEF Cell
<1>3. n \in 0 .. (SIZE_MOD - 1)
  BY ONLY <1>1, SizeIsSmall
<1>4. IsBlock(b) /\ Capacity(b) = n
  BY ONLY <1>1, <1>2, <1>3, BlockIs
<1>5. DOMAIN b = -1 .. (n - 1) /\ \A i \in -1 .. (n - 1) : b[i] \in Nat
  BY ONLY <1>1
<1>6. \A i \in -1 .. (n - 1) : b[i] # Undef
  BY ONLY <1>5 DEF Undef
<1> QED BY ONLY <1>1, <1>4, <1>5, <1>6 DEF WellFormed, DataSizeWords

LEMMA WellFormedIsPacket ==
    ASSUME NEW b, IsBlock(b), WellFormed(b)
    PROVE  IsPacketOf(b, DataSizeWords(b)) /\ DataSizeWords(b) = Capacity(b)
<1> DEFINE n == Capacity(b)
<1>1. n \in Nat /\ n >= 3 /\ b \in [-1 .. (n - 1) -> Cell] /\ b[-1] \in 0 .. (SIZE_MOD - 1)
  BY DEF IsBlock
<1>2. b[-1] = n /\ \A i \in DOMAIN b : b[i] # Undef
  BY DEF WellFormed, DataSizeWords
<1> HIDE DEF n
<1>3. b \in [-1 .. (n - 1) -> Nat]
  BY ONLY <1>1, <1>2 DEF Cell
<1>4. n \in 3 .. (SIZE_MOD - 1)
  BY ONLY <1>1, <1>2, SizeIsSmall
<1> QED BY ONLY <1>2, <1>3, <1>4 DEF IsPacketOf, DataSizeWords, n

LEMMA ContentsAre ==
    ASSUME NEW b, NEW n, IsPacketOf(b, n)
    PROVE  /\ Contents(b) = [i \in 1 .. n |-> b[i - 1]] /\ Contents(b) \in Seq(Nat)
           /\ Len(Contents(b)) = n /\ n \in Nat
           /\ \A i \in 1 .. n : Contents(b)[i] = b[i - 1]
<1>1. /\ n \in Nat /\ Capacity(b) = n /\ \A i \in -1 .. (n - 1) : b[i] \in Nat
  BY PacketIs
<1>2. Contents(b) = [i \in 1 .. n |-> b[i - 1]]
  BY ONLY <1>1 DEF Contents
<1>3. \A i \in 1 .. n : b[i - 1] \in Nat
  BY ONLY <1>1
<1> QED BY ONLY <1>1, <1>2, <1>3
-----------------------------------------------------------------------------
(* Sequences with one word less, one more, or two joined.                  *)

LEMMA SeqIs ==
    ASSUME NEW S, NEW q \in Seq(S)
    PROVE  q = [i \in 1 .. Len(q) |-> q[i]] /\ Len(q) \in Nat
  OBVIOUS

LEMMA FunctionIsSeq ==
    ASSUME NEW S, NEW m \in Nat, NEW f, f \in [1 .. m -> S]
    PROVE  f \in Seq(S) /\ Len(f) = m
  OBVIOUS

LEMMA SeqsJoin ==
    ASSUME NEW S, NEW s \in Seq(S), NEW t \in Seq(S)
    PROVE  /\ s \o t \in Seq(S) /\ Len(s \o t) = Len(s) + Len(t)
           /\ Len(s) \in Nat /\ Len(t) \in Nat
           /\ \A i \in 1 .. Len(s) : (s \o t)[i] = s[i]
  OBVIOUS

LEMMA RemoveForm ==
    ASSUME NEW S, NEW s \in Seq(S), NEW k \in 1 .. Len(s)
    PROVE  L!RemoveAt(s, k) = [i \in 1 .. (Len(s) - 1) |-> IF i < k THEN s[i] ELSE s[i + 1]]
<1>1. /\ SubSeq(s, 1, k - 1) \in Seq(S) /\ Len(SubSeq(s, 1, k - 1)) = k - 1
      /\ \A i \in 1 .. (k - 1) : SubSeq(s, 1, k - 1)[i] = s[i]
  OBVIOUS
<1>2. /\ SubSeq(s, k + 1, Len(s)) \in Seq(S) /\ Len(SubSeq(s, k + 1, Len(s))) = Len(s) - k
      /\ \A i \in 1 .. (Len(s) - k) : SubSeq(s, k + 1, Len(s))[i] = s[i + k]
  OBVIOUS
<1> DEFINE h == SubSeq(s, 1, k - 1)
           t == SubSeq(s, k + 1, Len(s))
<1>3. L!RemoveAt(s, k) = h \o t
  BY DEF L!RemoveAt
<1> HIDE DEF h, t
<1>4. /\ h \in Seq(S) /\ Len(h) = k - 1 /\ \A i \in 1 .. (k - 1) : h[i] = s[i]
      /\ t \in Seq(S) /\ Len(t) = Len(s) - k /\ \A i \in 1 .. (Len(s) - k) : t[i] = s[i + k]
  BY ONLY <1>1, <1>2 DEF h, t
<1>5. h \o t \in Seq(S) /\ Len(h \o t) = Len(s) - 1 /\ Len(s) \in Nat /\ k \in 1 .. Len(s)
  <2>1. h \o t \in Seq(S) /\ Len(h \o t) = Len(h) + Len(t)
    BY ONLY <1>4, SeqsJoin
  <2>2. Len(s) \in Nat /\ k \in 1 .. Len(s)
    BY ONLY s \in Seq(S), k \in 1 .. Len(s)
  <2>3. Len(h) + Len(t) = Len(s) - 1
    BY ONLY <1>4, <2>2
  <2> QED BY ONLY <2>1, <2>2, <2>3
<1>6. ASSUME NEW i \in 1 .. (Len(s) - 1)
      PROVE  (h \o t)[i] = IF i < k THEN s[i] ELSE s[i + 1]
  <2>1. CASE i < k
    BY ONLY <1>4, <1>5, <2>1, i \in 1 .. (Len(s) - 1)
  <2>2. CASE ~(i < k)
    <3>1. i - (k - 1) \in 1 .. (Len(s) - k) /\ i - (k - 1) + k = i + 1
      BY ONLY <1>5, <2>2, i \in 1 .. (Len(s) - 1)
    <3>2. (h \o t)[i] = t[i - (k - 1)]
      BY ONLY <1>4, <1>5, <2>2, i \in 1 .. (Len(s) - 1)
    <3> QED BY ONLY <1>4, <2>2, <3>1, <3>2
  <2> QED BY ONLY <2>1, <2>2
<1>7. h \o t = [i \in 1 .. (Len(s) - 1) |-> (h \o t)[i]]
  BY ONLY <1>5, SeqIs
<1> QED BY ONLY <1>3, <1>6, <1>7

LEMMA InsertForm ==
    ASSUME NEW S, NEW s \in Seq(S), NEW k \in 1 .. (Len(s) + 1), NEW e \in S
    PROVE  L!InsertAt(s, k, e) = [i \in 1 .. (Len(s) + 1) |->
               IF i < k THEN s[i] ELSE IF i = k THEN e ELSE s[i - 1]]
<1>1. /\ SubSeq(s, 1, k - 1) \in Seq(S) /\ Len(SubSeq(s, 1, k - 1)) = k - 1
      /\ \A i \in 1 .. (k - 1) : SubSeq(s, 1, k - 1)[i] = s[i]
  OBVIOUS
<1>2. /\ SubSeq(s, k, Len(s)) \in Seq(S) /\ Len(SubSeq(s, k, Len(s))) = Len(s) - k + 1
      /\ \A i \in 1 .. (Len(s) - k + 1) : SubSeq(s, k, Len(s))[i] = s[i + k - 1]
  OBVIOUS
<1> DEFINE h == SubSeq(s, 1, k - 1)
           t == SubSeq(s, k, Len(s))
           g == h \o <<e>>
<1>3. L!InsertAt(s, k, e) = g \o t
  BY DEF L!InsertAt
<1> HIDE DEF h, t
<1>4. /\ h \in Seq(S) /\ Len(h) = k - 1 /\ \A i \in 1 .. (k - 1) : h[i] = s[i]
      /\ t \in Seq(S) /\ Len(t) = Len(s) - k + 1
      /\ \A i \in 1 .. (Len(s) - k + 1) : t[i] = s[i + k - 1]
      /\ Len(s) \in Nat /\ k \in 1 .. (Len(s) + 1)
  BY ONLY <1>1, <1>2, s \in Seq(S), k \in 1 .. (Len(s) + 1) DEF h, t
<1>5. /\ g \in Seq(S) /\ Len(g) = k /\ g[k] = e /\ \A i \in 1 .. (k - 1) : g[i] = s[i]
  <2>1. <<e>> \in Seq(S) /\ Len(<<e>>) = 1 /\ <<e>>[1] = e
    BY ONLY e \in S
  <2>2. /\ g \in Seq(S) /\ Len(g) = Len(h) + 1 /\ g[Len(h) + 1] = <<e>>[1]
        /\ \A i \in 1 .. Len(h) : g[i] = h[i]
    <3>1. h \in Seq(S) /\ Len(h) \in Nat
      BY ONLY <1>4
    <3> QED BY ONLY <3>1, <2>1
  <2> HIDE DEF g
  <2>3. Len(h) + 1 = k /\ \A i \in 1 .. (k - 1) : i \in 1 .. Len(h)
    BY ONLY <1>4
  <2> QED BY ONLY <1>4, <2>1, <2>2, <2>3
<1> HIDE DEF g
<1>6. g \o t \in Seq(S) /\ Len(g \o t) = Len(s) + 1
  BY ONLY <1>4, <1>5
<1>7. ASSUME NEW i \in 1 .. (Len(s) + 1)
      PROVE  (g \o t)[i] = IF i < k THEN s[i] ELSE IF i = k THEN e ELSE s[i - 1]
  <2>1. CASE i <= k
    <3>1. (g \o t)[i] = g[i]
      BY ONLY <1>4, <1>5, <2>1, i \in 1 .. (Len(s) + 1)
    <3> QED BY ONLY <1>4, <1>5, <2>1, <3>1, i \in 1 .. (Len(s) + 1), SMTT(40)
  <2>2. CASE ~(i <= k)
    <3>1. i - k \in 1 .. (Len(s) - k + 1) /\ i - k + k - 1 = i - 1
      BY ONLY <1>4, <2>2, i \in 1 .. (Len(s) + 1)
    <3>2. (g \o t)[i] = t[i - k]
      BY ONLY <1>4, <1>5, <2>2, i \in 1 .. (Len(s) + 1)
    <3> QED BY ONLY <1>4, <2>2, <3>1, <3>2, i \in 1 .. (Len(s) + 1)
  <2> QED BY ONLY <1>4, <2>1, <2>2
<1>8. g \o t = [i \in 1 .. (Len(s) + 1) |-> (g \o t)[i]]
  BY ONLY <1>6, SeqIs
<1> QED BY ONLY <1>3, <1>7, <1>8

LEMMA TailForm ==
    ASSUME NEW S, NEW s \in Seq(S), Len(s) >= 3
    PROVE  /\ SubSeq(s, 4, Len(s)) \in Seq(S) /\ Len(SubSeq(s, 4, Len(s))) = Len(s) - 3
           /\ \A i \in 1 .. (Len(s) - 3) : SubSeq(s, 4, Len(s))[i] = s[i + 3]
<1>1. Len(s) \in Nat /\ Len(s) \in Int /\ s \in Seq(S)
  OBVIOUS
<1>2. SubSeq(s, 4, Len(s)) = [i \in 1 .. (Len(s) - 3) |-> s[i + 3]]
  OBVIOUS
<1>3. \A i \in 1 .. (Len(s) - 3) : s[i + 3] \in S
  BY ONLY <1>1
<1>4. Len(s) - 3 \in Nat
  BY ONLY <1>1, Len(s) >= 3
<1>5. SubSeq(s, 4, Len(s)) \in [1 .. (Len(s) - 3) -> S]
  BY ONLY <1>2, <1>3
<1>6. SubSeq(s, 4, Len(s)) \in Seq(S) /\ Len(SubSeq(s, 4, Len(s))) = Len(s) - 3
  BY ONLY <1>4, <1>5, FunctionIsSeq
<1> QED BY ONLY <1>2, <1>6

LEMMA JoinForm ==
    ASSUME NEW S, NEW s \in Seq(S), NEW t \in Seq(S)
    PROVE  s \o t = [i \in 1 .. (Len(s) + Len(t)) |->
               IF i <= Len(s) THEN s[i] ELSE t[i - Len(s)]]
<1>1. s \o t \in Seq(S) /\ Len(s \o t) = Len(s) + Len(t) /\ Len(s) \in Nat /\ Len(t) \in Nat
  OBVIOUS
<1>2. \A i \in 1 .. (Len(s) + Len(t)) :
          (s \o t)[i] = IF i <= Len(s) THEN s[i] ELSE t[i - Len(s)]
  OBVIOUS
<1>3. s \o t = [i \in 1 .. Len(s \o t) |-> (s \o t)[i]]
  BY ONLY <1>1, SeqIs
<1> QED BY ONLY <1>1, <1>2, <1>3
-----------------------------------------------------------------------------
(* What the functions on blocks do to the words.                           *)

LEMMA PacketStores ==
    ASSUME NEW b, NEW n, IsPacketOf(b, n), NEW p, p \in 0 .. (n - 1), NEW v \in Nat
    PROVE  /\ IsPacketOf([b EXCEPT ![p] = v], n)
           /\ Contents([b EXCEPT ![p] = v]) = [Contents(b) EXCEPT ![p + 1] = v]
<1> DEFINE d == [b EXCEPT ![p] = v]
<1>1. n \in 3 .. (SIZE_MOD - 1) /\ n \in Nat /\ b \in [-1 .. (n - 1) -> Nat] /\ b[-1] = n
  BY SizeIsSmall DEF IsPacketOf
<1>2. /\ d \in [-1 .. (n - 1) -> Nat] /\ d[-1] = n
      /\ \A i \in -1 .. (n - 1) : d[i] = IF i = p THEN v ELSE b[i]
  BY ONLY <1>1, p \in 0 .. (n - 1), v \in Nat
<1> HIDE DEF d
<1>3. IsPacketOf(d, n)
  BY ONLY <1>1, <1>2 DEF IsPacketOf
<1>4. Contents(d) = [i \in 1 .. n |-> d[i - 1]] /\ Contents(b) = [i \in 1 .. n |-> b[i - 1]]
  BY ONLY <1>3, IsPacketOf(b, n), ContentsAre
<1>5. ASSUME NEW i \in 1 .. n
      PROVE  d[i - 1] = [Contents(b) EXCEPT ![p + 1] = v][i]
  <2>1. i - 1 \in -1 .. (n - 1) /\ (i - 1 = p <=> i = p + 1)
    BY ONLY <1>1, i \in 1 .. n, p \in 0 .. (n - 1)
  <2> QED BY ONLY <1>2, <1>4, <2>1, i \in 1 .. n
<1>6. DOMAIN [Contents(b) EXCEPT ![p + 1] = v] = 1 .. n
  BY ONLY <1>4
<1>7. [Contents(b) EXCEPT ![p + 1] = v]
          = [i \in 1 .. n |-> [Contents(b) EXCEPT ![p + 1] = v][i]]
  BY ONLY <1>4
<1>8. Contents(d) = [Contents(b) EXCEPT ![p + 1] = v]
  BY ONLY <1>4, <1>5, <1>7
<1> QED BY ONLY <1>3, <1>8 DEF d

LEMMA ReallocForm ==
    ASSUME NEW b, NEW k \in Nat
    PROVE  /\ DOMAIN osd_packet_realloc(b, k) = -1 .. (k - 1)
           /\ osd_packet_realloc(b, k) = [i \in -1 .. (k - 1) |-> osd_packet_realloc(b, k)[i]]
           /\ osd_packet_realloc(b, k)[-1] = SizeField(k)
           /\ \A i \in 0 .. (k - 1) :
                 osd_packet_realloc(b, k)[i] = IF i \in DOMAIN b THEN b[i] ELSE Undef
<1> DEFINE cell(i) == CASE i = -1 -> SizeField(k)
                        [] i \in DOMAIN b \ {-1} -> b[i]
                        [] OTHER -> Undef
           r == osd_packet_realloc(b, k)
<1>1. r = [i \in -1 .. (k - 1) |-> cell(i)]
  BY DEF osd_packet_realloc
<1>2. cell(-1) = SizeField(k) /\ -1 \in -1 .. (k - 1)
  BY k \in Nat
<1>3. ASSUME NEW i \in 0 .. (k - 1)
      PROVE  i \in -1 .. (k - 1) /\ cell(i) = IF i \in DOMAIN b THEN b[i] ELSE Undef
  <2>1. i # -1 /\ i \in -1 .. (k - 1)
    BY ONLY i \in 0 .. (k - 1), k \in Nat
  <2> QED BY <2>1
<1> HIDE DEF cell, r
<1>4. DOMAIN r = -1 .. (k - 1) /\ r[-1] = SizeField(k)
      /\ \A i \in 0 .. (k - 1) : r[i] = IF i \in DOMAIN b THEN b[i] ELSE Undef
  BY ONLY <1>1, <1>2, <1>3
<1>5. r = [i \in -1 .. (k - 1) |-> r[i]]
  BY ONLY <1>1
<1> QED BY ONLY <1>4, <1>5 DEF r

(* A function on the cells of a packet is one when its words are.          *)
LEMMA MakesPacket ==
    ASSUME NEW n, n \in 3 .. (SIZE_MOD - 1), NEW d, d = [i \in -1 .. (n - 1) |-> d[i]],
           d[-1] = n, \A i \in 0 .. (n - 1) : d[i] \in Nat
    PROVE  IsPacketOf(d, n)
<1>1. n \in Nat
  BY SizeIsSmall
<1>2. ASSUME NEW i \in -1 .. (n - 1)
      PROVE  d[i] \in Nat
  <2>1. i = -1 \/ i \in 0 .. (n - 1)
    BY ONLY <1>1, i \in -1 .. (n - 1)
  <2> QED BY ONLY <2>1, <1>1, d[-1] = n, \A j \in 0 .. (n - 1) : d[j] \in Nat
<1>3. d \in [-1 .. (n - 1) -> Nat]
  BY ONLY <1>2, d = [i \in -1 .. (n - 1) |-> d[i]]
<1> QED BY ONLY <1>3, n \in 3 .. (SIZE_MOD - 1), d[-1] = n DEF IsPacketOf

LEMMA PacketShrinks ==
    ASSUME NEW b, NEW n, IsPacketOf(b, n), n > 3, NEW p, p \in 0 .. (n - 1)
    PROVE  LET r == osd_packet_realloc(MoveWords(b, p, p + 1, n - p - 1), n - 1) IN
           /\ IsPacketOf(r, n - 1)
           /\ Contents(r) = L!RemoveAt(Contents(b), p + 1)
<1> DEFINE w == MoveWords(b, p, p + 1, n - p - 1)
           r == osd_packet_realloc(w, n - 1)
<1>1. /\ n \in 3 .. (SIZE_MOD - 1) /\ n \in Nat /\ DOMAIN b = -1 .. (n - 1)
      /\ \A i \in -1 .. (n - 1) : b[i] \in Nat
  BY PacketIs DEF IsPacketOf
<1>2. /\ DOMAIN w = -1 .. (n - 1)
      /\ \A i \in 0 .. (n - 2) : w[i] = IF i < p THEN b[i] ELSE b[i + 1]
  <2>1. w = [i \in -1 .. (n - 1) |->
                IF i \in p .. (p + (n - p - 1) - 1) THEN b[i - p + (p + 1)] ELSE b[i]]
    BY ONLY <1>1 DEF MoveWords
  <2>2. ASSUME NEW i \in 0 .. (n - 2)
        PROVE  /\ i \in -1 .. (n - 1) /\ i - p + (p + 1) = i + 1
               /\ i \in p .. (p + (n - p - 1) - 1) <=> ~(i < p)
    BY ONLY <1>1, p \in 0 .. (n - 1), i \in 0 .. (n - 2)
  <2> HIDE DEF w
  <2>3. ASSUME NEW i \in 0 .. (n - 2)
        PROVE  w[i] = IF i < p THEN b[i] ELSE b[i + 1]
    BY ONLY <2>1, <2>2, i \in 0 .. (n - 2)
  <2> QED BY ONLY <2>1, <2>3
<1> HIDE DEF w
<1>3. n - 1 \in Nat /\ n - 1 \in 3 .. (SIZE_MOD - 1) /\ n - 1 <= SIZE_MOD - 1
      /\ (n - 1) - 1 = n - 2
  BY ONLY <1>1, n > 3, SizeIsSmall
<1>4. /\ r = [i \in -1 .. (n - 2) |-> r[i]] /\ r[-1] = SizeField(n - 1)
      /\ \A i \in 0 .. (n - 2) : r[i] = w[i]
  <2>1. /\ r = [i \in -1 .. ((n - 1) - 1) |-> r[i]] /\ r[-1] = SizeField(n - 1)
        /\ \A i \in 0 .. ((n - 1) - 1) : r[i] = IF i \in DOMAIN w THEN w[i] ELSE Undef
    BY ONLY <1>3, ReallocForm
  <2> HIDE DEF r
  <2>2. \A i \in 0 .. (n - 2) : i \in DOMAIN w
    BY ONLY <1>1, <1>2
  <2> QED BY ONLY <1>3, <2>1, <2>2
<1> HIDE DEF r
<1>5. ASSUME NEW i \in 0 .. (n - 2)
      PROVE  r[i] = (IF i < p THEN b[i] ELSE b[i + 1]) /\ r[i] \in Nat
  <2>1. i \in -1 .. (n - 1) /\ i + 1 \in -1 .. (n - 1)
    BY ONLY <1>1, i \in 0 .. (n - 2)
  <2> QED BY ONLY <1>1, <1>2, <1>4, <2>1, i \in 0 .. (n - 2)
<1>6. r[-1] = n - 1
  BY ONLY <1>3, <1>4, SizeFieldIs
<1>7. IsPacketOf(r, n - 1)
  BY ONLY <1>3, <1>4, <1>5, <1>6, MakesPacket
<1>8. Contents(r) = [i \in 1 .. (n - 1) |-> r[i - 1]]
  BY ONLY <1>7, ContentsAre
<1>9. /\ Contents(b) \in Seq(Nat) /\ Len(Contents(b)) = n
      /\ \A i \in 1 .. n : Contents(b)[i] = b[i - 1]
  BY ContentsAre
<1>10. L!RemoveAt(Contents(b), p + 1) = [i \in 1 .. (n - 1) |->
            IF i < p + 1 THEN Contents(b)[i] ELSE Contents(b)[i + 1]]
  <2>1. p + 1 \in 1 .. Len(Contents(b))
    BY ONLY <1>1, <1>9, p \in 0 .. (n - 1)
  <2> QED BY ONLY <1>9, <2>1, RemoveForm
<1>11. ASSUME NEW i \in 1 .. (n - 1)
       PROVE  r[i - 1] = IF i < p + 1 THEN Contents(b)[i] ELSE Contents(b)[i + 1]
  <2>1. /\ i - 1 \in 0 .. (n - 2) /\ i \in 1 .. n /\ i + 1 \in 1 .. n
        /\ (i - 1) + 1 = i /\ (i + 1) - 1 = i /\ (i - 1 < p <=> i < p + 1)
    BY ONLY <1>1, i \in 1 .. (n - 1), p \in 0 .. (n - 1)
  <2>2. r[i - 1] = IF i - 1 < p THEN b[i - 1] ELSE b[i]
    BY ONLY <1>5, <2>1
  <2> QED BY ONLY <1>9, <2>1, <2>2
<1>12. Contents(r) = L!RemoveAt(Contents(b), p + 1)
  BY ONLY <1>8, <1>10, <1>11
<1> QED BY ONLY <1>7, <1>12 DEF r, w

(* insert: the larger block with the words behind the place moved on.      *)
Moved(b, p) ==
    LET n == DataSizeWords(b)
        larger == osd_packet_realloc(b, n + 1)
    IN  IF p < n THEN MoveWords(larger, p + 1, p, n - p) ELSE larger

LEMMA MovedForm ==
    ASSUME NEW b, NEW n, IsPacketOf(b, n), NEW p \in Nat
    PROVE  /\ Moved(b, p) = [i \in -1 .. n |-> Moved(b, p)[i]]
           /\ Moved(b, p)[-1] = SizeField(n + 1)
           /\ \A i \in 0 .. n : Moved(b, p)[i] = IF i <= p THEN IF i < n THEN b[i] ELSE Undef
                                                 ELSE b[i - 1]
<1> DEFINE g == osd_packet_realloc(b, n + 1)
           w == Moved(b, p)
<1>1. /\ n \in Nat /\ DOMAIN b = -1 .. (n - 1) /\ DataSizeWords(b) = n
  BY PacketIs
<1>2. n + 1 \in Nat /\ (n + 1) - 1 = n
  BY ONLY <1>1
<1>3. /\ DOMAIN g = -1 .. n /\ g = [i \in -1 .. n |-> g[i]] /\ g[-1] = SizeField(n + 1)
      /\ \A i \in 0 .. n : g[i] = IF i < n THEN b[i] ELSE Undef
  <2>1. /\ DOMAIN g = -1 .. ((n + 1) - 1) /\ g = [i \in -1 .. ((n + 1) - 1) |-> g[i]]
        /\ g[-1] = SizeField(n + 1)
        /\ \A i \in 0 .. ((n + 1) - 1) : g[i] = IF i \in DOMAIN b THEN b[i] ELSE Undef
    BY ONLY <1>2, ReallocForm
  <2> HIDE DEF g
  <2>2. \A i \in 0 .. n : i \in DOMAIN b <=> i < n
    BY ONLY <1>1
  <2> QED BY ONLY <1>2, <2>1, <2>2
<1> HIDE DEF g
<1>4. CASE p < n
  <2>1. w = [i \in -1 .. n |->
                IF i \in (p + 1) .. ((p + 1) + (n - p) - 1) THEN g[i - (p + 1) + p] ELSE g[i]]
    BY ONLY <1>1, <1>3, <1>4 DEF Moved, MoveWords, g
  <2>2. ~(-1 \in (p + 1) .. ((p + 1) + (n - p) - 1)) /\ -1 \in -1 .. n
    BY ONLY <1>1, p \in Nat
  <2> HIDE DEF w
  <2>3. ASSUME NEW i \in 0 .. n
        PROVE  w[i] = IF i <= p THEN IF i < n THEN b[i] ELSE Undef ELSE b[i - 1]
    <3>1. /\ i \in -1 .. n /\ i - (p + 1) + p = i - 1
          /\ i \in (p + 1) .. ((p + 1) + (n - p) - 1) <=> ~(i <= p)
          /\ (~(i <= p) => i - 1 \in 0 .. n /\ i - 1 < n)
      BY ONLY <1>1, p \in Nat, i \in 0 .. n
    <3> QED BY ONLY <1>3, <2>1, <3>1, i \in 0 .. n
  <2>4. w[-1] = SizeField(n + 1) /\ w = [i \in -1 .. n |-> w[i]]
    BY ONLY <1>3, <2>1, <2>2
  <2> QED BY ONLY <2>3, <2>4 DEF w
<1>5. CASE ~(p < n)
  <2>1. w = g
    BY ONLY <1>1, <1>5 DEF Moved, g
  <2>2. ASSUME NEW i \in 0 .. n
        PROVE  i <= p
    BY ONLY <1>1, <1>5, p \in Nat, i \in 0 .. n
  <2> QED BY ONLY <1>3, <2>1, <2>2
<1> QED BY ONLY <1>4, <1>5

LEMMA MovedIsBlock ==
    ASSUME NEW b, NEW n, IsPacketOf(b, n), NEW p \in Nat
    PROVE  /\ IsBlock(Moved(b, p))
           /\ \A v \in Nat : p <= n => IsBlock([Moved(b, p) EXCEPT ![p] = v])
<1> DEFINE w == Moved(b, p)
<1>1. /\ n \in Nat /\ n >= 3 /\ \A i \in -1 .. (n - 1) : b[i] \in Nat
  BY PacketIs, SizeIsSmall DEF IsPacketOf
<1>2. /\ w = [i \in -1 .. n |-> w[i]] /\ w[-1] = SizeField(n + 1)
      /\ \A i \in 0 .. n : w[i] = IF i <= p THEN IF i < n THEN b[i] ELSE Undef ELSE b[i - 1]
  BY MovedForm
<1> HIDE DEF w
<1>3. SizeField(n + 1) \in 0 .. (SIZE_MOD - 1) /\ SizeField(n + 1) \in Nat
  <2>1. SizeField(n + 1) \in 0 .. (SIZE_MOD - 1)
    BY ONLY <1>1, SizeFieldIs
  <2> QED BY ONLY <2>1, SizeIsSmall
<1>4. ASSUME NEW i \in -1 .. n
      PROVE  w[i] \in Cell
  <2>1. CASE i = -1
    BY ONLY <1>2, <1>3, <2>1 DEF Cell
  <2>2. CASE i # -1
    <3>1. /\ i \in 0 .. n /\ (i < n => i \in -1 .. (n - 1)) /\ i - 1 \in -1 .. (n - 1)
      BY ONLY <1>1, <2>2, i \in -1 .. n
    <3> QED BY ONLY <1>1, <1>2, <3>1 DEF Cell
  <2> QED BY ONLY <2>1, <2>2
<1>5. w \in [-1 .. n -> Cell]
  BY ONLY <1>2, <1>4
<1>6. n + 1 \in Nat /\ n + 1 >= 3 /\ (n + 1) - 1 = n
  BY ONLY <1>1
<1>7. IsBlock(w)
  BY ONLY <1>2, <1>3, <1>5, <1>6, BlockIs
<1>8. ASSUME NEW v \in Nat, p <= n
      PROVE  IsBlock([w EXCEPT ![p] = v])
  <2> DEFINE d == [w EXCEPT ![p] = v]
  <2>1. d \in [-1 .. n -> Cell] /\ d[-1] = w[-1]
    <3>1. v \in Cell /\ -1 # p /\ -1 \in -1 .. n
      BY ONLY <1>1, p \in Nat, v \in Nat DEF Cell
    <3> QED BY ONLY <1>5, <3>1
  <2> HIDE DEF d
  <2>2. IsBlock(d)
    BY ONLY <1>2, <1>3, <1>6, <2>1, BlockIs
  <2> QED BY ONLY <2>2 DEF d
<1> QED BY ONLY <1>7, <1>8 DEF w

LEMMA PacketGrows ==
    ASSUME NEW b, NEW n, IsPacketOf(b, n), n < SIZE_MOD - 1, NEW p, p \in 0 .. n, NEW v \in Nat
    PROVE  /\ IsPacketOf([Moved(b, p) EXCEPT ![p] = v], n + 1)
           /\ Contents([Moved(b, p) EXCEPT ![p] = v]) = L!InsertAt(Contents(b), p + 1, v)
<1> DEFINE w == Moved(b, p)
           d == [w EXCEPT ![p] = v]
<1>1. /\ n \in 3 .. (SIZE_MOD - 1) /\ n \in Nat /\ \A i \in -1 .. (n - 1) : b[i] \in Nat
  BY PacketIs DEF IsPacketOf
<1>0. p \in Nat
  BY ONLY <1>1, p \in 0 .. n
<1>2. /\ w = [i \in -1 .. n |-> w[i]] /\ w[-1] = SizeField(n + 1)
      /\ \A i \in 0 .. n : w[i] = IF i <= p THEN IF i < n THEN b[i] ELSE Undef ELSE b[i - 1]
  BY <1>0, MovedForm
<1> HIDE DEF w
<1>3. n + 1 \in Nat /\ n + 1 \in 3 .. (SIZE_MOD - 1) /\ n + 1 <= SIZE_MOD - 1 /\ (n + 1) - 1 = n
  BY ONLY <1>1, n < SIZE_MOD - 1, SizeIsSmall
<1>4. /\ d = [i \in -1 .. n |-> d[i]] /\ d[-1] = n + 1
      /\ \A i \in 0 .. n : d[i] = IF i = p THEN v ELSE w[i]
  <2>1. SizeField(n + 1) = n + 1
    BY ONLY <1>3, SizeFieldIs
  <2>2. -1 # p /\ -1 \in -1 .. n /\ \A i \in 0 .. n : i \in -1 .. n
    BY ONLY <1>1, p \in 0 .. n
  <2> QED BY ONLY <1>2, <2>1, <2>2
<1> HIDE DEF d
<1>5. ASSUME NEW i \in 0 .. n
      PROVE  /\ d[i] = IF i < p THEN b[i] ELSE IF i = p THEN v ELSE b[i - 1]
             /\ d[i] \in Nat
  <2>1. /\ (i < p => i < n /\ i <= p /\ i # p /\ i \in -1 .. (n - 1))
        /\ (~(i < p) /\ i # p => ~(i <= p) /\ i - 1 \in -1 .. (n - 1))
    BY ONLY <1>1, i \in 0 .. n, p \in 0 .. n
  <2> QED BY ONLY <1>1, <1>2, <1>4, <2>1, i \in 0 .. n, v \in Nat
<1>6. IsPacketOf(d, n + 1)
  BY ONLY <1>3, <1>4, <1>5, MakesPacket
<1>7. Contents(d) = [i \in 1 .. (n + 1) |-> d[i - 1]]
  BY ONLY <1>6, ContentsAre
<1>8. /\ Contents(b) \in Seq(Nat) /\ Len(Contents(b)) = n
      /\ \A i \in 1 .. n : Contents(b)[i] = b[i - 1]
  BY ContentsAre
<1>9. L!InsertAt(Contents(b), p + 1, v) = [i \in 1 .. (n + 1) |->
          IF i < p + 1 THEN Contents(b)[i] ELSE IF i = p + 1 THEN v ELSE Contents(b)[i - 1]]
  <2>1. p + 1 \in 1 .. (Len(Contents(b)) + 1)
    BY ONLY <1>1, <1>8, p \in 0 .. n
  <2> DEFINE s == Contents(b)
             k == p + 1
  <2>2. s \in Seq(Nat) /\ k \in 1 .. (Len(s) + 1) /\ Len(s) = n
    BY ONLY <1>8, <2>1
  <2> HIDE DEF s, k
  <2>3. L!InsertAt(s, k, v) = [i \in 1 .. (Len(s) + 1) |->
            IF i < k THEN s[i] ELSE IF i = k THEN v ELSE s[i - 1]]
    BY ONLY <2>2, v \in Nat, InsertForm, SMTT(40)
  <2>4. L!InsertAt(s, k, v) = [i \in 1 .. (n + 1) |->
            IF i < k THEN s[i] ELSE IF i = k THEN v ELSE s[i - 1]]
    BY ONLY <2>2, <2>3
  <2> QED BY ONLY <2>4 DEF s, k
<1>10. ASSUME NEW i \in 1 .. (n + 1)
       PROVE  d[i - 1] = IF i < p + 1 THEN Contents(b)[i]
                         ELSE IF i = p + 1 THEN v ELSE Contents(b)[i - 1]
  <2>1. /\ i - 1 \in 0 .. n /\ (i - 1 < p <=> i < p + 1) /\ (i - 1 = p <=> i = p + 1)
        /\ (i < p + 1 => i \in 1 .. n)
        /\ (~(i < p + 1) /\ i # p + 1 => i - 1 \in 1 .. n)
    BY ONLY <1>1, i \in 1 .. (n + 1), p \in 0 .. n
  <2> QED BY ONLY <1>5, <1>8, <2>1
<1>11. Contents(d) = L!InsertAt(Contents(b), p + 1, v)
  BY ONLY <1>7, <1>9, <1>10
<1> QED BY ONLY <1>6, <1>11 DEF d, w
(* The flags word of the header: storing a subtype changes no other field. *)
NewFlags(w, s) == w - ((w \div 1024) % 16) * 1024 + s * 1024
SubTypeOf(w) == Field(w, TYPE_SUB_BIT, 16)
TypeOf(w) == Field(w, TYPE_BIT, 4)

LEMMA SubTypeBits ==
    ASSUME NEW w, w \in Nat, NEW s, s \in 0 .. 15
    PROVE  /\ NewFlags(w, s) \in Nat /\ SubTypeOf(NewFlags(w, s)) = s
           /\ TypeOf(NewFlags(w, s)) = TypeOf(w)
  BY DEF NewFlags, SubTypeOf, TypeOf, Field, TYPE_SUB_BIT, TYPE_BIT

LEMMA SubTypeIsStored ==
    ASSUME NEW b, NEW n, IsPacketOf(b, n), NEW s, s \in 0 .. 15
    PROVE  /\ osd_packet_set_type_sub(b, s) = [b EXCEPT ![2] = NewFlags(b[2], s)]
           /\ n \in Nat /\ 2 \in -1 .. (n - 1) /\ DOMAIN b = -1 .. (n - 1)
           /\ IsPacketOf(osd_packet_set_type_sub(b, s), n)
           /\ osd_packet_set_type_sub(b, s)[2] = NewFlags(b[2], s) /\ b[2] \in Nat
           /\ \A i \in -1 .. (n - 1) : i # 2 => osd_packet_set_type_sub(b, s)[i] = b[i]
<1> DEFINE d == osd_packet_set_type_sub(b, s)
           x == NewFlags(b[2], s)
<1>1. /\ n \in 3 .. (SIZE_MOD - 1) /\ n \in Nat /\ DOMAIN b = -1 .. (n - 1)
      /\ b \in [-1 .. (n - 1) -> Nat] /\ 2 \in 0 .. (n - 1) /\ 2 \in -1 .. (n - 1) /\ b[2] \in Nat
  <2>1. n \in 3 .. (SIZE_MOD - 1) /\ n \in Nat /\ b \in [-1 .. (n - 1) -> Nat]
    BY PacketIs DEF IsPacketOf
  <2>2. 2 \in 0 .. (n - 1) /\ 2 \in -1 .. (n - 1)
    BY ONLY <2>1, SizeIsSmall
  <2> QED BY ONLY <2>1, <2>2
<1>2. d = [b EXCEPT ![2] = x]
  BY <1>1 DEF osd_packet_set_type_sub, osd_packet_get_type_sub, Field, TYPE_SUB_BIT,
         NewFlags
<1>3. x \in Nat
  <2> DEFINE w == b[2]
  <2>1. w \in Nat /\ s \in 0 .. 15
    BY ONLY <1>1, s \in 0 .. 15
  <2> HIDE DEF w
  <2>2. NewFlags(w, s) \in Nat
    BY ONLY <2>1, SubTypeBits
  <2> QED BY ONLY <2>2 DEF w
<1> HIDE DEF d, x
<1>4. IsPacketOf(d, n)
  <2>1. 2 \in 0 .. (n - 1) /\ x \in Nat /\ IsPacketOf(b, n)
    BY ONLY <1>1, <1>3, IsPacketOf(b, n)
  <2> QED BY ONLY <1>2, <2>1, PacketStores
<1>5. d[2] = x /\ \A i \in -1 .. (n - 1) : i # 2 => d[i] = b[i]
  BY ONLY <1>1, <1>2
<1> QED BY ONLY <1>1, <1>2, <1>4, <1>5 DEF d, x

LEMMA SubTypeIsSet ==
    ASSUME NEW b, NEW n, IsPacketOf(b, n), NEW s, s \in 0 .. 15
    PROVE  /\ osd_packet_get_type_sub(osd_packet_set_type_sub(b, s)) = s
           /\ osd_packet_get_type(osd_packet_set_type_sub(b, s)) = osd_packet_get_type(b)
           /\ [osd_packet_set_type_sub(b, s) EXCEPT ![2] = 0] = [b EXCEPT ![2] = 0]
<1> DEFINE d == osd_packet_set_type_sub(b, s)
           w == b[2]
           x == NewFlags(w, s)
<1>1. /\ d = [b EXCEPT ![2] = x] /\ d[2] = x /\ w \in Nat
      /\ n \in Nat /\ 2 \in -1 .. (n - 1) /\ DOMAIN b = -1 .. (n - 1)
  BY ONLY SubTypeIsStored, IsPacketOf(b, n), s \in 0 .. 15
<1> HIDE DEF d, w
<1>2. SubTypeOf(x) = s /\ TypeOf(x) = TypeOf(w)
  BY ONLY <1>1, s \in 0 .. 15, SubTypeBits
<1> HIDE DEF x
<1>3. osd_packet_get_type_sub(d) = s
  BY ONLY <1>1, <1>2 DEF osd_packet_get_type_sub, SubTypeOf
<1>4. osd_packet_get_type(d) = osd_packet_get_type(b)
  BY ONLY <1>1, <1>2 DEF osd_packet_get_type, TypeOf, w
<1>5. [d EXCEPT ![2] = 0] = [b EXCEPT ![2] = 0]
  BY ONLY <1>1
<1> QED BY ONLY <1>3, <1>4, <1>5 DEF d

LEMMA HeaderIsSet ==
    ASSUME NEW b, NEW n, IsPacketOf(b, n), NEW a, a \in Nat, NEW s, s \in 0 .. 15
    PROVE  LET d == osd_packet_set_header(b, a, a, 2, s) IN
           /\ IsPacketOf(d, n)
           /\ Contents(d) = <<a, a, Contents(d)[3]>>
                            \o SubSeq(Contents(b), 4, Len(Contents(b)))
<1> DEFINE e == [b EXCEPT ![0] = a]
           f == [e EXCEPT ![1] = a]
           flags == 32768
           g == [f EXCEPT ![2] = flags]
           d == osd_packet_set_header(b, a, a, 2, s)
<1>1. /\ n \in Nat /\ n >= 3 /\ b \in [-1 .. (n - 1) -> Nat]
      /\ 0 \in 0 .. (n - 1) /\ 1 \in 0 .. (n - 1) /\ 2 \in 0 .. (n - 1)
  <2>1. n \in 3 .. (SIZE_MOD - 1) /\ n \in Nat /\ b \in [-1 .. (n - 1) -> Nat]
    BY PacketIs DEF IsPacketOf
  <2> QED BY ONLY <2>1, SizeIsSmall
<1>2. d = osd_packet_set_type_sub(g, s)
  BY <1>1 DEF osd_packet_set_header, TYPE_BIT
<1>3. IsPacketOf(e, n)
  BY ONLY <1>1, IsPacketOf(b, n), a \in Nat, PacketStores
<1>4. IsPacketOf(f, n)
  <2> HIDE DEF e
  <2> QED BY ONLY <1>1, <1>3, a \in Nat, PacketStores
<1>5. IsPacketOf(g, n)
  <2> HIDE DEF f
  <2>1. 2 \in 0 .. (n - 1) /\ flags \in Nat
    BY ONLY <1>1
  <2> HIDE DEF flags
  <2> QED BY ONLY <1>4, <2>1, PacketStores
<1>6. g[0] = a /\ g[1] = a /\ \A i \in 3 .. (n - 1) : g[i] = b[i]
  BY ONLY <1>1, a \in Nat
<1> HIDE DEF g, d
<1>7. IsPacketOf(d, n) /\ \A i \in -1 .. (n - 1) : i # 2 => d[i] = g[i]
  <2>1. /\ IsPacketOf(osd_packet_set_type_sub(g, s), n)
        /\ \A i \in -1 .. (n - 1) : i # 2 => osd_packet_set_type_sub(g, s)[i] = g[i]
    BY ONLY <1>5, s \in 0 .. 15, SubTypeIsStored
  <2> QED BY ONLY <1>2, <2>1
<1>8. d[0] = a /\ d[1] = a /\ \A i \in 3 .. (n - 1) : d[i] = b[i]
  <2>1. 0 \in -1 .. (n - 1) /\ 1 \in -1 .. (n - 1)
        /\ \A i \in 3 .. (n - 1) : i \in -1 .. (n - 1) /\ i # 2
    BY ONLY <1>1
  <2> QED BY ONLY <1>6, <1>7, <2>1
<1> DEFINE s1 == Contents(b)
           s2 == Contents(d)
<1>9. /\ s1 \in Seq(Nat) /\ Len(s1) = n /\ \A i \in 1 .. n : s1[i] = b[i - 1]
      /\ s2 = [i \in 1 .. n |-> d[i - 1]] /\ s2 \in Seq(Nat) /\ Len(s2) = n
      /\ \A i \in 1 .. n : s2[i] = d[i - 1]
  BY ONLY <1>7, IsPacketOf(b, n), ContentsAre
<1> HIDE DEF s1, s2
<1>10. s2[1] = a /\ s2[2] = a /\ s2[3] \in Nat
  <2>1. 1 \in 1 .. n /\ 2 \in 1 .. n /\ 3 \in 1 .. n /\ 1 - 1 = 0 /\ 2 - 1 = 1
    BY ONLY <1>1
  <2> QED BY ONLY <1>8, <1>9, <2>1
<1> DEFINE h == <<a, a, s2[3]>>
           t == SubSeq(s1, 4, Len(s1))
<1>11. h \in Seq(Nat) /\ Len(h) = 3 /\ h[1] = a /\ h[2] = a /\ h[3] = s2[3]
  BY ONLY <1>10, a \in Nat
<1>12. t \in Seq(Nat) /\ Len(t) = n - 3 /\ \A i \in 1 .. (n - 3) : t[i] = s1[i + 3]
  BY ONLY <1>1, <1>9, TailForm
<1> HIDE DEF h, t
<1>13. h \o t = [i \in 1 .. n |-> IF i <= 3 THEN h[i] ELSE t[i - 3]]
  <2>1. h \o t = [i \in 1 .. (Len(h) + Len(t)) |-> IF i <= Len(h) THEN h[i] ELSE t[i - Len(h)]]
    BY ONLY <1>11, <1>12, JoinForm
  <2>2. Len(h) + Len(t) = n
    BY ONLY <1>1, <1>11, <1>12
  <2> QED BY ONLY <1>11, <2>1, <2>2
<1>14. ASSUME NEW i \in 1 .. n
       PROVE  s2[i] = IF i <= 3 THEN h[i] ELSE t[i - 3]
  <2>1. CASE i <= 3
    <3>1. i = 1 \/ i = 2 \/ i = 3
      BY ONLY <1>1, <2>1, i \in 1 .. n
    <3> QED BY ONLY <1>10, <1>11, <2>1, <3>1
  <2>2. CASE ~(i <= 3)
    <3>1. i - 3 \in 1 .. (n - 3) /\ (i - 3) + 3 = i /\ i - 1 \in 3 .. (n - 1)
      BY ONLY <1>1, <2>2, i \in 1 .. n
    <3>2. s2[i] = d[i - 1] /\ s1[i] = b[i - 1] /\ d[i - 1] = b[i - 1]
      BY ONLY <1>8, <1>9, <3>1, i \in 1 .. n
    <3>3. t[i - 3] = s1[(i - 3) + 3]
      BY ONLY <1>12, <3>1
    <3> QED BY ONLY <2>2, <3>1, <3>2, <3>3
  <2> QED BY ONLY <2>1, <2>2
<1>15. s2 = h \o t
  <2>1. s2 = [i \in 1 .. n |-> s2[i]]
    BY ONLY <1>9
  <2> QED BY ONLY <1>13, <1>14, <2>1
<1> QED BY ONLY <1>7, <1>15 DEF d, h, t, s1, s2

(* Two packets fit into one block when the 16 bit size does not wrap.      *)
LEMMA CombineFits ==
    ASSUME NEW b, NEW n, IsPacketOf(b, n), NEW c, NEW m, IsPacketOf(c, m)
    PROVE  /\ CombineInBlock(b, c) <=> n + (m - 3) <= SIZE_MOD - 1
           /\ osd_packet_sizeconv_data2payload(DataSizeWords(c)) = m - 3
           /\ n + (m - 3) <= SIZE_MOD - 1 => CombinedSize(b, c) = n + (m - 3)
<1> DEFINE k == m - 3
           z == CombinedSize(b, c)
           r == osd_packet_realloc(b, z)
<1>1. /\ n \in 3 .. (SIZE_MOD - 1) /\ m \in 3 .. (SIZE_MOD - 1) /\ n \in Nat /\ m \in Nat
      /\ DataSizeWords(b) = n /\ DataSizeWords(c) = m
  BY PacketIs DEF IsPacketOf
<1>2. k \in Nat /\ n + k \in Nat
  BY ONLY <1>1, SizeIsSmall
<1>3. osd_packet_sizeconv_data2payload(m) = k /\ z = SizeField(n + k)
  BY <1>1 DEF osd_packet_sizeconv_data2payload, PACKET_HEADER_WORD_CNT, CombinedSize
<1>4. CombineInBlock(b, c) <=> InBlock(r, n, k)
  BY <1>1, <1>3 DEF CombineInBlock
<1> HIDE DEF k, z, r
<1>5. z \in 0 .. (SIZE_MOD - 1) /\ z \in Nat /\ (n + k <= SIZE_MOD - 1 => z = n + k)
  <2>1. z \in 0 .. (SIZE_MOD - 1) /\ (n + k <= SIZE_MOD - 1 => z = n + k)
    BY ONLY <1>2, <1>3, SizeFieldIs
  <2> QED BY ONLY <2>1, SizeIsSmall
<1>6. DOMAIN r = -1 .. (z - 1)
  BY ONLY <1>5, ReallocForm DEF r
<1>7. InBlock(r, n, k) <=> (k > 0 => n <= z - 1 /\ n + k - 1 <= z - 1)
  <2>1. (n \in -1 .. (z - 1) <=> n <= z - 1)
        /\ (n + k - 1 \in -1 .. (z - 1) <=> n + k - 1 <= z - 1)
    BY ONLY <1>1, <1>2, <1>5
  <2> QED BY ONLY <1>6, <2>1 DEF InBlock
<1>8. InBlock(r, n, k) <=> n + k <= SIZE_MOD - 1
  BY ONLY <1>1, <1>2, <1>5, <1>7, SizeIsSmall
<1> QED BY ONLY <1>1, <1>3, <1>4, <1>5, <1>8 DEF k, z

LEMMA PacketsCombine ==
    ASSUME NEW b, NEW n, IsPacketOf(b, n), NEW c, NEW m, IsPacketOf(c, m),
           n + (m - 3) <= SIZE_MOD - 1
    PROVE  LET d == osd_packet_combine(b, c) IN
           /\ IsPacketOf(d, n + (m - 3))
           /\ Contents(d) = Contents(b) \o SubSeq(Contents(c), 4, Len(Contents(c)))
<1> DEFINE z == n + (m - 3)
           r == osd_packet_realloc(b, z)
           d == osd_packet_combine(b, c)
<1>1. /\ n \in 3 .. (SIZE_MOD - 1) /\ m \in 3 .. (SIZE_MOD - 1) /\ n \in Nat /\ m \in Nat
      /\ DataSizeWords(b) = n /\ DataSizeWords(c) = m
      /\ DOMAIN b = -1 .. (n - 1) /\ \A i \in -1 .. (n - 1) : b[i] \in Nat
      /\ \A i \in -1 .. (m - 1) : c[i] \in Nat
  BY PacketIs DEF IsPacketOf
<1>2. z \in Nat /\ z \in 3 .. (SIZE_MOD - 1) /\ z <= SIZE_MOD - 1 /\ n <= z /\ n >= 3 /\ m >= 3
  BY ONLY <1>1, n + (m - 3) <= SIZE_MOD - 1, SizeIsSmall
<1>3. CombinedSize(b, c) = z
  BY CombineFits
<1>4. /\ DOMAIN r = -1 .. (z - 1) /\ r[-1] = z
      /\ \A i \in 0 .. (z - 1) : r[i] = IF i \in DOMAIN b THEN b[i] ELSE Undef
  <2> HIDE DEF z
  <2>1. SizeField(z) = z
    BY ONLY <1>2, SizeFieldIs
  <2> QED BY ONLY <1>2, <2>1, ReallocForm
<1>5. d = [i \in DOMAIN r |-> IF i >= n THEN c[i - n + 3] ELSE r[i]]
  BY <1>1, <1>3 DEF osd_packet_combine, PACKET_HEADER_WORD_CNT
<1> HIDE DEF r, d
<1>6. d = [i \in -1 .. (z - 1) |-> IF i >= n THEN c[i - n + 3] ELSE r[i]]
  BY ONLY <1>4, <1>5
<1> HIDE DEF z
<1>7. ASSUME NEW i \in 0 .. (z - 1)
      PROVE  d[i] = (IF i < n THEN b[i] ELSE c[i - n + 3]) /\ d[i] \in Nat
  <2>1. /\ i \in -1 .. (z - 1) /\ (i < n => i \in -1 .. (n - 1))
        /\ (i >= n <=> ~(i < n)) /\ (~(i < n) => i - n + 3 \in -1 .. (m - 1))
    BY ONLY <1>1, <1>2, i \in 0 .. (z - 1) DEF z
  <2> QED BY ONLY <1>1, <1>4, <1>6, <2>1, i \in 0 .. (z - 1)
<1>8. d[-1] = z /\ d = [i \in -1 .. (z - 1) |-> d[i]]
  <2>1. -1 \in -1 .. (z - 1) /\ ~(-1 >= n)
    BY ONLY <1>1, <1>2
  <2> QED BY ONLY <1>4, <1>6, <2>1
<1>9. IsPacketOf(d, z)
  BY ONLY <1>2, <1>7, <1>8, MakesPacket
<1> DEFINE s == Contents(b)
           t == Contents(c)
           u == SubSeq(t, 4, Len(t))
<1>10. /\ s \in Seq(Nat) /\ Len(s) = n /\ \A i \in 1 .. n : s[i] = b[i - 1]
       /\ t \in Seq(Nat) /\ Len(t) = m /\ \A i \in 1 .. m : t[i] = c[i - 1]
       /\ Contents(d) = [i \in 1 .. z |-> d[i - 1]]
  BY ONLY <1>9, IsPacketOf(b, n), IsPacketOf(c, m), ContentsAre
<1> HIDE DEF s, t
<1>11. u \in Seq(Nat) /\ Len(u) = m - 3 /\ \A i \in 1 .. (m - 3) : u[i] = t[i + 3]
  BY ONLY <1>2, <1>10, TailForm
<1> HIDE DEF u
<1>12. s \o u = [i \in 1 .. z |-> IF i <= n THEN s[i] ELSE u[i - n]]
  <2>1. s \o u = [i \in 1 .. (Len(s) + Len(u)) |-> IF i <= Len(s) THEN s[i] ELSE u[i - Len(s)]]
    <3>1. s \in Seq(Nat) /\ u \in Seq(Nat)
      BY ONLY <1>10, <1>11
    <3> QED BY ONLY <3>1, JoinForm
  <2>2. Len(s) + Len(u) = z
    BY ONLY <1>10, <1>11 DEF z
  <2> QED BY ONLY <1>10, <2>1, <2>2
<1>13. ASSUME NEW i \in 1 .. z
       PROVE  d[i - 1] = IF i <= n THEN s[i] ELSE u[i - n]
  <2>1. /\ i - 1 \in 0 .. (z - 1) /\ (i - 1 < n <=> i <= n) /\ (i <= n => i \in 1 .. n)
        /\ (~(i <= n) => /\ i - n \in 1 .. (m - 3) /\ (i - n) + 3 \in 1 .. m
                         /\ ((i - n) + 3) - 1 = (i - 1) - n + 3)
    BY ONLY <1>1, <1>2, i \in 1 .. z DEF z
  <2>2. CASE i <= n
    BY ONLY <1>7, <1>10, <2>1, <2>2
  <2>3. CASE ~(i <= n)
    <3>1. d[i - 1] = c[(i - 1) - n + 3]
      BY ONLY <1>7, <2>1, <2>3
    <3>2. u[i - n] = t[(i - n) + 3] /\ t[(i - n) + 3] = c[((i - n) + 3) - 1]
      BY ONLY <1>10, <1>11, <2>1, <2>3
    <3> QED BY ONLY <2>1, <2>3, <3>1, <3>2
  <2> QED BY ONLY <2>2, <2>3
<1>14. Contents(d) = s \o u
  BY ONLY <1>10, <1>12, <1>13
<1> QED BY ONLY <1>9, <1>14 DEF d, z, s, t, u
-----------------------------------------------------------------------------
(* The format: files and comparisons.                                      *)

(* A written packet, and a file that starts with one.                      *)
Words(b) == [i \in 1 .. (DataSizeWords(b) + 1) |-> b[i - 2]]

LEMMA WordsAre ==
    ASSUME NEW b, NEW n, IsPacketOf(b, n)
    PROVE  /\ Words(b) \in Seq(Nat) /\ Len(Words(b)) = n + 1 /\ n \in Nat /\ n >= 3
           /\ \A i \in 1 .. (n + 1) : Words(b)[i] = b[i - 2]
           /\ osd_packet_fwrite(b, <<>>) = Words(b)
           /\ \A file : osd_packet_fwrite(b, file) = file \o Words(b)
<1>1. n \in Nat /\ n >= 3 /\ DataSizeWords(b) = n /\ \A i \in -1 .. (n - 1) : b[i] \in Nat
  BY PacketIs, SizeIsSmall, SMTT(40) DEF IsPacketOf
<1>2. Words(b) = [i \in 1 .. (n + 1) |-> b[i - 2]]
  BY ONLY <1>1 DEF Words
<1>3. \A i \in 1 .. (n + 1) : i - 2 \in -1 .. (n - 1)
  BY ONLY <1>1
<1>4. Words(b) \in [1 .. (n + 1) -> Nat] /\ n + 1 \in Nat
  BY ONLY <1>1, <1>2, <1>3
<1>5. Words(b) \in Seq(Nat) /\ Len(Words(b)) = n + 1
  BY ONLY <1>4, FunctionIsSeq
<1>6. \A file : osd_packet_fwrite(b, file) = file \o Words(b)
  BY DEF osd_packet_fwrite, Words
<1>7. <<>> \o Words(b) = Words(b)
  BY ONLY <1>5
<1> QED BY ONLY <1>1, <1>2, <1>5, <1>6, <1>7

LEMMA ReadsBack ==
    ASSUME NEW b, NEW n, IsPacketOf(b, n), NEW rest \in Seq(Nat)
    PROVE  osd_packet_fread(Words(b) \o rest) = b
<1> DEFINE file == Words(b) \o rest
           words == SubSeq(file, 2, file[1] + 1)
<1>1. /\ Words(b) \in Seq(Nat) /\ Len(Words(b)) = n + 1 /\ n \in Nat /\ n >= 3
      /\ \A i \in 1 .. (n + 1) : Words(b)[i] = b[i - 2]
  BY WordsAre
<1>2. b = [i \in -1 .. (n - 1) |-> b[i]] /\ b[-1] = n /\ n <= SIZE_MOD - 1
  BY SizeIsSmall DEF IsPacketOf
<1>3. /\ file \in Seq(Nat) /\ Len(file) = n + 1 + Len(rest) /\ Len(rest) \in Nat
      /\ \A i \in 1 .. (n + 1) : file[i] = b[i - 2]
  <2>1. /\ file \in Seq(Nat) /\ Len(file) = Len(Words(b)) + Len(rest) /\ Len(rest) \in Nat
        /\ \A i \in 1 .. Len(Words(b)) : file[i] = Words(b)[i]
    BY ONLY <1>1, rest \in Seq(Nat), SeqsJoin
  <2> HIDE DEF file
  <2> QED BY ONLY <1>1, <2>1
<1> HIDE DEF file
<1>4. file[1] = n /\ file # <<>> /\ ~(Len(file) - 1 < n) /\ n # 0
  <2>1. 1 \in 1 .. (n + 1) /\ 1 - 2 = -1 /\ Len(file) >= 1
    BY ONLY <1>1, <1>3
  <2>2. file[1] = b[-1]
    BY ONLY <1>3, <2>1
  <2>3. file # <<>>
    BY ONLY <2>1
  <2>4. ~(Len(file) - 1 < n) /\ n # 0
    BY ONLY <1>1, <1>3, SMTT(40)
  <2> QED BY ONLY <1>2, <2>2, <2>3, <2>4
<1>5. words \in Seq(Nat) /\ Len(words) = n /\ \A i \in 1 .. n : words[i] = file[i + 1]
  <2>1. 2 \in 1 .. Len(file) /\ n + 1 \in 1 .. Len(file) /\ words = SubSeq(file, 2, n + 1)
    BY ONLY <1>1, <1>3, <1>4
  <2>2. SubSeq(file, 2, n + 1) = [i \in 1 .. n |-> file[i + 1]]
    BY ONLY <1>1, <1>3, <2>1
  <2>3. \A i \in 1 .. n : file[i + 1] \in Nat
    <3>1. \A i \in 1 .. n : i + 1 \in 1 .. Len(file)
      BY ONLY <1>1, <1>3
    <3>2. \A i \in 1 .. Len(file) : file[i] \in Nat
      BY ONLY <1>3
    <3> QED BY ONLY <3>1, <3>2
  <2>4. words \in [1 .. n -> Nat]
    BY ONLY <2>1, <2>2, <2>3
  <2>5. words \in Seq(Nat) /\ Len(words) = n
    BY ONLY <1>1, <2>4, FunctionIsSeq, ZenonT(60)
  <2> QED BY ONLY <2>1, <2>2, <2>5
<1>6. osd_packet_fread(file) = osd_packet_new_from_zframe(words)
  BY ONLY <1>4 DEF osd_packet_fread
<1> HIDE DEF words
<1>7. osd_packet_new_from_zframe(words)
          = [i \in -1 .. (n - 1) |-> IF i = -1 THEN SizeField(n) ELSE words[i + 1]]
  BY ONLY <1>5 DEF osd_packet_new_from_zframe
<1>8. SizeField(n) = n
  BY ONLY <1>1, <1>2, SizeFieldIs
<1>9. ASSUME NEW i \in -1 .. (n - 1)
      PROVE  (IF i = -1 THEN SizeField(n) ELSE words[i + 1]) = b[i]
  <2>1. i # -1 => /\ i + 1 \in 1 .. n /\ (i + 1) + 1 \in 1 .. (n + 1)
                  /\ ((i + 1) + 1) - 2 = i
    BY ONLY <1>1, i \in -1 .. (n - 1)
  <2> QED BY ONLY <1>2, <1>3, <1>5, <1>8, <2>1
<1>10. osd_packet_fread(file) = b
  BY ONLY <1>2, <1>6, <1>7, <1>9
<1> QED BY ONLY <1>10 DEF file

LEMMA CutOff ==
    ASSUME NEW b, NEW n, IsPacketOf(b, n)
    PROVE  osd_packet_fread(SubSeq(Words(b), 1, Len(Words(b)) - 1)) = NoPacket
<1> DEFINE w == Words(b)
           file == SubSeq(w, 1, Len(w) - 1)
<1>1. w \in Seq(Nat) /\ Len(w) = n + 1 /\ n \in Nat /\ n >= 3 /\ w[1] = b[1 - 2] /\ b[-1] = n
  <2>1. /\ w \in Seq(Nat) /\ Len(w) = n + 1 /\ n \in Nat /\ n >= 3 /\ b[-1] = n
        /\ \A i \in 1 .. (n + 1) : w[i] = b[i - 2]
    BY WordsAre DEF IsPacketOf
  <2>2. 1 \in 1 .. (n + 1)
    BY ONLY <2>1
  <2> QED BY ONLY <2>1, <2>2
<1> HIDE DEF w
<1>2. Len(file) = n /\ file[1] = w[1]
  BY ONLY <1>1
<1>3. file[1] = n
  BY ONLY <1>1, <1>2
<1> HIDE DEF file
<1>4. Len(file) - 1 < file[1]
  BY ONLY <1>1, <1>2, <1>3
<1> QED BY ONLY <1>4 DEF osd_packet_fread, file, w

LEMMA EqualWords ==
    ASSUME NEW b, NEW n, IsPacketOf(b, n), NEW c, NEW m, IsPacketOf(c, m),
           n = m => b[n - 1] = c[m - 1]
    PROVE  osd_packet_equal(b, c) <=> Contents(b) = Contents(c)
<1>1. /\ n \in Nat /\ m \in Nat /\ DataSizeWords(b) = n /\ DataSizeWords(c) = m
      /\ b[-1] = n /\ c[-1] = m
  BY PacketIs DEF IsPacketOf
<1>2. /\ Contents(b) = [i \in 1 .. n |-> b[i - 1]] /\ Len(Contents(b)) = n
      /\ Contents(c) = [i \in 1 .. m |-> c[i - 1]] /\ Len(Contents(c)) = m
      /\ \A i \in 1 .. n : Contents(b)[i] = b[i - 1]
      /\ \A i \in 1 .. m : Contents(c)[i] = c[i - 1]
  BY ContentsAre
<1>3. osd_packet_equal(b, c) <=> /\ 2 * n = 2 * m
                                 /\ \A i \in -1 .. (n - 2) : b[i] = c[i]
  BY ONLY <1>1 DEF osd_packet_equal, osd_packet_sizeof
<1>4. ASSUME osd_packet_equal(b, c)
      PROVE  Contents(b) = Contents(c)
  <2>1. n = m /\ \A i \in -1 .. (n - 2) : b[i] = c[i]
    BY ONLY <1>1, <1>3, <1>4
  <2>2. ASSUME NEW i \in 1 .. n
        PROVE  b[i - 1] = c[i - 1]
    <3>1. i - 1 = n - 1 \/ i - 1 \in -1 .. (n - 2)
      BY ONLY <1>1, i \in 1 .. n
    <3> QED BY ONLY <2>1, <3>1, n = m => b[n - 1] = c[m - 1]
  <2> QED BY ONLY <1>2, <2>1, <2>2
<1>5. ASSUME Contents(b) = Contents(c)
      PROVE  osd_packet_equal(b, c)
  <2>1. n = m
    BY ONLY <1>2, <1>5
  <2>2. ASSUME NEW i \in -1 .. (n - 2)
        PROVE  b[i] = c[i]
    <3>1. i = -1 \/ (i + 1 \in 1 .. n /\ (i + 1) - 1 = i)
      BY ONLY <1>1, i \in -1 .. (n - 2)
    <3> QED BY ONLY <1>1, <1>2, <1>5, <2>1, <3>1
  <2> QED BY ONLY <1>3, <2>1, <2>2
<1> QED BY ONLY <1>4, <1>5
-----------------------------------------------------------------------------
(* The calls: what each does to the lists of words the packets stand for.  *)

Blocks ==
    /\ pkt = [o \in Obj |-> pkt[o]] /\ \A o \in Obj : IsBlock(pkt[o])
    /\ damaged \in BOOLEAN
Ops == {"getitem", "setitem", "delitem", "insert", "set_header", "combine", "eq"}
PktTypes == Blocks /\ calls \in 0 .. MaxPktCalls /\ call.op \in {"new"} \cup Ops

(* As long as the program may go on, nothing was damaged.                  *)
PktInv == PktTypes /\ (MayCall => Sound)

Lists == [o \in Obj |-> AsList(o)]

(* The record of the call, field by field.                                 *)
Made(op, o, other, off, i, v, n, res) ==
    /\ call'.op = op /\ call'.obj = o /\ call'.other = other /\ call'.off = off
    /\ call'.i = i /\ call'.v = v /\ call'.n = n /\ call'.res = res

(* What is shown of each call: it is a step of the abstract sequence.      *)
Right == L!Next /\ Blocks' /\ call'.op \in Ops /\ (MayCall' => Sound')

LEMMA CalledMakes ==
    ASSUME NEW op, NEW o, NEW off, NEW i, NEW v, NEW res, Called(op, o, off, i, v, res)
    PROVE  Made(op, o, o, off, i, v, len(o), res)
  BY DEF Called, Made

LEMMA PacketOf ==
    ASSUME Blocks, Sound, NEW o, o \in Obj
    PROVE  /\ IsPacketOf(pkt[o], len(o)) /\ ~damaged /\ WellFormed(pkt[o])
           /\ Lists[o] = Contents(pkt[o])
<1>1. IsBlock(pkt[o]) /\ WellFormed(pkt[o]) /\ ~damaged
  BY DEF Blocks, Sound
<1>2. IsPacketOf(pkt[o], len(o))
  BY ONLY <1>1, WellFormedIsPacket DEF len
<1>3. Lists[o] = AsList(o)
  BY DEF Lists
<1>4. AsList(o) = Contents(pkt[o])
  BY ONLY <1>1 DEF AsList
<1> QED BY ONLY <1>1, <1>2, <1>3, <1>4

(* A call that leaves all packets as they are.                             *)
LEMMA NoneChanged ==
    ASSUME Blocks, Sound, UNCHANGED <<pkt, damaged>>
    PROVE  Lists' = Lists /\ Sound' /\ Blocks'
<1>1. ~damaged /\ ~damaged' /\ pkt' = pkt /\ \A o \in Obj : WellFormed(pkt[o]) /\ IsBlock(pkt[o])
  BY DEF Blocks, Sound
<1>2. \A o \in Obj : AsList(o)' = AsList(o)
  BY ONLY <1>1 DEF AsList
<1>3. Lists' = Lists
  BY ONLY <1>2 DEF Lists
<1>4. Blocks'
  BY DEF Blocks
<1> QED BY ONLY <1>1, <1>3, <1>4 DEF Sound

(* A call that makes a packet of one of them.                              *)
LEMMA OneChanged ==
    ASSUME Blocks, Sound, NEW o, o \in Obj, NEW b, NEW n, IsPacketOf(b, n),
           pkt' = [pkt EXCEPT ![o] = b], UNCHANGED damaged
    PROVE  /\ Sound' /\ Blocks'
           /\ Lists' = [Lists EXCEPT ![o] = Contents(b)]
           /\ \A q \in Obj \ {o} : pkt'[q] = pkt[q]
<1>1. /\ ~damaged /\ ~damaged' /\ DOMAIN pkt = Obj
      /\ \A q \in Obj : WellFormed(pkt[q]) /\ IsBlock(pkt[q])
  BY DEF Blocks, Sound
<1>2. WellFormed(b) /\ IsBlock(b)
  BY ONLY PacketIs, IsPacketOf(b, n)
<1>3. /\ pkt'[o] = b /\ \A q \in Obj \ {o} : pkt'[q] = pkt[q]
  BY ONLY <1>1, pkt' = [pkt EXCEPT ![o] = b], o \in Obj
<1>4. \A q \in Obj : WellFormed(pkt'[q]) /\ IsBlock(pkt'[q])
  BY ONLY <1>1, <1>2, <1>3
<1>5. ASSUME NEW q \in Obj
      PROVE  /\ AsList(q)' = IF q = o THEN Contents(b) ELSE AsList(q)
  <2>1. AsList(q)' = Contents(pkt'[q])
    BY ONLY <1>1, <1>4, q \in Obj DEF AsList
  <2>2. AsList(q) = Contents(pkt[q])
    BY ONLY <1>1, q \in Obj DEF AsList
  <2> QED BY ONLY <1>3, <2>1, <2>2, q \in Obj
<1>6. Lists' = [Lists EXCEPT ![o] = Contents(b)]
  BY ONLY <1>5, o \in Obj DEF Lists
<1>7. pkt' = [q \in Obj |-> pkt'[q]]
  BY ONLY <1>1, pkt' = [pkt EXCEPT ![o] = b]
<1>8. Blocks'
  <2>1. damaged' \in BOOLEAN
    BY DEF Blocks
  <2> QED BY ONLY <1>4, <1>7, <2>1 DEF Blocks
<1> QED BY ONLY <1>1, <1>3, <1>4, <1>6, <1>8 DEF Sound

(* A call that leaves one of them as something else, or as it was.         *)
LEMMA OneReplaced ==
    ASSUME Blocks, NEW o, o \in Obj, NEW b, IsBlock(b), pkt' = [pkt EXCEPT ![o] = b],
           damaged' \in BOOLEAN
    PROVE  Blocks' /\ \A q \in Obj \ {o} : pkt'[q] = pkt[q]
<1>1. /\ DOMAIN pkt = Obj /\ \A q \in Obj : IsBlock(pkt[q])
  BY DEF Blocks
<1>2. /\ pkt'[o] = b /\ \A q \in Obj \ {o} : pkt'[q] = pkt[q]
      /\ pkt' = [q \in Obj |-> pkt'[q]]
  BY ONLY <1>1, pkt' = [pkt EXCEPT ![o] = b], o \in Obj
<1>3. \A q \in Obj : IsBlock(pkt'[q])
  BY ONLY <1>1, <1>2, IsBlock(b)
<1> QED BY ONLY <1>2, <1>3, damaged' \in BOOLEAN DEF Blocks

(* A call outside of the contract: the other packets are what they were,   *)
(* and the program may not go on.                                          *)
LEMMA OneSpoilt ==
    ASSUME Sound, call'.op \in Ops, Blocks', L!CallerError(call'),
           \A q \in Obj \ {call'.obj} : pkt'[q] = pkt[q]
    PROVE  Right
<1>1. ~damaged /\ \A q \in Obj : WellFormed(pkt[q])
  BY DEF Sound
<1>2. ASSUME NEW q \in Obj \ {call'.obj}
      PROVE  AsList(q)' = AsList(q)
  BY ONLY <1>1, <1>2, \A p \in Obj \ {call'.obj} : pkt'[p] = pkt[p] DEF AsList
<1>3. ASSUME NEW q \in Obj \ {call'.obj}
      PROVE  [o \in Obj |-> AsList(o)]'[q] = [o \in Obj |-> AsList(o)][q]
  BY ONLY <1>2, <1>3
<1>4. L!Undefined(call')
  BY ONLY <1>3, L!CallerError(call') DEF L!Undefined
<1>5. ~MayCall'
  BY ONLY call'.op \in Ops, L!CallerError(call') DEF MayCall, Ops
<1>6. L!Next
  BY ONLY <1>4 DEF L!Next
<1> QED BY ONLY <1>5, <1>6, call'.op \in Ops, Blocks' DEF Right

LEMMA InContract ==
    ASSUME Blocks', Sound', call'.op \in Ops, ~L!CallerError(call'),
           \/ L!getitem(call') \/ L!setitem(call') \/ L!delitem(call')
           \/ L!insert(call') \/ L!set_header(call') \/ L!combine(call') \/ L!eq(call')
    PROVE  Right
<1>1. L!Next
  BY DEF L!Next
<1> QED BY ONLY <1>1, Blocks', Sound', call'.op \in Ops DEF Right

LEMMA LenIs ==
    ASSUME Blocks, Sound, NEW o, o \in Obj
    PROVE  /\ len(o) \in Nat /\ len(o) >= 3 /\ len(o) <= MaxSize
           /\ Lists[o] \in Seq(Nat) /\ Len(Lists[o]) = len(o)
           /\ \A i \in 1 .. len(o) : Lists[o][i] = pkt[o][i - 1]
<1> DEFINE b == pkt[o]
           n == len(o)
<1>1. IsPacketOf(b, n) /\ Lists[o] = Contents(b)
  BY PacketOf
<1> HIDE DEF b, n
<1>2. /\ n \in Nat /\ n \in 3 .. (SIZE_MOD - 1) /\ Contents(b) \in Seq(Nat)
      /\ Len(Contents(b)) = n /\ \A i \in 1 .. n : Contents(b)[i] = b[i - 1]
  BY ONLY <1>1, PacketIs, ContentsAre DEF IsPacketOf
<1>3. n >= 3 /\ n <= MaxSize
  BY ONLY <1>2, SizeIsSmall DEF MaxSize
<1> QED BY ONLY <1>1, <1>2, <1>3 DEF b, n

LEMMA GetItemIsRight ==
    ASSUME Blocks, Sound, NEW o, o \in Obj, NEW off, off \in {0, 3}, NEW i, i \in Int,
           GetItem(o, off, i)
    PROVE  Right
<1> DEFINE p == off + i
           n == len(o)
<1>1. /\ n \in Nat /\ \A k \in 1 .. n : Lists[o][k] = pkt[o][k - 1]
  BY LenIs
<1>2. p \in Int /\ off \in Int
  OBVIOUS
<1>3. CASE p >= n /\ Raise("getitem", o, off, i, 0)
  <2>1. Made("getitem", o, o, off, i, 0, n, Raised) /\ UNCHANGED <<pkt, damaged>>
    BY ONLY <1>3, CalledMakes DEF Raise
  <2>2. Lists' = Lists /\ Sound' /\ Blocks' /\ \A q \in Obj \ {call'.obj} : pkt'[q] = pkt[q]
    BY ONLY <2>1, Blocks, Sound, NoneChanged
  <2>3. call'.op \in Ops
    BY ONLY <2>1 DEF Made, Ops
  <2>4. CASE L!CallerError(call')
    BY ONLY <2>2, <2>3, <2>4, Sound, OneSpoilt
  <2>5. CASE ~L!CallerError(call')
    <3>1. L!getitem(call')
      BY ONLY <1>1, <1>2, <1>3, <2>1, <2>2
         DEF L!getitem, L!InRange, L!Raises, L!Raised, Raised, Made, Lists
    <3> QED BY ONLY <2>2, <2>3, <2>5, <3>1, InContract
  <2> QED BY ONLY <2>4, <2>5
<1>4. CASE /\ p \in 0 .. (n - 1) /\ Called("getitem", o, off, i, 0, pkt[o][p])
           /\ UNCHANGED <<pkt, damaged>>
  <2>1. Made("getitem", o, o, off, i, 0, n, pkt[o][p])
    BY ONLY <1>4, CalledMakes
  <2>2. Lists' = Lists /\ Sound' /\ Blocks' /\ \A q \in Obj \ {call'.obj} : pkt'[q] = pkt[q]
    BY ONLY <1>4, Blocks, Sound, NoneChanged
  <2>3. call'.op \in Ops
    BY ONLY <2>1 DEF Made, Ops
  <2>4. CASE L!CallerError(call')
    BY ONLY <2>2, <2>3, <2>4, Sound, OneSpoilt
  <2>5. CASE ~L!CallerError(call')
    <3>1. p + 1 \in 1 .. n /\ (p + 1) - 1 = p /\ p < n
      BY ONLY <1>1, <1>2, <1>4
    <3>2. pkt[o][p] = Lists[o][p + 1]
      BY ONLY <1>1, <3>1
    <3>3. L!getitem(call')
      BY ONLY <2>1, <2>2, <3>1, <3>2 DEF L!getitem, L!InRange, Made, Lists
    <3> QED BY ONLY <2>2, <2>3, <2>5, <3>3, InContract
  <2> QED BY ONLY <2>4, <2>5
<1>5. CASE p < 0 /\ Damage("getitem", o, off, i, 0)
  <2>1. Made("getitem", o, o, off, i, 0, n, Done) /\ damaged' = TRUE /\ pkt' = pkt
    BY ONLY <1>5, CalledMakes DEF Damage
  <2>2. call'.op \in Ops /\ Blocks'
    BY ONLY <2>1, Blocks DEF Made, Ops, Blocks
  <2>3. i < 0
    BY ONLY <1>5, off \in {0, 3}, i \in Int
  <2>4. L!CallerError(call')
    BY ONLY <2>1, <2>3 DEF L!CallerError, Made
  <2> QED BY ONLY <2>1, <2>2, <2>4, Sound, OneSpoilt
<1> QED BY ONLY <1>3, <1>4, <1>5, GetItem(o, off, i) DEF GetItem

(* A call on one packet that was outside of its contract.                  *)
LEMMA Spoils ==
    ASSUME Blocks, Sound, NEW o, o \in Obj, call'.obj = o, call'.op \in Ops,
           L!CallerError(call'), damaged' \in BOOLEAN,
           \/ pkt' = pkt
           \/ \E b : IsBlock(b) /\ pkt' = [pkt EXCEPT ![o] = b]
    PROVE  Right
<1>1. Blocks' /\ \A q \in Obj \ {o} : pkt'[q] = pkt[q]
  <2>1. CASE pkt' = pkt
    BY ONLY <2>1, Blocks, damaged' \in BOOLEAN DEF Blocks
  <2>2. CASE \E b : IsBlock(b) /\ pkt' = [pkt EXCEPT ![o] = b]
    <3>1. PICK b : IsBlock(b) /\ pkt' = [pkt EXCEPT ![o] = b]
      BY ONLY <2>2
    <3> QED BY ONLY <3>1, Blocks, o \in Obj, damaged' \in BOOLEAN, OneReplaced
  <2> QED BY <2>1, <2>2
<1> QED BY ONLY <1>1, Sound, call'.obj = o, call'.op \in Ops, L!CallerError(call'), OneSpoilt

LEMMA SetItemIsRight ==
    ASSUME Blocks, Sound, NEW o, o \in Obj, NEW off, off \in {0, 3}, NEW i, i \in Int,
           NEW v, v \in Nat \cup {NotAWord}, SetItem(o, off, i, v)
    PROVE  Right
<1> DEFINE p == off + i
           n == len(o)
           b == pkt[o]
<1>1. /\ n \in Nat /\ IsPacketOf(b, n) /\ Lists[o] = Contents(b)
  BY LenIs, PacketOf
<1>2. p \in Int /\ off \in Int
  OBVIOUS
<1>3. CASE (p >= n \/ v = NotAWord) /\ Raise("setitem", o, off, i, v)
  <2>1. Made("setitem", o, o, off, i, v, n, Raised) /\ UNCHANGED <<pkt, damaged>>
    BY ONLY <1>3, CalledMakes DEF Raise
  <2>2. Lists' = Lists /\ Sound' /\ Blocks' /\ \A q \in Obj \ {call'.obj} : pkt'[q] = pkt[q]
    BY ONLY <2>1, Blocks, Sound, NoneChanged
  <2>3. call'.op \in Ops
    BY ONLY <2>1 DEF Made, Ops
  <2>4. CASE L!CallerError(call')
    BY ONLY <2>2, <2>3, <2>4, Sound, OneSpoilt
  <2>5. CASE ~L!CallerError(call')
    <3>1. ~(p < n) \/ v < 0
      BY ONLY <1>1, <1>2, <1>3 DEF NotAWord
    <3>2. L!setitem(call')
      BY ONLY <2>1, <2>2, <3>1
         DEF L!setitem, L!InRange, L!Raises, L!Raised, Raised, Made, Lists
    <3> QED BY ONLY <2>2, <2>3, <2>5, <3>2, InContract
  <2> QED BY ONLY <2>4, <2>5
<1>4. CASE /\ p \in 0 .. (n - 1) /\ v # NotAWord
           /\ pkt' = [pkt EXCEPT ![o][p] = v]
           /\ Called("setitem", o, off, i, v, Done) /\ UNCHANGED damaged
  <2>1. Made("setitem", o, o, off, i, v, n, Done)
    BY ONLY <1>4, CalledMakes
  <2> DEFINE d == [b EXCEPT ![p] = v]
  <2>2. v \in Nat /\ v >= 0 /\ p < n
    BY ONLY <1>1, <1>2, <1>4, v \in Nat \cup {NotAWord} DEF NotAWord
  <2>3. pkt' = [pkt EXCEPT ![o] = d]
    BY <1>4
  <2>4. IsPacketOf(d, n) /\ Contents(d) = [Contents(b) EXCEPT ![p + 1] = v]
    <3> HIDE DEF b, p, n
    <3>1. p \in 0 .. (n - 1)
      BY ONLY <1>4
    <3> QED BY ONLY <1>1, <2>2, <3>1, PacketStores
  <2>5. call'.op \in Ops /\ call'.obj = o
    BY ONLY <2>1 DEF Made, Ops
  <2> HIDE DEF d, b
  <2>6. /\ Sound' /\ Blocks' /\ Lists' = [Lists EXCEPT ![o] = Contents(d)]
        /\ \A q \in Obj \ {o} : pkt'[q] = pkt[q]
    BY ONLY <1>4, <2>3, <2>4, Blocks, Sound, o \in Obj, OneChanged
  <2>7. CASE L!CallerError(call')
    BY ONLY <2>5, <2>6, <2>7, Sound, OneSpoilt
  <2>8. CASE ~L!CallerError(call')
    <3>1. Lists' = [Lists EXCEPT ![o][p + 1] = v]
      BY ONLY <1>1, <2>4, <2>6
    <3>2. L!setitem(call')
      BY ONLY <2>1, <2>2, <3>1 DEF L!setitem, L!InRange, L!Done, Done, Made, Lists
    <3> QED BY ONLY <2>5, <2>6, <2>8, <3>2, InContract
  <2> QED BY ONLY <2>7, <2>8
<1>5. CASE p < 0 /\ v # NotAWord /\ Damage("setitem", o, off, i, v)
  <2>1. Made("setitem", o, o, off, i, v, n, Done) /\ damaged' = TRUE /\ pkt' = pkt
    BY ONLY <1>5, CalledMakes DEF Damage
  <2>2. i < 0
    BY ONLY <1>5, off \in {0, 3}, i \in Int
  <2>3. L!CallerError(call') /\ call'.op \in Ops /\ call'.obj = o /\ damaged' \in BOOLEAN
    BY ONLY <2>1, <2>2 DEF L!CallerError, Made, Ops
  <2> QED BY ONLY <2>1, <2>3, Blocks, Sound, o \in Obj, Spoils
<1> QED BY ONLY <1>3, <1>4, <1>5, SetItem(o, off, i, v) DEF SetItem

LEMMA DelItemIsRight ==
    ASSUME Blocks, Sound, NEW o, o \in Obj, NEW off, off \in {0, 3}, NEW i, i \in Int,
           DelItem(o, off, i)
    PROVE  Right
<1> DEFINE p == off + i
           n == len(o)
           b == pkt[o]
           d == osd_packet_realloc(MoveWords(b, p, p + 1, n - p - 1), n - 1)
<1>1. /\ n \in Nat /\ IsPacketOf(b, n) /\ Lists[o] = Contents(b)
  BY LenIs, PacketOf
<1>2. p \in Int /\ off \in Int
  OBVIOUS
<1>3. CASE (n <= 3 \/ n - p - 1 < 0) /\ Raise("delitem", o, off, i, 0)
  <2>1. Made("delitem", o, o, off, i, 0, n, Raised) /\ UNCHANGED <<pkt, damaged>>
    BY ONLY <1>3, CalledMakes DEF Raise
  <2>2. Lists' = Lists /\ Sound' /\ Blocks' /\ \A q \in Obj \ {call'.obj} : pkt'[q] = pkt[q]
    BY ONLY <2>1, Blocks, Sound, NoneChanged
  <2>3. call'.op \in Ops
    BY ONLY <2>1 DEF Made, Ops
  <2>4. CASE L!CallerError(call')
    BY ONLY <2>2, <2>3, <2>4, Sound, OneSpoilt
  <2>5. CASE ~L!CallerError(call')
    <3>1. ~(p < n) \/ n <= 3
      BY ONLY <1>1, <1>2, <1>3
    <3>2. L!delitem(call')
      BY ONLY <2>1, <2>2, <3>1
         DEF L!delitem, L!InRange, L!Raises, L!Raised, L!Header, Raised, Made, Lists
    <3> QED BY ONLY <2>2, <2>3, <2>5, <3>2, InContract
  <2> QED BY ONLY <2>4, <2>5
<1>4. CASE /\ n > 3 /\ n - p - 1 >= 0 /\ p >= 0
           /\ pkt' = [pkt EXCEPT ![o] = d]
           /\ Called("delitem", o, off, i, 0, Done) /\ UNCHANGED damaged
  <2>1. Made("delitem", o, o, off, i, 0, n, Done)
    BY ONLY <1>4, CalledMakes
  <2>2. p \in 0 .. (n - 1) /\ p < n
    BY ONLY <1>1, <1>2, <1>4
  <2>3. IsPacketOf(d, n - 1) /\ Contents(d) = L!RemoveAt(Contents(b), p + 1)
    <3> HIDE DEF b, p, n
    <3> QED BY ONLY <1>1, <1>4, <2>2, PacketShrinks
  <2>4. call'.op \in Ops /\ call'.obj = o
    BY ONLY <2>1 DEF Made, Ops
  <2> HIDE DEF d, b
  <2>5. /\ Sound' /\ Blocks' /\ Lists' = [Lists EXCEPT ![o] = Contents(d)]
        /\ \A q \in Obj \ {o} : pkt'[q] = pkt[q]
    BY ONLY <1>4, <2>3, Blocks, Sound, o \in Obj, OneChanged
  <2>6. CASE L!CallerError(call')
    BY ONLY <2>4, <2>5, <2>6, Sound, OneSpoilt
  <2>7. CASE ~L!CallerError(call')
    <3>1. Lists' = [Lists EXCEPT ![o] = L!RemoveAt(Lists[o], p + 1)]
      BY ONLY <1>1, <2>3, <2>5
    <3>2. L!delitem(call')
      BY ONLY <1>4, <2>1, <2>2, <3>1 DEF L!delitem, L!InRange, L!Done, L!Header, Done, Made, Lists
    <3> QED BY ONLY <2>4, <2>5, <2>7, <3>2, InContract
  <2> QED BY ONLY <2>6, <2>7
<1>5. CASE p < 0 /\ Damage("delitem", o, off, i, 0)
  <2>1. Made("delitem", o, o, off, i, 0, n, Done) /\ damaged' = TRUE /\ pkt' = pkt
    BY ONLY <1>5, CalledMakes DEF Damage
  <2>2. i < 0
    BY ONLY <1>5, off \in {0, 3}, i \in Int
  <2>3. L!CallerError(call') /\ call'.op \in Ops /\ call'.obj = o /\ damaged' \in BOOLEAN
    BY ONLY <2>1, <2>2 DEF L!CallerError, Made, Ops
  <2> QED BY ONLY <2>1, <2>3, Blocks, Sound, o \in Obj, Spoils
<1> QED BY ONLY <1>3, <1>4, <1>5, DelItem(o, off, i) DEF DelItem, PACKET_HEADER_WORD_CNT

LEMMA InsertIsRight ==
    ASSUME Blocks, Sound, NEW o, o \in Obj, NEW off, off \in {0, 3}, NEW i, i \in Int,
           NEW v, v \in Nat \cup {NotAWord}, Insert(o, off, i, v)
    PROVE  Right
<1> DEFINE p == off + i
           n == len(o)
           b == pkt[o]
           larger == osd_packet_realloc(b, n + 1)
           w == Moved(b, p)
           d == [w EXCEPT ![p] = v]
<1>1. /\ n \in Nat /\ n <= MaxSize /\ IsPacketOf(b, n) /\ Lists[o] = Contents(b)
  BY LenIs, PacketOf
<1>2. p \in Int /\ off \in Int
  OBVIOUS
<1>3. p >= 0 => (InBlock(larger, p, 1) <=> p <= n)
  <2>1. n + 1 \in Nat /\ (n + 1) - 1 = n /\ p + 1 - 1 = p
    BY ONLY <1>1, <1>2
  <2>2. DOMAIN larger = -1 .. n
    <3>1. DOMAIN larger = -1 .. ((n + 1) - 1)
      BY ONLY <2>1, ReallocForm
    <3> HIDE DEF larger
    <3> QED BY ONLY <2>1, <3>1
  <2> HIDE DEF larger
  <2>3. p >= 0 => (p \in -1 .. n <=> p <= n)
    BY ONLY <1>1, <1>2
  <2> QED BY ONLY <2>1, <2>2, <2>3 DEF InBlock
<1>4. w = IF p < n THEN MoveWords(larger, p + 1, p, n - p) ELSE larger
  BY DEF Moved, len
<1> HIDE DEF larger, w
<1>5. p >= 0 => IsBlock(w) /\ (v \in Nat /\ p <= n => IsBlock(d))
  <2>1. p >= 0 => p \in Nat
    BY ONLY <1>2
  <2> HIDE DEF p, n, b
  <2> QED BY ONLY <1>1, <2>1, MovedIsBlock DEF w
<1>6. CASE p >= 0 /\ v = NotAWord /\ pkt' = [pkt EXCEPT ![o] = w]
           /\ Called("insert", o, off, i, v, Raised) /\ UNCHANGED damaged
  <2>1. Made("insert", o, o, off, i, v, n, Raised)
    BY ONLY <1>6, CalledMakes
  <2>2. v < 0
    BY ONLY <1>6 DEF NotAWord
  <2>3. damaged' \in BOOLEAN
    BY <1>6 DEF Blocks
  <2>4. L!CallerError(call') /\ call'.op \in Ops /\ call'.obj = o
    BY ONLY <2>1, <2>2 DEF L!CallerError, Made, Ops
  <2> QED BY ONLY <1>5, <1>6, <2>3, <2>4, Blocks, Sound, o \in Obj, Spoils
<1>7. CASE /\ InBlock(larger, p, 1) /\ p >= 0 /\ v # NotAWord
           /\ pkt' = [pkt EXCEPT ![o] = d]
           /\ Called("insert", o, off, i, v, Done) /\ UNCHANGED damaged
  <2>1. Made("insert", o, o, off, i, v, n, Done)
    BY ONLY <1>7, CalledMakes
  <2>2. v \in Nat /\ p <= n /\ p \in 0 .. n
    <3>1. v \in Nat
      BY ONLY <1>7, v \in Nat \cup {NotAWord}
    <3> QED BY ONLY <1>1, <1>2, <1>3, <1>7, <3>1
  <2>3. call'.op \in Ops /\ call'.obj = o
    BY ONLY <2>1 DEF Made, Ops
  <2>4. CASE L!CallerError(call')
    <3>1. damaged' \in BOOLEAN
      BY <1>7 DEF Blocks
    <3> HIDE DEF d
    <3> QED BY ONLY <1>5, <1>7, <2>2, <2>3, <2>4, <3>1, Blocks, Sound, o \in Obj, Spoils
  <2>5. CASE ~L!CallerError(call')
    <3>1. ~(n >= MaxSize)
      BY ONLY <2>1, <2>5 DEF L!CallerError, Made
    <3>2. n < SIZE_MOD - 1
      BY ONLY <1>1, <3>1, SizeIsSmall DEF MaxSize
    <3>3. IsPacketOf(d, n + 1) /\ Contents(d) = L!InsertAt(Contents(b), p + 1, v)
      <4> HIDE DEF b, p, n
      <4> QED BY ONLY <1>1, <2>2, <3>2, PacketGrows DEF w
    <3> HIDE DEF d, b
    <3>4. Sound' /\ Blocks' /\ Lists' = [Lists EXCEPT ![o] = Contents(d)]
      BY ONLY <1>7, <3>3, Blocks, Sound, o \in Obj, OneChanged
    <3>5. Lists' = [Lists EXCEPT ![o] = L!InsertAt(Lists[o], p + 1, v)]
      BY ONLY <1>1, <3>3, <3>4
    <3>6. L!insert(call')
      BY ONLY <2>1, <3>5 DEF L!insert, L!Done, Done, Made, Lists
    <3> QED BY ONLY <2>3, <2>5, <3>4, <3>6, InContract
  <2> QED BY ONLY <2>4, <2>5
<1>8. CASE /\ p < 0 \/ (~InBlock(larger, p, 1) /\ v # NotAWord)
           /\ Damage("insert", o, off, i, v)
  <2>1. Made("insert", o, o, off, i, v, n, Done) /\ damaged' = TRUE /\ pkt' = pkt
    BY ONLY <1>8, CalledMakes DEF Damage
  <2>2. i < 0 \/ off + i > n
    <3>1. p < 0 \/ p > n
      BY ONLY <1>1, <1>2, <1>3, <1>8
    <3> QED BY ONLY <3>1, off \in {0, 3}, i \in Int
  <2>3. L!CallerError(call') /\ call'.op \in Ops /\ call'.obj = o /\ damaged' \in BOOLEAN
    BY ONLY <2>1, <2>2 DEF L!CallerError, Made, Ops
  <2> QED BY ONLY <2>1, <2>3, Blocks, Sound, o \in Obj, Spoils
<1> QED
  <2>1. \/ /\ p >= 0 /\ v = NotAWord
           /\ pkt' = [pkt EXCEPT ![o] = IF p < n THEN MoveWords(larger, p + 1, p, n - p)
                                        ELSE larger]
           /\ Called("insert", o, off, i, v, Raised)
           /\ UNCHANGED damaged
        \/ /\ InBlock(larger, p, 1) /\ p >= 0 /\ v # NotAWord
           /\ pkt' = [pkt EXCEPT ![o] =
                         [IF p < n THEN MoveWords(larger, p + 1, p, n - p) ELSE larger
                          EXCEPT ![p] = v]]
           /\ Called("insert", o, off, i, v, Done)
           /\ UNCHANGED damaged
        \/ /\ p < 0 \/ (~InBlock(larger, p, 1) /\ v # NotAWord)
           /\ Damage("insert", o, off, i, v)
    BY ONLY Insert(o, off, i, v) DEF Insert, larger
  <2> QED BY ONLY <1>4, <1>6, <1>7, <1>8, <2>1

LEMMA SetHeaderIsRight ==
    ASSUME Blocks, Sound, NEW o, o \in Obj, NEW a, a \in Nat, NEW s, s \in 0 .. 15,
           SetHeader(o, a, 2, s)
    PROVE  Right
<1> DEFINE n == len(o)
           b == pkt[o]
           d == osd_packet_set_header(b, a, a, 2, s)
<1>1. IsPacketOf(b, n) /\ Lists[o] = Contents(b)
  BY PacketOf
<1>2. pkt' = [pkt EXCEPT ![o] = d] /\ Called("set_header", o, 0, 0, a, Done) /\ UNCHANGED damaged
  BY ONLY SetHeader(o, a, 2, s) DEF SetHeader
<1>3. Made("set_header", o, o, 0, 0, a, n, Done)
  BY ONLY <1>2, CalledMakes
<1>4. /\ IsPacketOf(d, n)
      /\ Contents(d) = <<a, a, Contents(d)[3]>> \o SubSeq(Contents(b), 4, Len(Contents(b)))
  <2> HIDE DEF b, n
  <2> QED BY ONLY <1>1, a \in Nat, s \in 0 .. 15, HeaderIsSet
<1> HIDE DEF d, b
<1>5. Sound' /\ Blocks' /\ Lists' = [Lists EXCEPT ![o] = Contents(d)]
  BY ONLY <1>2, <1>4, Blocks, Sound, o \in Obj, OneChanged
<1>6. call'.op \in Ops /\ ~L!CallerError(call')
  BY ONLY <1>3 DEF Made, Ops, L!CallerError
<1>7. Lists'[o] = Contents(d)
  BY ONLY <1>5, o \in Obj DEF Lists
<1>8. Lists' = [Lists EXCEPT ![o] = <<a, a, Lists'[o][3]>> \o SubSeq(Lists[o], 4, Len(Lists[o]))]
  BY ONLY <1>1, <1>4, <1>5, <1>7
<1>9. L!set_header(call')
  <2>1. Lists' = [Lists EXCEPT ![o] = <<a, a, Lists'[o][3]>>
                                      \o SubSeq(Lists[o], 3 + 1, Len(Lists[o]))]
    BY ONLY <1>8
  <2> QED BY ONLY <1>3, <2>1 DEF L!set_header, L!Done, L!Header, Done, Made, Lists
<1> QED BY ONLY <1>5, <1>6, <1>9, InContract

LEMMA CombineIsRight ==
    ASSUME Blocks, Sound, NEW o, o \in Obj, NEW other, other \in Obj, Combine(o, other)
    PROVE  Right
<1> DEFINE n == len(o)
           m == len(other)
           b == pkt[o]
           c == pkt[other]
           d == osd_packet_combine(b, c)
<1>1. /\ IsPacketOf(b, n) /\ Lists[o] = Contents(b)
      /\ IsPacketOf(c, m) /\ Lists[other] = Contents(c) /\ n \in Nat /\ m \in Nat
  BY PacketOf, LenIs
<1>2. CombineInBlock(b, c) <=> n + (m - 3) <= MaxSize
  <2> HIDE DEF b, n, c, m
  <2>1. CombineInBlock(b, c) <=> n + (m - 3) <= SIZE_MOD - 1
    BY ONLY <1>1, CombineFits
  <2> QED BY ONLY <2>1 DEF MaxSize
<1>3. Made("combine", o, other, 0, 0, m - 3, n, Done)
  BY ONLY Combine(o, other)
     DEF Combine, Made, osd_packet_sizeconv_data2payload, PACKET_HEADER_WORD_CNT
<1>4. \/ CombineInBlock(b, c) /\ pkt' = [pkt EXCEPT ![o] = d] /\ UNCHANGED damaged
      \/ ~CombineInBlock(b, c) /\ damaged' = TRUE /\ pkt' = pkt
  BY ONLY Combine(o, other) DEF Combine
<1>5. call'.op \in Ops /\ call'.obj = o
  BY ONLY <1>3 DEF Made, Ops
<1>6. CASE CombineInBlock(b, c)
  <2>1. n + (m - 3) <= MaxSize /\ n + (m - 3) <= SIZE_MOD - 1
    BY ONLY <1>2, <1>6 DEF MaxSize
  <2>2. /\ IsPacketOf(d, n + (m - 3))
        /\ Contents(d) = Contents(b) \o SubSeq(Contents(c), 4, Len(Contents(c)))
    <3> HIDE DEF b, n, c, m
    <3> QED BY ONLY <1>1, <2>1, PacketsCombine
  <2>3. pkt' = [pkt EXCEPT ![o] = d] /\ UNCHANGED damaged
    BY ONLY <1>4, <1>6
  <2> HIDE DEF d, b, c
  <2>4. Sound' /\ Blocks' /\ Lists' = [Lists EXCEPT ![o] = Contents(d)]
    BY ONLY <2>2, <2>3, Blocks, Sound, o \in Obj, OneChanged
  <2>5. ~L!CallerError(call')
    <3>1. ~(n + (m - 3) > MaxSize)
      <4>1. MaxSize \in Int
        BY ONLY SizeIsSmall DEF MaxSize
      <4> QED BY ONLY <1>1, <2>1, <4>1
    <3> QED BY ONLY <1>3, <3>1 DEF Made, L!CallerError
  <2>6. Lists' = [Lists EXCEPT ![o] = Lists[o] \o SubSeq(Lists[other], 3 + 1, Len(Lists[other]))]
    BY ONLY <1>1, <2>2, <2>4
  <2>7. L!combine(call')
    BY ONLY <1>3, <2>6 DEF L!combine, L!Done, L!Header, Done, Made, Lists
  <2> QED BY ONLY <1>5, <2>4, <2>5, <2>7, InContract
<1>7. CASE ~CombineInBlock(b, c)
  <2>1. damaged' \in BOOLEAN /\ pkt' = pkt
    BY ONLY <1>4, <1>7
  <2>2. n + (m - 3) > MaxSize
    <3>1. MaxSize \in Int
      BY ONLY SizeIsSmall DEF MaxSize
    <3> QED BY ONLY <1>1, <1>2, <1>7, <3>1
  <2>3. L!CallerError(call')
    BY ONLY <1>3, <2>2 DEF Made, L!CallerError
  <2> QED BY ONLY <1>5, <2>1, <2>3, Blocks, Sound, o \in Obj, Spoils
<1> QED BY ONLY <1>6, <1>7

LEMMA EqIsRight ==
    ASSUME Blocks, Sound, NEW o, o \in Obj, NEW other, other \in Obj, Eq(o, other)
    PROVE  Right
<1> DEFINE n == len(o)
           m == len(other)
           same == n = m /\ \A i \in 0 .. (n - 1) : pkt[o][i] = pkt[other][i]
           s == Lists[o]
           t == Lists[other]
<1>1. /\ n \in Nat /\ s \in Seq(Nat) /\ Len(s) = n /\ \A i \in 1 .. n : s[i] = pkt[o][i - 1]
      /\ m \in Nat /\ t \in Seq(Nat) /\ Len(t) = m /\ \A i \in 1 .. m : t[i] = pkt[other][i - 1]
  BY LenIs
<1>2. /\ Made("eq", o, other, 0, 0, 0, n, IF same THEN True ELSE False)
      /\ UNCHANGED <<pkt, damaged>>
  BY ONLY Eq(o, other) DEF Eq, Made
<1>3. Lists' = Lists /\ Sound' /\ Blocks'
  BY ONLY <1>2, Blocks, Sound, NoneChanged
<1>4. call'.op \in Ops /\ ~L!CallerError(call')
  BY ONLY <1>2 DEF Made, Ops, L!CallerError
<1>5. same <=> s = t
  <2>1. ASSUME same PROVE s = t
    <3>1. ASSUME NEW i \in 1 .. n PROVE s[i] = t[i]
      <4>1. i - 1 \in 0 .. (n - 1)
        BY ONLY <1>1, i \in 1 .. n
      <4> QED BY ONLY <1>1, <2>1, <4>1, i \in 1 .. n
    <3> HIDE DEF s, t, n, m
    <3>2. n = m
      BY ONLY <2>1
    <3>3. s = [i \in 1 .. n |-> s[i]] /\ t = [i \in 1 .. n |-> t[i]]
      BY ONLY <1>1, <3>2, SeqIs
    <3> QED BY ONLY <3>1, <3>3
  <2>2. ASSUME s = t PROVE same
    <3>1. n = m
      BY ONLY <1>1, <2>2
    <3>2. ASSUME NEW i \in 0 .. (n - 1) PROVE pkt[o][i] = pkt[other][i]
      <4>1. i + 1 \in 1 .. n /\ (i + 1) - 1 = i
        BY ONLY <1>1, i \in 0 .. (n - 1)
      <4> QED BY ONLY <1>1, <2>2, <3>1, <4>1
    <3> QED BY ONLY <3>1, <3>2
  <2> QED BY ONLY <2>1, <2>2
<1> HIDE DEF same
<1>6. (call'.res = 1) = (s = t)
  <2>1. call'.res = IF same THEN 1 ELSE 0
    BY ONLY <1>2 DEF Made, True, False
  <2> QED BY ONLY <1>5, <2>1
<1>7. L!eq(call')
  BY ONLY <1>2, <1>3, <1>6 DEF L!eq, Made, Lists
<1> QED BY ONLY <1>3, <1>4, <1>7, InContract
-----------------------------------------------------------------------------
LEMMA EmptyPacket ==
    LET b == osd_packet_new(osd_packet_sizeconv_payload2data(0)) IN
    IsPacketOf(b, 3) /\ Contents(b) = <<0, 0, 0>>
<1> DEFINE b == osd_packet_new(osd_packet_sizeconv_payload2data(0))
<1>1. SizeField(3) = 3 /\ 3 \in 3 .. (SIZE_MOD - 1) /\ 3 \in Nat
  <2>1. 3 \in Nat /\ 3 <= SIZE_MOD - 1
    BY SizeIsSmall
  <2> QED BY ONLY <2>1, SizeFieldIs, SizeIsSmall
<1>2. b = [i \in -1 .. 2 |-> IF i = -1 THEN 3 ELSE 0]
  BY <1>1 DEF osd_packet_new, osd_packet_sizeconv_payload2data, PACKET_HEADER_WORD_CNT
<1> HIDE DEF b
<1>3. /\ b = [i \in -1 .. (3 - 1) |-> b[i]] /\ b[-1] = 3 /\ \A i \in 0 .. (3 - 1) : b[i] \in Nat
      /\ b[0] = 0 /\ b[1] = 0 /\ b[2] = 0
  BY ONLY <1>2
<1>4. IsPacketOf(b, 3)
  BY ONLY <1>1, <1>3, MakesPacket
<1>5. Contents(b) = <<0, 0, 0>>
  <2>1. Contents(b) = [i \in 1 .. 3 |-> b[i - 1]]
    BY ONLY <1>4, ContentsAre
  <2>2. \A i \in 1 .. 3 : b[i - 1] = 0
    BY ONLY <1>3
  <2>3. Contents(b) = [i \in 1 .. 3 |-> 0]
    BY ONLY <2>1, <2>2
  <2> QED BY ONLY <2>3
<1> QED BY ONLY <1>4, <1>5 DEF b

LEMMA PktStarts ==
    ASSUME PktInit
    PROVE  PktInv /\ L!Init
<1> DEFINE b == osd_packet_new(osd_packet_sizeconv_payload2data(0))
<1>1. IsPacketOf(b, 3) /\ Contents(b) = <<0, 0, 0>>
  BY EmptyPacket
<1>2. pkt = [o \in Obj |-> b] /\ damaged = FALSE /\ call.op = "new" /\ calls = 0
  BY DEF PktInit
<1> HIDE DEF b
<1>3. IsBlock(b) /\ WellFormed(b)
  BY ONLY <1>1, PacketIs
<1>4. Blocks /\ Sound
  BY ONLY <1>2, <1>3 DEF Blocks, Sound
<1>5. calls \in 0 .. MaxPktCalls
  BY <1>2, PyPacketAssumption
<1>6. \A o \in Obj : AsList(o) = <<0, 0, 0>>
  BY ONLY <1>1, <1>2, <1>3 DEF AsList
<1>7. L!Init
  BY ONLY <1>2, <1>6 DEF L!Init
<1> QED BY ONLY <1>2, <1>4, <1>5, <1>7 DEF PktInv, PktTypes

LEMMA PktStep ==
    ASSUME PktInv, PktNext
    PROVE  PktInv' /\ L!Next
<1>1. Blocks /\ Sound /\ calls \in 0 .. MaxPktCalls /\ calls' = calls + 1 /\ calls < MaxPktCalls
  BY DEF PktInv, PktTypes, PktNext
<1>2. Right
  <2>1. PICK o \in Obj :
          \/ \E i \in Index :
                \/ GetItem(o, 0, i) \/ DelItem(o, 0, i)
                \/ View_getitem(o, i) \/ View_delitem(o, i)
                \/ \E v \in Value : \/ SetItem(o, 0, i, v) \/ Insert(o, 0, i, v)
                                    \/ View_setitem(o, i, v) \/ View_insert(o, i, v)
          \/ \E a \in Value \ {NotAWord}, type_sub \in SubTypes :
                SetHeader(o, a, 2, type_sub)
          \/ \E other \in Obj \ {o} : Combine(o, other) \/ Eq(o, other)
    BY DEF PktNext
  <2>2. 0 \in {0, 3} /\ 3 \in {0, 3} /\ o \in Obj
    OBVIOUS
  <2>3. ASSUME NEW i \in Index, GetItem(o, 0, i) \/ View_getitem(o, i)
        PROVE  Right
    <3>1. i \in Int
      BY PyPacketAssumption
    <3>2. GetItem(o, 0, i) \/ GetItem(o, 3, i)
      BY ONLY <2>3 DEF View_getitem, PACKET_HEADER_WORD_CNT
    <3> QED BY ONLY <1>1, <2>2, <3>1, <3>2, GetItemIsRight
  <2>4. ASSUME NEW i \in Index, DelItem(o, 0, i) \/ View_delitem(o, i)
        PROVE  Right
    <3>1. i \in Int
      BY PyPacketAssumption
    <3>2. DelItem(o, 0, i) \/ DelItem(o, 3, i)
      BY ONLY <2>4 DEF View_delitem, PACKET_HEADER_WORD_CNT
    <3> QED BY ONLY <1>1, <2>2, <3>1, <3>2, DelItemIsRight
  <2>5. ASSUME NEW i \in Index, NEW v \in Value, SetItem(o, 0, i, v) \/ View_setitem(o, i, v)
        PROVE  Right
    <3>1. i \in Int /\ v \in Nat \cup {NotAWord}
      BY PyPacketAssumption
    <3>2. SetItem(o, 0, i, v) \/ SetItem(o, 3, i, v)
      BY ONLY <2>5 DEF View_setitem, PACKET_HEADER_WORD_CNT
    <3> QED BY ONLY <1>1, <2>2, <3>1, <3>2, SetItemIsRight
  <2>6. ASSUME NEW i \in Index, NEW v \in Value, Insert(o, 0, i, v) \/ View_insert(o, i, v)
        PROVE  Right
    <3>1. i \in Int /\ v \in Nat \cup {NotAWord}
      BY PyPacketAssumption
    <3>2. Insert(o, 0, i, v) \/ Insert(o, 3, i, v)
      BY ONLY <2>6 DEF View_insert, PACKET_HEADER_WORD_CNT
    <3> QED BY ONLY <1>1, <2>2, <3>1, <3>2, InsertIsRight
  <2>7. ASSUME NEW a \in Value \ {NotAWord}, NEW s \in SubTypes, SetHeader(o, a, 2, s)
        PROVE  Right
    <3>1. a \in Nat /\ s \in 0 .. 15
      BY PyPacketAssumption
    <3> QED BY ONLY <1>1, <2>2, <2>7, <3>1, SetHeaderIsRight
  <2>8. ASSUME NEW other \in Obj \ {o}, Combine(o, other) \/ Eq(o, other)
        PROVE  Right
    <3>1. other \in Obj
      OBVIOUS
    <3> QED BY ONLY <1>1, <2>2, <2>8, <3>1, CombineIsRight, EqIsRight
  <2> QED BY ONLY <2>1, <2>3, <2>4, <2>5, <2>6, <2>7, <2>8
<1>3. calls' \in 0 .. MaxPktCalls
  <2>1. MaxPktCalls \in Nat
    BY PyPacketAssumption
  <2> QED BY ONLY <1>1, <2>1
<1> QED BY ONLY <1>2, <1>3 DEF Right, PktInv, PktTypes

LEMMA PktStays ==
    ASSUME PktInv, UNCHANGED pktVars
    PROVE  PktInv' /\ UNCHANGED <<Lists, call>>
<1>1. pkt' = pkt /\ damaged' = damaged /\ call' = call /\ calls' = calls
  BY DEF pktVars
<1>2. \A o \in Obj : AsList(o)' = AsList(o)
  BY ONLY <1>1 DEF AsList
<1>3. UNCHANGED <<Lists, call>>
  BY ONLY <1>1, <1>2 DEF Lists
<1>4. PktTypes' /\ (Sound => Sound') /\ (MayCall' => MayCall)
  BY <1>1 DEF PktInv, PktTypes, Blocks, Sound, MayCall, L!CallerError, WellFormed
<1> QED BY <1>3, <1>4 DEF PktInv

LEMMA PktInvariant == PktSpec => []PktInv
<1>1. PktInit => PktInv
  BY PktStarts
<1>2. PktInv /\ [PktNext]_pktVars => PktInv'
  BY PktStep, PktStays
<1> QED BY <1>1, <1>2, PTL DEF PktSpec

(* A packet object is a mutable sequence of words, and so is its payload   *)
(* view: every call of the bindings, with its index checks, memmove() and  *)
(* realloc(), is a step of PacketList or was outside of its contract.      *)
THEOREM PacketsAreSequences == PktSpec => IsSequence
<1>1. PktInit => L!Init
  BY PktStarts
<1>2. PktInv /\ [PktNext]_pktVars => [L!Next]_<<[o \in Obj |-> AsList(o)], call>>
  BY PktStep, PktStays DEF Lists
<1> QED BY <1>1, <1>2, PktInvariant, PTL DEF PktSpec, IsSequence, L!Spec

LEMMA SoundPacket ==
    ASSUME PktInv, Sound, NEW o, o \in Obj
    PROVE  IsPacketOf(pkt[o], len(o))
  BY PacketOf DEF PktInv, PktTypes

LEMMA FormatIsKept == PktInv => PacketFormatKept
<1> SUFFICES ASSUME PktInv PROVE PacketFormatKept
  OBVIOUS
<1>1. PktTypeOK
  <2>1. PktTypes
    BY DEF PktInv
  <2>2. ASSUME NEW o \in Obj
        PROVE  DOMAIN pkt[o] = -1 .. (Capacity(pkt[o]) - 1)
    <3>1. IsBlock(pkt[o])
      BY ONLY <2>1, o \in Obj DEF PktTypes, Blocks
    <3> QED BY ONLY <3>1 DEF IsBlock
  <2>3. call.op \in {"new", "getitem", "setitem", "delitem", "insert",
                     "set_header", "combine", "eq"}
    BY ONLY <2>1 DEF PktTypes, Ops
  <2> QED BY ONLY <2>1, <2>2, <2>3 DEF PktTypeOK, PktTypes, Blocks
<1>2. HeaderFields
  <2>1. ASSUME NEW o, o \in Obj, NEW s, s \in {0, 1, 15}, Sound
        PROVE  LET b == osd_packet_set_type_sub(pkt[o], s) IN
               /\ osd_packet_get_type_sub(b) = s
               /\ osd_packet_get_type(b) = osd_packet_get_type(pkt[o])
               /\ [b EXCEPT ![2] = 0] = [pkt[o] EXCEPT ![2] = 0]
    <3>1. IsPacketOf(pkt[o], len(o)) /\ s \in 0 .. 15
      BY ONLY PktInv, <2>1, SoundPacket
    <3> QED BY ONLY <3>1, SubTypeIsSet
  <2> QED BY ONLY <2>1 DEF HeaderFields
<1>3. FileRoundTrip
  <2>1. ASSUME NEW o, o \in Obj, Sound
        PROVE  LET file == osd_packet_fwrite(pkt[o], <<>>) IN
               /\ \A q \in Obj : osd_packet_fread(osd_packet_fwrite(pkt[q], file)) = pkt[o]
               /\ osd_packet_fread(SubSeq(file, 1, Len(file) - 1)) = NoPacket
    <3> DEFINE b == pkt[o]
               n == len(o)
    <3>1. IsPacketOf(b, n)
      BY ONLY PktInv, <2>1, SoundPacket
    <3>2. osd_packet_fwrite(b, <<>>) = Words(b)
      <4> HIDE DEF b, n
      <4> QED BY ONLY <3>1, WordsAre
    <3>3. ASSUME NEW q, q \in Obj
          PROVE  osd_packet_fread(osd_packet_fwrite(pkt[q], Words(b))) = b
      <4> DEFINE c == pkt[q]
                 m == len(q)
      <4>1. IsPacketOf(c, m)
        BY ONLY PktInv, <2>1, <3>3, SoundPacket
      <4> HIDE DEF b, n, c, m
      <4>2. Words(c) \in Seq(Nat) /\ osd_packet_fwrite(c, Words(b)) = Words(b) \o Words(c)
        BY ONLY <4>1, WordsAre
      <4>3. osd_packet_fread(Words(b) \o Words(c)) = b
        BY ONLY <3>1, <4>2, ReadsBack
      <4> QED BY ONLY <4>2, <4>3 DEF c
    <3>4. osd_packet_fread(SubSeq(Words(b), 1, Len(Words(b)) - 1)) = NoPacket
      <4> HIDE DEF b, n
      <4> QED BY ONLY <3>1, CutOff
    <3> QED BY ONLY <3>2, <3>3, <3>4
  <2> QED BY ONLY <2>1 DEF FileRoundTrip
<1>4. EqualButForLastWord
  <2>1. ASSUME NEW o, o \in Obj, NEW q, q \in Obj, Sound,
               len(o) = len(q) => pkt[o][len(o) - 1] = pkt[q][len(q) - 1]
        PROVE  osd_packet_equal(pkt[o], pkt[q]) <=> Contents(pkt[o]) = Contents(pkt[q])
    <3>1. IsPacketOf(pkt[o], len(o)) /\ IsPacketOf(pkt[q], len(q))
      BY ONLY PktInv, <2>1, SoundPacket
    <3> QED BY ONLY <2>1, <3>1, EqualWords
  <2> QED BY ONLY <2>1 DEF EqualButForLastWord
<1> QED BY ONLY <1>1, <1>2, <1>3, <1>4 DEF PacketFormatKept

(* The functions of packet.c keep the format of a packet: a header field   *)
(* is read back as it was stored, a written packet as it was written, and  *)
(* a comparison misses nothing but the last word.                          *)
THEOREM FormatsAreKept == PktSpec => []PacketFormatKept
<1> QED BY FormatIsKept, PktInvariant, PTL
=============================================================================
