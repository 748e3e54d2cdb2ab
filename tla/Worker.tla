------------------------------- MODULE Worker -------------------------------
(***************************************************************************)
(* The in-process worker (worker.c): a thread with an event loop that the  *)
(* host controller, the host module and the gateway are built on.  The     *)
(* main thread and the worker talk over a ZeroMQ PAIR socket: the main     *)
(* thread sends a command and waits for a status message of a fixed name.  *)
(*                                                                         *)
(* The steps of the thread's start and end are actions of their own, since *)
(* the main thread reads thread_is_running between them.  A send on a PAIR *)
(* socket whose peer has been destroyed blocks: the action that sends has  *)
(* the peer as a guard.                                                    *)
(***************************************************************************)
EXTENDS Integers, Sequences

CONSTANTS
    Cmd,           \* the commands of the application, e.g. I-CONNECT
    MaxCmds,       \* bound: commands sent
    MaxData,       \* bound: data messages the worker sends
    MaxTimeouts,   \* bound: status waits that time out
    InitMayFail,   \* may init_fn fail?
    MayEnd,        \* may the zloop end without I-SHUTDOWN?
    MayHang,       \* may a handler never return?
    SlowInit       \* may init_fn take longer than the status wait?

ASSUME WorkerAssumption ==
    /\ MaxCmds \in Nat /\ MaxData \in Nat /\ MaxTimeouts \in Nat
    /\ InitMayFail \in BOOLEAN /\ MayEnd \in BOOLEAN
    /\ MayHang \in BOOLEAN /\ SlowInit \in BOOLEAN
    /\ Cmd \cap {"THREADINIT", "SHUTDOWN", "none"} = {}

(* Status messages I-<of>-DONE.  id is the number of the command answered, *)
(* known to the model only.                                                *)
Done(c, i, v) == [type |-> "I", of |-> c, id |-> i, value |-> v]
Data          == [type |-> "D", of |-> "none", id |-> 0, value |-> 0]
ToMain        == [type : {"I", "D"}, of : Cmd \cup {"THREADINIT", "SHUTDOWN", "none"},
                  id : Nat, value : {0, -1}]
ToThread      == [cmd : Cmd \cup {"SHUTDOWN"}, id : Nat]

(* Result codes of osd.h.                                                  *)
OK      == "OK"
FAILURE == "FAILURE"
TIMEDOUT == "TIMEDOUT"
NOT_CONNECTED == "NOT_CONNECTED"

VARIABLES
    mpc,         \* main thread: what it is about to do
    tpc,         \* worker thread: what it is about to do
    running,     \* worker_ctx.thread_is_running
    tsock,       \* thread_ctx->inproc_socket: "none", "open" or "closed"
    usr,         \* thread_ctx->usr: "given", set up ("inuse"), or "freed"
    cancelled,   \* pthread_cancel was called
    to_thread, to_main,  \* the two directions of the PAIR socket
    cmd,         \* the command the main thread sends or waits for
    cmds, datas, timeouts,  \* bounds
    new_rv,      \* result of worker_new
    ctx_set,     \* did worker_new store the context?
    last         \* result of the last command, and the number of its answer

mainVars   == <<mpc, cmd, cmds, timeouts, new_rv, ctx_set, last, cancelled>>
threadVars == <<tpc, running, tsock, usr, datas>>
vars       == <<mainVars, threadVars, to_thread, to_main>>

MainPc == {"start", "newwait", "newjoin", "failed", "ready", "cmdsend",
           "cmdwait", "freesend", "freewait", "freejoin", "freed"}
ThreadPc == {"none", "begin", "init", "loop", "stuck", "destroy", "report", "close",
             "clear", "exit", "ended"}

TypeOK ==
    /\ mpc \in MainPc /\ tpc \in ThreadPc
    /\ running \in BOOLEAN /\ tsock \in {"none", "open", "closed"}
    /\ usr \in {"given", "inuse", "freed"} /\ cancelled \in BOOLEAN
    /\ to_thread \in Seq(ToThread) /\ to_main \in Seq(ToMain)
    /\ cmd \in Cmd \cup {"none"}
    /\ cmds \in Nat /\ datas \in Nat /\ timeouts \in Nat
    /\ new_rv \in {OK, "none"} /\ ctx_set \in BOOLEAN
    /\ last \in [rv : {OK, FAILURE, TIMEDOUT, NOT_CONNECTED, "none"}, got : Nat]

Init ==
    /\ mpc = "start" /\ tpc = "none"
    /\ running = FALSE /\ tsock = "none" /\ usr = "given" /\ cancelled = FALSE
    /\ to_thread = <<>> /\ to_main = <<>>
    /\ cmd = "none" /\ cmds = 0 /\ datas = 0 /\ timeouts = 0
    /\ new_rv = "none" /\ ctx_set = FALSE
    /\ last = [rv |-> "none", got |-> 0]

-----------------------------------------------------------------------------
(* Worker thread.                                                          *)

ThreadSends(m) == to_main' = Append(to_main, m)

ThreadStarts ==
    /\ tpc = "begin"
    /\ running' = TRUE
    /\ tsock' = "open"
    /\ tpc' = "init"
    /\ UNCHANGED <<mainVars, usr, datas, to_thread, to_main>>

ThreadInits ==
    /\ tpc = "init"
    /\ \/ /\ ThreadSends(Done("THREADINIT", 0, 0))
          /\ usr' = "inuse"
          /\ tpc' = "loop"
       \/ /\ InitMayFail
          /\ ThreadSends(Done("THREADINIT", 0, -1))
          /\ tpc' = "close"
          /\ UNCHANGED usr
    /\ UNCHANGED <<mainVars, running, tsock, datas, to_thread>>

(* The handler of an application command answers it with a status message. *)
thread_inproc_rcv ==
    /\ tpc = "loop" /\ to_thread # <<>>
    /\ to_thread' = Tail(to_thread)
    /\ LET m == Head(to_thread)
       IN  \/ /\ m.cmd = "SHUTDOWN"
              /\ tpc' = "destroy"
              /\ UNCHANGED to_main
           \/ /\ m.cmd # "SHUTDOWN"
              /\ ThreadSends(Done(m.cmd, m.id, 0))
              /\ UNCHANGED tpc
    /\ UNCHANGED <<mainVars, running, tsock, usr, datas>>

(* Another handler of the loop forwards data to the main thread.           *)
ThreadForwardsData ==
    /\ tpc = "loop" /\ datas < MaxData
    /\ datas' = datas + 1
    /\ ThreadSends(Data)
    /\ UNCHANGED <<mainVars, tpc, running, tsock, usr, to_thread>>

(* A handler blocks for good, e.g. in packet_write of the device.          *)
ThreadHangs ==
    /\ MayHang /\ tpc = "loop"
    /\ tpc' = "stuck"
    /\ UNCHANGED <<mainVars, running, tsock, usr, datas, to_thread, to_main>>

(* Mutated form: the thread ends without its destroy function.             *)
ThreadLoopEnds_skipsDestroy ==
    /\ MayEnd /\ tpc = "loop"
    /\ tpc' = "report"
    /\ UNCHANGED <<mainVars, running, tsock, usr, datas, to_thread, to_main>>

(* A handler returns -1: its receive was interrupted, or the gateway lost  *)
(* its device.                                                             *)
ThreadLoopEnds ==
    /\ MayEnd /\ tpc = "loop"
    /\ tpc' = "destroy"
    /\ UNCHANGED <<mainVars, running, tsock, usr, datas, to_thread, to_main>>

ThreadDestroys ==
    /\ tpc = "destroy"
    /\ usr' = "freed"
    /\ tpc' = "report"
    /\ UNCHANGED <<mainVars, running, tsock, datas, to_thread, to_main>>

ThreadReports ==
    /\ tpc = "report"
    /\ ThreadSends(Done("SHUTDOWN", 0, 0))
    /\ tpc' = "close"
    /\ UNCHANGED <<mainVars, running, tsock, usr, datas, to_thread>>

(* Commands not yet received are lost with the socket.                     *)
ThreadCloses ==
    /\ tpc = "close"
    /\ tsock' = "closed"
    /\ to_thread' = <<>>
    /\ tpc' = "clear"
    /\ UNCHANGED <<mainVars, running, usr, datas, to_main>>

ThreadClears ==
    /\ tpc = "clear"
    /\ running' = FALSE
    /\ tpc' = "exit"
    /\ UNCHANGED <<mainVars, tsock, usr, datas, to_thread, to_main>>

ThreadExits ==
    /\ tpc = "exit"
    /\ tpc' = "ended"
    /\ UNCHANGED <<mainVars, running, tsock, usr, datas, to_thread, to_main>>

(* Deferred cancellation at any blocking call.                             *)
ThreadCancelled ==
    /\ cancelled /\ tpc \in {"init", "loop", "stuck", "destroy", "report", "close"}
    /\ tpc' = "ended"
    /\ UNCHANGED <<mainVars, running, tsock, usr, datas, to_thread, to_main>>

-----------------------------------------------------------------------------
(* Main thread.                                                            *)

worker_new ==
    /\ mpc = "start"
    /\ tpc' = "begin"
    /\ mpc' = "newwait"
    /\ UNCHANGED <<cmd, cmds, timeouts, new_rv, ctx_set, last, cancelled,
                   running, tsock, usr, datas, to_thread, to_main>>

(* The status of the thread's initialisation decides between the two       *)
(* branches; a failure is returned as the 0 pthread_create had returned.   *)
NewDecides(failed) ==
    IF failed THEN /\ mpc' = "newjoin"
                   /\ UNCHANGED <<new_rv, ctx_set>>
              ELSE /\ mpc' = "ready" /\ new_rv' = OK /\ ctx_set' = TRUE

NewReceives ==
    /\ mpc = "newwait" /\ to_main # <<>>
    /\ to_main' = Tail(to_main)
    /\ NewDecides(Head(to_main).value # 0)
    /\ UNCHANGED <<cmd, cmds, timeouts, last, cancelled, threadVars, to_thread>>

(* After a timeout retval is read uninitialised.                           *)
NewTimesOut ==
    /\ SlowInit /\ mpc = "newwait" /\ to_main = <<>> /\ timeouts < MaxTimeouts
    /\ timeouts' = timeouts + 1
    /\ \E uninitialised \in BOOLEAN : NewDecides(uninitialised)
    /\ UNCHANGED <<cmd, cmds, last, cancelled, threadVars, to_thread, to_main>>

NewJoins ==
    /\ mpc = "newjoin" /\ tpc = "ended"
    /\ mpc' = "failed"
    /\ new_rv' = OK
    /\ UNCHANGED <<cmd, cmds, timeouts, ctx_set, last, cancelled, threadVars,
                   to_thread, to_main>>

(* Mutated form: the join is left out when the thread has ended itself.    *)
worker_free_noJoin ==
    /\ mpc = "ready"
    /\ mpc' = IF running THEN "freesend" ELSE "freed"
    /\ UNCHANGED <<cmd, cmds, timeouts, new_rv, ctx_set, last, cancelled,
                   threadVars, to_thread, to_main>>

worker_free ==
    /\ mpc = "ready"
    /\ mpc' = IF running THEN "freesend" ELSE "freejoin"
    /\ UNCHANGED <<cmd, cmds, timeouts, new_rv, ctx_set, last, cancelled,
                   threadVars, to_thread, to_main>>

worker_main_send_status(c) ==
    /\ mpc = "ready" /\ cmds < MaxCmds
    /\ cmds' = cmds + 1
    /\ \/ /\ running
          /\ mpc' = "cmdsend" /\ cmd' = c
          /\ UNCHANGED last
       \/ /\ ~running
          /\ last' = [rv |-> NOT_CONNECTED, got |-> 0]
          /\ UNCHANGED <<mpc, cmd>>
    /\ UNCHANGED <<timeouts, new_rv, ctx_set, cancelled, threadVars, to_thread,
                   to_main>>

(* zmsg_send on the PAIR socket: blocks without a peer.                    *)
worker_send_status ==
    /\ tsock = "open"
    /\ \/ /\ mpc = "cmdsend" /\ mpc' = "cmdwait"
          /\ to_thread' = Append(to_thread, [cmd |-> cmd, id |-> cmds])
       \/ /\ mpc = "freesend" /\ mpc' = "freewait"
          /\ to_thread' = Append(to_thread, [cmd |-> "SHUTDOWN", id |-> 0])
    /\ UNCHANGED <<cmd, cmds, timeouts, new_rv, ctx_set, last, cancelled,
                   threadVars, to_main>>

(* Mutated form: the name of the status is not compared.                   *)
CmdReceives_anyStatus ==
    /\ mpc = "cmdwait" /\ to_main # <<>>
    /\ to_main' = Tail(to_main)
    /\ LET m == Head(to_main)
       IN  \/ m.type = "D" /\ UNCHANGED <<mpc, last>>
           \/ /\ m.type = "I"
              /\ mpc' = "ready"
              /\ last' = [rv |-> OK, got |-> m.id]
    /\ UNCHANGED <<cmd, cmds, timeouts, new_rv, ctx_set, cancelled, threadVars,
                   to_thread>>

(* worker_wait_for_status: data is discarded, a status of another name     *)
(* fails the wait.                                                         *)
CmdReceives ==
    /\ mpc = "cmdwait" /\ to_main # <<>>
    /\ to_main' = Tail(to_main)
    /\ LET m == Head(to_main)
       IN  \/ m.type = "D" /\ UNCHANGED <<mpc, last>>
           \/ /\ m.type = "I"
              /\ mpc' = "ready"
              /\ last' = IF m.of = cmd THEN [rv |-> OK, got |-> m.id]
                                       ELSE [rv |-> FAILURE, got |-> 0]
    /\ UNCHANGED <<cmd, cmds, timeouts, new_rv, ctx_set, cancelled, threadVars,
                   to_thread>>

CmdTimesOut ==
    /\ mpc = "cmdwait" /\ to_main = <<>> /\ timeouts < MaxTimeouts
    /\ timeouts' = timeouts + 1
    /\ mpc' = "ready"
    /\ last' = [rv |-> TIMEDOUT, got |-> 0]
    /\ UNCHANGED <<cmd, cmds, new_rv, ctx_set, cancelled, threadVars, to_thread,
                   to_main>>

FreeReceives ==
    /\ mpc = "freewait" /\ to_main # <<>>
    /\ to_main' = Tail(to_main)
    /\ LET m == Head(to_main)
       IN  \/ m.type = "D" /\ UNCHANGED <<mpc, cancelled>>
           \/ /\ m.type = "I"
              /\ mpc' = "freejoin"
              /\ cancelled' = (m.of # "SHUTDOWN")
    /\ UNCHANGED <<cmd, cmds, timeouts, new_rv, ctx_set, last, threadVars,
                   to_thread>>

(* Mutated form: the join is entered without a cancellation.               *)
FreeTimesOut_noCancel ==
    /\ mpc = "freewait" /\ to_main = <<>>
    /\ mpc' = "freejoin"
    /\ UNCHANGED <<timeouts, cancelled, cmd, cmds, new_rv, ctx_set, last,
                   threadVars, to_thread, to_main>>

(* Time always passes: this timeout needs no bound, it happens once.       *)
FreeTimesOut ==
    /\ mpc = "freewait" /\ to_main = <<>>
    /\ mpc' = "freejoin"
    /\ cancelled' = TRUE
    /\ UNCHANGED <<timeouts, cmd, cmds, new_rv, ctx_set, last, threadVars,
                   to_thread, to_main>>

FreeJoins ==
    /\ mpc = "freejoin" /\ tpc = "ended"
    /\ mpc' = "freed"
    /\ UNCHANGED <<cmd, cmds, timeouts, new_rv, ctx_set, last, cancelled,
                   threadVars, to_thread, to_main>>

-----------------------------------------------------------------------------
ThreadProgress ==
    \/ ThreadStarts \/ ThreadInits \/ thread_inproc_rcv \/ ThreadDestroys
    \/ ThreadReports \/ ThreadCloses \/ ThreadClears \/ ThreadExits
    \/ ThreadCancelled

MainProgress ==
    \/ NewReceives \/ NewJoins \/ worker_send_status \/ CmdReceives
    \/ FreeReceives \/ FreeTimesOut \/ FreeJoins

Next ==
    \/ ThreadProgress \/ ThreadForwardsData \/ ThreadHangs \/ ThreadLoopEnds
    \/ MainProgress \/ worker_new \/ NewTimesOut \/ CmdTimesOut \/ worker_free
    \/ \E c \in Cmd : worker_main_send_status(c)

Spec == Init /\ [][Next]_vars

(* Both threads are scheduled; a thread inside a call goes on with it.     *)
FairSpec == Spec /\ WF_vars(ThreadProgress) /\ WF_vars(MainProgress)

-----------------------------------------------------------------------------
(* Properties.                                                             *)

(* worker_free and the failure path of worker_new give the context and its *)
(* socket back only after the join: the thread, which writes               *)
(* thread_is_running inside that context, has ended by then.               *)
ThreadEndsBeforeFree == mpc \in {"freed", "failed"} => tpc = "ended"

(* Unless it had to cancel the thread, worker_free leaves nothing behind:  *)
(* what init_fn set up went through destroy_fn and the thread's socket is  *)
(* closed, whether the thread was told to end, ended by itself or failed   *)
(* to initialise after worker_new had given up waiting.                    *)
FreedCleanly == mpc = "freed" /\ ~cancelled => usr # "inuse" /\ tsock = "closed"

(* As long as no wait has timed out, a command that returns OSD_OK got the *)
(* answer of that very command, even with data, early shutdown messages    *)
(* and answers to other commands on the same socket.                       *)
AnswerMatches ==
    (/\ last.rv = OK /\ timeouts = 0
     /\ mpc \notin {"cmdsend", "cmdwait"}) => last.got = cmds

(* Once worker_free has sent I-SHUTDOWN it returns, also when the thread   *)
(* hangs in a handler or ends by itself without reading the message.       *)
ShutdownCompletes == mpc = "freewait" ~> mpc = "freed"

(* worker_free is written for a thread that "has been terminated           *)
(* abnormally during its runtime", and still does not always return.       *)
FreeCompletes ==
    mpc \in {"freesend", "freewait", "freejoin"} ~> mpc = "freed"
=============================================================================
