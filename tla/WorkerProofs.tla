---------------------------- MODULE WorkerProofs ----------------------------
(***************************************************************************)
(* For every set of commands and every value of the bounds: the worker's   *)
(* context outlives its thread, worker_free leaves nothing behind, and a   *)
(* command that returns OSD_OK got its own answer.                         *)
(***************************************************************************)
EXTENDS Worker, TLAPS

(* What the two ends of the PAIR socket send has its type.                 *)
LEMMA MessageTypes ==
    /\ \A c \in Cmd, i \in Nat : Done(c, i, 0) \in ToMain
    /\ Done("THREADINIT", 0, 0) \in ToMain /\ Done("THREADINIT", 0, -1) \in ToMain
    /\ Done("SHUTDOWN", 0, 0) \in ToMain /\ Data \in ToMain
    /\ \A m \in ToMain : /\ m.type \in {"I", "D"} /\ m.id \in Nat
                         /\ m.of \in Cmd \cup {"THREADINIT", "SHUTDOWN", "none"}
    /\ \A m \in ToThread : m.id \in Nat /\ m.cmd \in Cmd \cup {"SHUTDOWN"}
    /\ \A c \in Cmd \cup {"SHUTDOWN"}, i \in Nat : [cmd |-> c, id |-> i] \in ToThread
  BY DEF Done, Data, ToMain, ToThread

(* The command of a call is set while its message is sent or awaited.      *)
CmdIsSet == mpc \in {"cmdsend", "cmdwait"} => cmd \in Cmd

TInv == TypeOK /\ CmdIsSet

(* The Boolean variables are treated apart from the rest of TypeOK.        *)
BoolOK == running \in BOOLEAN /\ cancelled \in BOOLEAN /\ ctx_set \in BOOLEAN
DataOK ==
    /\ mpc \in MainPc /\ tpc \in ThreadPc
    /\ tsock \in {"none", "open", "closed"} /\ usr \in {"given", "inuse", "freed"}
    /\ to_thread \in Seq(ToThread) /\ to_main \in Seq(ToMain)
    /\ cmd \in Cmd \cup {"none"}
    /\ cmds \in Nat /\ datas \in Nat /\ timeouts \in Nat
    /\ new_rv \in {OK, "none"}
    /\ last \in [rv : {OK, FAILURE, TIMEDOUT, NOT_CONNECTED, "none"}, got : Nat]

LEMMA TypeParts == TypeOK <=> BoolOK /\ DataOK
  BY DEF TypeOK, BoolOK, DataOK

LEMMA TypePartsPrimed == BoolOK' /\ DataOK' => TypeOK'
  BY DEF TypeOK, BoolOK, DataOK

LEMMA TInvInit == Init => TInv
  <1> SUFFICES ASSUME Init PROVE TInv
    OBVIOUS
  <1>1. BoolOK
    BY DEF Init, BoolOK
  <1>2. DataOK
    BY DEF Init, DataOK, MainPc, ThreadPc
  <1>3. CmdIsSet
    BY DEF Init, CmdIsSet
  <1> QED
    BY <1>1, <1>2, <1>3, TypeParts DEF TInv

LEMMA BoolStep == BoolOK /\ [Next]_vars => BoolOK'
  <1> SUFFICES ASSUME BoolOK, [Next]_vars PROVE BoolOK'
    OBVIOUS
  <1> USE DEF BoolOK, mainVars, threadVars
  <1>1. CASE ThreadStarts \/ ThreadInits \/ thread_inproc_rcv \/ ThreadDestroys
    BY <1>1 DEF ThreadStarts, ThreadInits, thread_inproc_rcv, ThreadDestroys
  <1>2. CASE ThreadReports \/ ThreadCloses \/ ThreadClears \/ ThreadExits
    BY <1>2 DEF ThreadReports, ThreadCloses, ThreadClears, ThreadExits
  <1>3. CASE ThreadCancelled \/ ThreadForwardsData \/ ThreadHangs \/ ThreadLoopEnds
    BY <1>3 DEF ThreadCancelled, ThreadForwardsData, ThreadHangs, ThreadLoopEnds
  <1>4. CASE NewReceives \/ NewTimesOut \/ NewJoins \/ worker_new
    BY <1>4 DEF NewReceives, NewTimesOut, NewDecides, NewJoins, worker_new
  <1>5. CASE worker_send_status \/ CmdReceives \/ CmdTimesOut \/ worker_free
    BY <1>5 DEF worker_send_status, CmdReceives, CmdTimesOut, worker_free
  <1>6. CASE FreeReceives \/ FreeTimesOut \/ FreeJoins
    BY <1>6 DEF FreeReceives, FreeTimesOut, FreeJoins
  <1>7. ASSUME NEW c \in Cmd, worker_main_send_status(c) PROVE BoolOK'
    BY <1>7 DEF worker_main_send_status
  <1>8. CASE UNCHANGED vars
    BY <1>8 DEF vars
  <1> QED
    BY <1>1, <1>2, <1>3, <1>4, <1>5, <1>6, <1>7, <1>8
    DEF Next, ThreadProgress, MainProgress

(* A message taken off a queue, and what remains of the queue.             *)
LEMMA QueueTypes ==
    ASSUME DataOK
    PROVE  /\ \A m \in ToMain : Append(to_main, m) \in Seq(ToMain)
           /\ \A m \in ToThread : Append(to_thread, m) \in Seq(ToThread)
           /\ to_main # <<>> => /\ Head(to_main) \in ToMain
                                /\ Tail(to_main) \in Seq(ToMain)
           /\ to_thread # <<>> => /\ Head(to_thread) \in ToThread
                                  /\ Tail(to_thread) \in Seq(ToThread)
  BY DEF DataOK

LEMMA DataStep == DataOK /\ CmdIsSet /\ [Next]_vars => DataOK' /\ CmdIsSet'
  <1> SUFFICES ASSUME DataOK, CmdIsSet, [Next]_vars PROVE DataOK' /\ CmdIsSet'
    OBVIOUS
  <1> USE QueueTypes, MessageTypes
  <1> USE DEF DataOK, CmdIsSet, MainPc, ThreadPc, mainVars, threadVars
  <1>1. CASE ThreadStarts
    BY <1>1 DEF ThreadStarts
  <1>2. CASE ThreadInits
    <2>1. to_main' \in Seq(ToMain)
      BY <1>2 DEF ThreadInits, ThreadSends
    <2> QED
      BY <1>2, <2>1 DEF ThreadInits
  <1>3. CASE thread_inproc_rcv
    <2>1. Head(to_thread) \in ToThread /\ Tail(to_thread) \in Seq(ToThread)
      BY <1>3 DEF thread_inproc_rcv
    <2>2. CASE Head(to_thread).cmd = "SHUTDOWN"
      BY <1>3, <2>1, <2>2 DEF thread_inproc_rcv
    <2>3. CASE Head(to_thread).cmd # "SHUTDOWN"
      <3>1. Done(Head(to_thread).cmd, Head(to_thread).id, 0) \in ToMain
        BY <2>1, <2>3
      <3>2. to_main' \in Seq(ToMain)
        BY <1>3, <2>3, <3>1 DEF thread_inproc_rcv, ThreadSends
      <3> QED
        BY <1>3, <2>1, <2>3, <3>2 DEF thread_inproc_rcv
    <2> QED
      BY <2>2, <2>3
  <1>4. CASE ThreadDestroys
    BY <1>4 DEF ThreadDestroys
  <1>5. CASE ThreadReports
    BY <1>5 DEF ThreadReports, ThreadSends
  <1>6. CASE ThreadCloses
    BY <1>6 DEF ThreadCloses
  <1>7. CASE ThreadClears
    BY <1>7 DEF ThreadClears
  <1>8. CASE ThreadExits
    BY <1>8 DEF ThreadExits
  <1>9. CASE ThreadCancelled
    BY <1>9 DEF ThreadCancelled
  <1>10. CASE ThreadForwardsData
    BY <1>10 DEF ThreadForwardsData, ThreadSends
  <1>11. CASE ThreadHangs
    BY <1>11 DEF ThreadHangs
  <1>12. CASE ThreadLoopEnds
    BY <1>12 DEF ThreadLoopEnds
  <1>13. CASE NewReceives
    BY <1>13 DEF NewReceives, NewDecides, OK
  <1>14. CASE NewJoins
    BY <1>14 DEF NewJoins, OK
  <1>15. CASE worker_send_status
    <2>1. /\ [cmd |-> "SHUTDOWN", id |-> 0] \in ToThread
          /\ mpc = "cmdsend" => [cmd |-> cmd, id |-> cmds] \in ToThread
      OBVIOUS
    <2>2. to_thread' \in Seq(ToThread)
      BY <1>15, <2>1 DEF worker_send_status
    <2> QED
      BY <1>15, <2>2 DEF worker_send_status
  <1>16. CASE CmdReceives
    BY <1>16 DEF CmdReceives, OK, FAILURE
  <1>17. CASE FreeReceives
    BY <1>17 DEF FreeReceives
  <1>18. CASE FreeTimesOut
    BY <1>18 DEF FreeTimesOut
  <1>19. CASE FreeJoins
    BY <1>19 DEF FreeJoins
  <1>20. CASE worker_new
    BY <1>20 DEF worker_new
  <1>21. CASE NewTimesOut
    BY <1>21 DEF NewTimesOut, NewDecides, OK
  <1>22. CASE CmdTimesOut
    BY <1>22 DEF CmdTimesOut, TIMEDOUT
  <1>23. CASE worker_free
    BY <1>23 DEF worker_free
  <1>24. ASSUME NEW c \in Cmd, worker_main_send_status(c) PROVE DataOK' /\ CmdIsSet'
    BY <1>24 DEF worker_main_send_status, NOT_CONNECTED
  <1>25. CASE UNCHANGED vars
    BY <1>25 DEF vars
  <1> QED
    BY <1>1, <1>2, <1>3, <1>4, <1>5, <1>6, <1>7, <1>8, <1>9, <1>10, <1>11,
       <1>12, <1>13, <1>14, <1>15, <1>16, <1>17, <1>18, <1>19, <1>20, <1>21,
       <1>22, <1>23, <1>24, <1>25 DEF Next, ThreadProgress, MainProgress

LEMMA TInvStep == TInv /\ [Next]_vars => TInv'
  BY BoolStep, DataStep, TypeParts, TypePartsPrimed DEF TInv

(* The values of worker.c's variables, and what its two message queues     *)
(* carry, in every reachable state.                                        *)
THEOREM TypeCorrect == Spec => []TypeOK
  <1>1. TInv => TypeOK
    BY DEF TInv
  <1> QED
    BY <1>1, TInvInit, TInvStep, PTL DEF Spec
-----------------------------------------------------------------------------
(* The end of the thread.                                                  *)

Ending == {"report", "close", "clear", "exit", "ended"}

(* A thread in its end phase that was not cancelled has undone what init_fn*)
(* set up, and closes its socket before it resets the flag; a cancellation *)
(* is only requested by worker_free, which then waits for the end.         *)
EndsInOrder ==
    /\ cancelled => mpc \in {"freejoin", "freed"}
    /\ tpc \in Ending /\ ~cancelled => usr # "inuse"
    /\ tpc \in {"clear", "exit", "ended"} /\ ~cancelled => tsock = "closed"
    /\ tpc \in {"none", "begin", "init"} => usr = "given"
    /\ mpc = "start" => tpc = "none"

EInv == EndsInOrder /\ ThreadEndsBeforeFree

LEMMA EInvInit == Init => EInv
  BY DEF Init, EInv, EndsInOrder, ThreadEndsBeforeFree, Ending

LEMMA EInvStep == TInv /\ EInv /\ [Next]_vars => EInv'
  <1> SUFFICES ASSUME TypeOK, EInv, [Next]_vars PROVE EInv'
    BY DEF TInv
  <1> USE DEF EInv, EndsInOrder, ThreadEndsBeforeFree, Ending, mainVars, threadVars
  <1>1. CASE ThreadStarts \/ ThreadInits
    BY <1>1 DEF ThreadStarts, ThreadInits
  <1>2. CASE thread_inproc_rcv
    BY <1>2 DEF thread_inproc_rcv
  <1>3. CASE ThreadDestroys \/ ThreadReports \/ ThreadCloses
    BY <1>3 DEF ThreadDestroys, ThreadReports, ThreadCloses
  <1>4. CASE ThreadClears \/ ThreadExits \/ ThreadCancelled
    BY <1>4 DEF ThreadClears, ThreadExits, ThreadCancelled
  <1>5. CASE ThreadForwardsData \/ ThreadHangs \/ ThreadLoopEnds
    BY <1>5 DEF ThreadForwardsData, ThreadHangs, ThreadLoopEnds
  <1>6. CASE NewReceives \/ NewTimesOut \/ NewJoins \/ worker_new
    BY <1>6 DEF NewReceives, NewTimesOut, NewDecides, NewJoins, worker_new
  <1>7. CASE worker_send_status \/ CmdReceives \/ CmdTimesOut \/ worker_free
    BY <1>7 DEF worker_send_status, CmdReceives, CmdTimesOut, worker_free
  <1>8. CASE FreeReceives
    BY <1>8 DEF FreeReceives
  <1>9. CASE FreeTimesOut \/ FreeJoins
    BY <1>9 DEF FreeTimesOut, FreeJoins
  <1>10. ASSUME NEW c \in Cmd, worker_main_send_status(c) PROVE EInv'
    BY <1>10 DEF worker_main_send_status
  <1>11. CASE UNCHANGED vars
    BY <1>11 DEF vars
  <1> QED
    BY <1>1, <1>2, <1>3, <1>4, <1>5, <1>6, <1>7, <1>8, <1>9, <1>10, <1>11
    DEF Next, ThreadProgress, MainProgress

(* worker_free and worker_new give the context back only when the thread,  *)
(* which still writes thread_is_running into it, has ended.                *)
THEOREM ContextOutlivesThread == Spec => []ThreadEndsBeforeFree
  <1>1. EInv => ThreadEndsBeforeFree
    BY DEF EInv
  <1> QED
    BY <1>1, TInvInit, TInvStep, EInvInit, EInvStep, PTL DEF Spec

(* Without a cancellation, worker_free leaves neither the thread's socket  *)
(* nor anything init_fn set up behind.                                     *)
THEOREM FreeLeavesNothing == Spec => []FreedCleanly
  <1>1. EInv => FreedCleanly
    BY DEF EInv, EndsInOrder, ThreadEndsBeforeFree, FreedCleanly, Ending
  <1> QED
    BY <1>1, TInvInit, TInvStep, EInvInit, EInvStep, PTL DEF Spec
-----------------------------------------------------------------------------
(* Commands and their answers, as long as no wait has timed out.           *)

Early == {"none", "begin", "init", "loop"}
CmdMsg == [cmd |-> cmd, id |-> cmds]
StopMsg == [cmd |-> "SHUTDOWN", id |-> 0]

NoAnswer == \A i \in 1 .. Len(to_main) : to_main[i].of \notin Cmd

(* An answer on its way is the only one and belongs to the command the     *)
(* main thread waits for.                                                  *)
OneAnswer ==
    /\ \A i \in 1 .. Len(to_main) :
          to_main[i].of \in Cmd => mpc = "cmdwait" /\ to_main[i].id = cmds
    /\ \A i, j \in 1 .. Len(to_main) :
          to_main[i].of \in Cmd /\ to_main[j].of \in Cmd => i = j

(* I-THREADINIT-DONE is the first message of the thread and read by        *)
(* worker_new, I-SHUTDOWN-DONE is its last.                                *)
FirstAndLast ==
    /\ tpc \in {"none", "begin", "init"} => to_main = <<>> /\ mpc \in {"start", "newwait"}
    /\ \A i \in 1 .. Len(to_main) :
          /\ to_main[i].of = "THREADINIT" => i = 1 /\ mpc = "newwait"
          /\ to_main[i].of = "SHUTDOWN" =>
                i = Len(to_main) /\ tpc \in {"close", "clear", "exit", "ended"}
          /\ to_main[i].of = "none" => to_main[i].type = "D"

(* A thread that still serves commands has at most the present one to      *)
(* serve, and has then not answered it.                                    *)
OneCommand ==
    tpc \in Early =>
        \/ to_thread = <<>>
        \/ mpc = "cmdwait" /\ to_thread = <<CmdMsg>> /\ NoAnswer
        \/ mpc \in {"freewait", "freejoin", "freed"} /\ to_thread = <<StopMsg>>

AInv == timeouts = 0 => OneAnswer /\ FirstAndLast /\ OneCommand
LEMMA AppendElements ==
    ASSUME NEW S, NEW q \in Seq(S), NEW m \in S
    PROVE  /\ Len(Append(q, m)) = Len(q) + 1
           /\ \A i \in 1 .. Len(q) : Append(q, m)[i] = q[i]
           /\ Append(q, m)[Len(q) + 1] = m
  OBVIOUS

LEMMA TailElements ==
    ASSUME NEW S, NEW q \in Seq(S), q # <<>>
    PROVE  /\ Len(q) \in Nat /\ Len(q) >= 1 /\ Head(q) = q[1]
           /\ Len(Tail(q)) = Len(q) - 1
           /\ \A i \in 1 .. Len(q) - 1 : i + 1 \in 1 .. Len(q)
                                        /\ Tail(q)[i] = q[i + 1]
  OBVIOUS

LEMMA MessageFields ==
    /\ \A c, i, v : Done(c, i, v).of = c /\ Done(c, i, v).id = i
    /\ Data.of = "none" /\ Data.type = "D"
    /\ "THREADINIT" \notin Cmd /\ "SHUTDOWN" \notin Cmd /\ "none" \notin Cmd
  BY WorkerAssumption DEF Done, Data

LEMMA AInvInit == Init => AInv
  BY DEF Init, AInv, OneAnswer, FirstAndLast, OneCommand, Early

LEMMA AInvStep == TInv /\ EInv /\ AInv /\ [Next]_vars => AInv'
  <1> SUFFICES ASSUME TInv, EInv, AInv, [Next]_vars, timeouts' = 0
               PROVE  OneAnswer' /\ FirstAndLast' /\ OneCommand'
    BY DEF AInv
  <1>a. TypeOK /\ DataOK /\ CmdIsSet
    BY TypeParts DEF TInv
  <1>b. timeouts = 0
    BY <1>a DEF TypeOK, Next, ThreadProgress, MainProgress, vars, mainVars,
       threadVars, ThreadStarts, ThreadInits, thread_inproc_rcv, ThreadDestroys,
       ThreadReports, ThreadCloses, ThreadClears, ThreadExits, ThreadCancelled,
       ThreadForwardsData, ThreadHangs, ThreadLoopEnds, NewReceives, NewJoins,
       worker_send_status, CmdReceives, FreeReceives, FreeTimesOut, FreeJoins,
       worker_new, NewTimesOut, CmdTimesOut, worker_free, worker_main_send_status
  <1>c. OneAnswer /\ FirstAndLast /\ OneCommand
    BY <1>b DEF AInv
  <1>d. to_main \in Seq(ToMain) /\ to_thread \in Seq(ToThread)
    BY <1>a DEF TypeOK
  <1>e. mpc = "start" => tpc = "none"
    BY DEF EInv, EndsInOrder
  <1> USE <1>b, <1>c
  <1> USE DEF mainVars, threadVars, Early, NoAnswer, CmdMsg
  <1>1. CASE ThreadInits
    <2>1. PICK v \in {0, -1} : to_main' = Append(to_main, Done("THREADINIT", 0, v))
      BY <1>1 DEF ThreadInits, ThreadSends
    <2>2. mpc = "newwait" /\ mpc' = mpc /\ to_main = <<>>
      BY <1>1, <1>e DEF ThreadInits, FirstAndLast
    <2>3. Len(to_main') = 1 /\ to_main'[1].of = "THREADINIT"
      BY <2>1, <2>2, MessageFields
    <2>4. tpc' \in {"loop", "close"} /\ tpc = "init" /\ UNCHANGED to_thread
      BY <1>1 DEF ThreadInits
    <2>5. OneAnswer'
      BY <2>3, MessageFields DEF OneAnswer
    <2>6. FirstAndLast'
      BY <2>2, <2>3, <2>4 DEF FirstAndLast
    <2>7. OneCommand'
      BY <2>2, <2>4 DEF OneCommand
    <2> QED
      BY <2>5, <2>6, <2>7
  <1>2. CASE thread_inproc_rcv
    <2>1. tpc = "loop" /\ to_thread # <<>> /\ UNCHANGED <<mpc, cmd, cmds>>
      BY <1>2 DEF thread_inproc_rcv
    <2>2. CASE Head(to_thread).cmd = "SHUTDOWN"
      <3>1. tpc' = "destroy" /\ UNCHANGED to_main
        BY <1>2, <2>2 DEF thread_inproc_rcv
      <3> QED
        BY <2>1, <3>1 DEF OneAnswer, FirstAndLast, OneCommand
    <2>3. CASE Head(to_thread).cmd # "SHUTDOWN"
      <3>1. mpc = "cmdwait" /\ to_thread = <<CmdMsg>> /\ NoAnswer
        BY <2>1, <2>3 DEF OneCommand, StopMsg
      <3>2. Head(to_thread).id = cmds /\ Head(to_thread).cmd = cmd
        BY <3>1
      <3>3. cmd \in Cmd /\ cmds \in Nat
        BY <1>a, <3>1 DEF CmdIsSet, TypeOK
      <3>4. Done(cmd, cmds, 0) \in ToMain
        BY <3>3, MessageTypes
      <3>5. to_main' = Append(to_main, Done(cmd, cmds, 0)) /\ tpc' = tpc
        BY <1>2, <2>3, <3>2 DEF thread_inproc_rcv, ThreadSends
      <3>6. to_thread' = <<>>
        BY <1>2, <3>1 DEF thread_inproc_rcv
      <3>7. /\ Len(to_main') = Len(to_main) + 1 /\ Len(to_main) \in Nat
            /\ \A i \in 1 .. Len(to_main) : to_main'[i] = to_main[i]
            /\ to_main'[Len(to_main) + 1].of = cmd
            /\ to_main'[Len(to_main) + 1].id = cmds
        BY <1>d, <3>4, <3>5, AppendElements, MessageFields
      <3>8. OneAnswer'
        BY <2>1, <3>1, <3>7 DEF OneAnswer
      <3>9. FirstAndLast'
        BY <2>1, <3>3, <3>5, <3>7, MessageFields DEF FirstAndLast
      <3>10. OneCommand'
        BY <3>6 DEF OneCommand
      <3> QED
        BY <3>8, <3>9, <3>10
    <2> QED
      BY <2>2, <2>3
  <1>3. CASE ThreadForwardsData
    <2>1. /\ tpc = "loop" /\ UNCHANGED <<mpc, tpc, cmd, cmds, to_thread>>
          /\ to_main' = Append(to_main, Data)
      BY <1>3 DEF ThreadForwardsData, ThreadSends
    <2>2. /\ Len(to_main') = Len(to_main) + 1 /\ Len(to_main) \in Nat
          /\ \A i \in 1 .. Len(to_main) : to_main'[i] = to_main[i]
          /\ to_main'[Len(to_main) + 1].of = "none"
          /\ to_main'[Len(to_main) + 1].type = "D"
      BY <1>d, <2>1, AppendElements, MessageTypes, MessageFields
    <2>3. OneAnswer'
      BY <2>1, <2>2, MessageFields DEF OneAnswer
    <2>4. FirstAndLast'
      BY <2>1, <2>2 DEF FirstAndLast
    <2>5. OneCommand'
      BY <2>1, <2>2, MessageFields DEF OneCommand
    <2> QED
      BY <2>3, <2>4, <2>5
  <1>4. CASE ThreadReports
    <2>1. /\ tpc = "report" /\ tpc' = "close" /\ UNCHANGED <<mpc, cmds>>
          /\ to_main' = Append(to_main, Done("SHUTDOWN", 0, 0))
      BY <1>4 DEF ThreadReports, ThreadSends
    <2>2. /\ Len(to_main') = Len(to_main) + 1 /\ Len(to_main) \in Nat
          /\ \A i \in 1 .. Len(to_main) : to_main'[i] = to_main[i]
          /\ to_main'[Len(to_main) + 1].of = "SHUTDOWN"
      BY <1>d, <2>1, AppendElements, MessageTypes, MessageFields
    <2>3. OneAnswer'
      BY <2>1, <2>2, MessageFields DEF OneAnswer
    <2>4. FirstAndLast'
      BY <2>1, <2>2 DEF FirstAndLast
    <2>5. OneCommand'
      BY <2>1 DEF OneCommand
    <2> QED
      BY <2>3, <2>4, <2>5
  <1>5. CASE ThreadStarts \/ ThreadDestroys \/ ThreadCloses \/ ThreadClears
             \/ ThreadExits
    BY <1>5 DEF ThreadStarts, ThreadDestroys, ThreadCloses, ThreadClears,
       ThreadExits, OneAnswer, FirstAndLast, OneCommand
  <1>6. CASE ThreadCancelled \/ ThreadHangs \/ ThreadLoopEnds
    <2>1. /\ UNCHANGED <<mpc, cmd, cmds, to_main, to_thread>>
          /\ tpc' \in {"ended", "stuck", "destroy"}
          /\ tpc \in {"close", "clear", "exit", "ended"} => tpc' = "ended"
      BY <1>6 DEF ThreadCancelled, ThreadHangs, ThreadLoopEnds
    <2> QED
      BY <2>1 DEF OneAnswer, FirstAndLast, OneCommand
  <1>7. ASSUME to_main # <<>>, to_main' = Tail(to_main),
               UNCHANGED <<tpc, cmd, cmds, to_thread>>,
               \/ mpc' = mpc
               \/ mpc = "newwait" /\ mpc' \in {"newjoin", "ready"}
               \/ mpc = "freewait" /\ mpc' = "freejoin"
               \/ mpc = "cmdwait" /\ mpc' = "ready" /\ to_main[1].type = "I",
               mpc \in {"cmdwait", "newwait", "freewait"}
        PROVE  OneAnswer' /\ FirstAndLast' /\ OneCommand'
    <2>1. /\ Len(to_main) \in Nat /\ Len(to_main) >= 1
          /\ Len(to_main') = Len(to_main) - 1
          /\ \A i \in 1 .. Len(to_main) - 1 : i + 1 \in 1 .. Len(to_main)
                                             /\ to_main'[i] = to_main[i + 1]
      BY <1>7, <1>d, TailElements
    <2>2. tpc \notin {"none", "begin", "init"}
      BY <1>7 DEF FirstAndLast
    <2>3. mpc # "cmdwait" => NoAnswer
      BY DEF OneAnswer
    <2>4. mpc' # mpc => NoAnswer'
      <3>1. CASE mpc # "cmdwait"
        BY <2>1, <2>3, <3>1
      <3>2. CASE mpc = "cmdwait" /\ mpc' = "ready" /\ to_main[1].type = "I"
        <4>1. to_main[1].of \in Cmd \cup {"THREADINIT", "SHUTDOWN", "none"}
          BY <1>d, <2>1, MessageTypes
        <4>2. to_main[1].of \in Cmd \cup {"SHUTDOWN"}
          BY <2>1, <3>2, <4>1 DEF FirstAndLast
        <4>3. CASE to_main[1].of \in Cmd
          BY <2>1, <4>3 DEF OneAnswer
        <4>4. CASE to_main[1].of = "SHUTDOWN"
          BY <2>1, <4>4 DEF FirstAndLast
        <4> QED
          BY <4>2, <4>3, <4>4
      <3> QED
        BY <1>7, <3>1, <3>2
    <2>5. OneAnswer'
      BY <1>7, <2>1, <2>4 DEF OneAnswer
    <2>6. FirstAndLast'
      <3>1. ASSUME NEW i \in 1 .. Len(to_main')
            PROVE  /\ to_main'[i].of # "THREADINIT"
                   /\ to_main'[i].of = "SHUTDOWN" =>
                         i = Len(to_main') /\ tpc' \in {"close", "clear", "exit", "ended"}
                   /\ to_main'[i].of = "none" => to_main'[i].type = "D"
        <4>1. i + 1 \in 1 .. Len(to_main) /\ to_main'[i] = to_main[i + 1] /\ i + 1 # 1
          BY <2>1, <3>1
        <4>2. tpc' = tpc
          BY <1>7
        <4> QED
          BY <2>1, <4>1, <4>2 DEF FirstAndLast
      <3>2. tpc' \notin {"none", "begin", "init"}
        BY <1>7, <2>2
      <3> QED
        BY <3>1, <3>2 DEF FirstAndLast
    <2>7. OneCommand'
      <3>1. CASE mpc' = mpc
        BY <1>7, <2>1, <3>1 DEF OneCommand, StopMsg
      <3>2. CASE mpc # "cmdwait" /\ mpc' # mpc
        BY <1>7, <3>2 DEF OneCommand, StopMsg
      <3>3. CASE mpc = "cmdwait" /\ mpc' = "ready" /\ to_main[1].type = "I"
        <4>1. SUFFICES ASSUME tpc \in Early PROVE to_thread = <<>>
          BY <1>7 DEF OneCommand
        <4>2. to_main[1].of \in Cmd \cup {"THREADINIT", "SHUTDOWN", "none"}
          BY <1>d, <2>1, MessageTypes
        <4>3. to_main[1].of \in Cmd
          BY <2>1, <3>3, <4>1, <4>2 DEF FirstAndLast
        <4> QED
          BY <2>1, <3>3, <4>1, <4>3 DEF OneCommand
      <3> QED
        BY <1>7, <3>1, <3>2, <3>3
    <2> QED
      BY <2>5, <2>6, <2>7
  <1>8. CASE NewReceives
    BY <1>7, <1>8 DEF NewReceives, NewDecides
  <1>9. CASE CmdReceives
    <2>1. Head(to_main) = to_main[1]
      BY <1>9, <1>d DEF CmdReceives
    <2> QED
      BY <1>7, <1>9, <2>1 DEF CmdReceives
  <1>10. CASE FreeReceives
    BY <1>7, <1>10 DEF FreeReceives
  <1>11. CASE worker_send_status
    <2>1. /\ UNCHANGED <<tpc, cmd, cmds, to_main>>
          /\ \/ mpc = "cmdsend" /\ mpc' = "cmdwait" /\ to_thread' = Append(to_thread, CmdMsg)
             \/ mpc = "freesend" /\ mpc' = "freewait" /\ to_thread' = Append(to_thread, StopMsg)
      BY <1>11 DEF worker_send_status, StopMsg
    <2>2. NoAnswer
      BY <2>1 DEF OneAnswer
    <2>3. tpc \in Early => to_thread = <<>>
      BY <2>1 DEF OneCommand
    <2>4. OneAnswer' /\ FirstAndLast'
      BY <2>1, <2>2 DEF OneAnswer, FirstAndLast
    <2>5. OneCommand'
      <3>1. SUFFICES ASSUME tpc \in Early
                     PROVE  \/ mpc' = "cmdwait" /\ to_thread' = <<CmdMsg>>
                            \/ mpc' = "freewait" /\ to_thread' = <<StopMsg>>
        BY <2>1, <2>2 DEF OneCommand, StopMsg
      <3>2. to_thread = <<>>
        BY <2>3, <3>1
      <3> QED
        BY <2>1, <3>2
    <2> QED
      BY <2>4, <2>5
  <1>12. CASE NewJoins \/ worker_new \/ worker_free \/ FreeTimesOut \/ FreeJoins
    <2>1. NoAnswer
      BY <1>12 DEF NewJoins, worker_new, worker_free, FreeTimesOut, FreeJoins, OneAnswer
    <2>2. UNCHANGED <<cmd, cmds, to_main, to_thread>>
      BY <1>12 DEF NewJoins, worker_new, worker_free, FreeTimesOut, FreeJoins
    <2>3. OneAnswer'
      BY <2>1, <2>2 DEF OneAnswer
    <2>4. FirstAndLast'
      BY <1>12, <2>2, <1>e
      DEF NewJoins, worker_new, worker_free, FreeTimesOut, FreeJoins, FirstAndLast
    <2>5. OneCommand'
      BY <1>12, <2>2, <1>e
      DEF NewJoins, worker_new, worker_free, FreeTimesOut, FreeJoins, OneCommand, StopMsg
    <2> QED
      BY <2>3, <2>4, <2>5
  <1>13. CASE NewTimesOut \/ CmdTimesOut
    BY <1>13, <1>a DEF NewTimesOut, CmdTimesOut, TypeOK
  <1>14. ASSUME NEW c \in Cmd, worker_main_send_status(c)
         PROVE  OneAnswer' /\ FirstAndLast' /\ OneCommand'
    <2>1. /\ mpc = "ready" /\ mpc' \in {"ready", "cmdsend"}
          /\ UNCHANGED <<tpc, to_main, to_thread>>
      BY <1>14 DEF worker_main_send_status
    <2> QED
      BY <2>1 DEF OneAnswer, FirstAndLast, OneCommand
  <1>15. CASE UNCHANGED vars
    BY <1>15 DEF vars, OneAnswer, FirstAndLast, OneCommand, StopMsg
  <1> QED
    BY <1>1, <1>2, <1>3, <1>4, <1>5, <1>6, <1>8, <1>9, <1>10, <1>11, <1>12,
       <1>13, <1>14, <1>15 DEF Next, ThreadProgress, MainProgress

LEMMA MatchStep ==
    TInv /\ AInv /\ AnswerMatches /\ [Next]_vars => AnswerMatches'
  <1> SUFFICES ASSUME TInv, AInv, AnswerMatches, [Next]_vars PROVE AnswerMatches'
    OBVIOUS
  <1>a. TypeOK /\ CmdIsSet
    BY DEF TInv
  <1> USE DEF mainVars, threadVars, AnswerMatches
  <1>1. CASE CmdReceives
    <2>1. CASE Head(to_main).type = "I" /\ Head(to_main).of = cmd /\ timeouts = 0
      <3>1. cmd \in Cmd /\ Head(to_main) = to_main[1] /\ 1 \in 1 .. Len(to_main)
        BY <1>1, <1>a DEF CmdReceives, CmdIsSet, TypeOK
      <3>2. Head(to_main).id = cmds
        BY <2>1, <3>1 DEF AInv, OneAnswer
      <3> QED
        BY <1>1, <2>1, <3>2 DEF CmdReceives
    <2>2. CASE ~(Head(to_main).type = "I" /\ Head(to_main).of = cmd)
      BY <1>1, <2>2 DEF CmdReceives, OK, FAILURE
    <2>3. CASE timeouts # 0
      BY <1>1, <2>3 DEF CmdReceives
    <2> QED
      BY <2>1, <2>2, <2>3
  <1>2. CASE CmdTimesOut \/ NewTimesOut
    BY <1>2, <1>a DEF CmdTimesOut, NewTimesOut, TypeOK
  <1>3. ASSUME NEW c \in Cmd, worker_main_send_status(c) PROVE AnswerMatches'
    BY <1>3 DEF worker_main_send_status, OK, NOT_CONNECTED
  <1>4. CASE ThreadProgress \/ ThreadForwardsData \/ ThreadHangs \/ ThreadLoopEnds
    BY <1>4 DEF ThreadProgress, ThreadStarts, ThreadInits, thread_inproc_rcv,
       ThreadDestroys, ThreadReports, ThreadCloses, ThreadClears, ThreadExits,
       ThreadCancelled, ThreadForwardsData, ThreadHangs, ThreadLoopEnds
  <1>5. CASE NewReceives \/ NewJoins \/ worker_new \/ worker_free
    BY <1>5 DEF NewReceives, NewDecides, NewJoins, worker_new, worker_free
  <1>6. CASE worker_send_status \/ FreeReceives \/ FreeTimesOut \/ FreeJoins
    BY <1>6 DEF worker_send_status, FreeReceives, FreeTimesOut, FreeJoins
  <1>7. CASE UNCHANGED vars
    BY <1>7 DEF vars
  <1> QED
    BY <1>1, <1>2, <1>3, <1>4, <1>5, <1>6, <1>7 DEF Next, MainProgress

(* As long as no wait has timed out, a command that returned OSD_OK got    *)
(* its own answer: worker_wait_for_status compares only names, but no      *)
(* other answer of that name can be on its way.                            *)
THEOREM AnswersMatch == Spec => []AnswerMatches
  <1>1. Init => AnswerMatches
    BY DEF Init, AnswerMatches, OK
  <1> QED
    BY <1>1, TInvInit, TInvStep, EInvInit, EInvStep, AInvInit, AInvStep,
       MatchStep, PTL DEF Spec
=============================================================================
