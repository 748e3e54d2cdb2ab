------------------------------- MODULE Terminal -------------------------------
(* The pseudo-terminal for a DEM-UART (terminal.c): its owner starts and   *)
(* stops it, a thread of its own sends what is typed, character by         *)
(* character, and the I/O thread of the host module writes what the UART   *)
(* sends. The thread learns of the stop from a flag that it looks at       *)
(* between two polls.                                                      *)
EXTENDS Integers, Sequences

CONSTANTS
    BUF,            \* characters read at once: 256
    MaxTyped,       \* bound: characters typed
    MaxStarts,      \* bound: starts
    MaxTermFails    \* bound: calls that fail

ASSUME TerminalAssumption ==
    BUF \in Nat \ {0} /\ {MaxTyped, MaxStarts, MaxTermFails} \subseteq Nat

VARIABLES
    ctx,        \* the context: "new", "conn" or "freed"
    running,    \* the flag the thread looks at
    fd,         \* the pseudo-terminal is open
    thread,     \* "none", "loop", "poll", "read", "send", "ended", "joined"
    pty,        \* characters typed and not read yet
    str,        \* characters the thread still has to send
    typed, sent,    \* ghosts: characters typed, and sent to the UART
    lost,       \* ghost: characters of a string whose sending failed
    uart,       \* the module sends events to this host
    stopping,   \* owner in osd_terminal_stop(): "no", "access", "join"
    stopped,    \* ghost: result of the last stop since the start
    starts, termFails

termVars == <<ctx, running, fd, thread, pty, str, typed, sent, lost, uart, stopping,
              stopped, starts, termFails>>

Fails == termFails < MaxTermFails /\ termFails' = termFails + 1
Owner == stopping = "no" /\ ctx # "freed"
ThreadRuns == thread \in {"loop", "poll", "read", "send"}

TermTypeOK ==
    /\ ctx \in {"new", "conn", "freed"} /\ {running, fd, uart} \subseteq BOOLEAN
    /\ thread \in {"none", "loop", "poll", "read", "send", "ended", "joined"}
    /\ {pty, str, typed, sent} \subseteq Seq(1 .. MaxTyped) /\ Len(str) <= BUF
    /\ lost \subseteq 1 .. MaxTyped
    /\ stopping \in {"no", "access", "join"} /\ stopped \in {"never", "OK", "ERR"}
    /\ starts \in 0 .. MaxStarts /\ termFails \in 0 .. MaxTermFails

TermInit ==
    /\ ctx = "new" /\ running = FALSE /\ fd = FALSE /\ thread = "none"
    /\ pty = <<>> /\ str = <<>> /\ typed = <<>> /\ sent = <<>> /\ lost = {}
    /\ uart = FALSE /\ stopping = "no" /\ stopped = "never" /\ starts = 0 /\ termFails = 0

terminal_connect ==
    /\ Owner /\ ctx = "new"
    /\ \/ ctx' = "conn" /\ UNCHANGED termFails
       \/ ctx' = "new" /\ Fails
    /\ UNCHANGED <<running, fd, thread, pty, str, typed, sent, lost, uart, stopping,
                   stopped, starts>>

(* The accesses and the set-up of the pseudo-terminal fail at any point;   *)
(* when only the thread cannot be created, the flag stays set.             *)
osd_terminal_start ==
    /\ Owner /\ ctx = "conn" /\ ~running /\ thread \in {"none", "joined"}
    /\ starts < MaxStarts /\ starts' = starts + 1
    /\ stopped' = "never"
    /\ \/ /\ running' = TRUE /\ fd' = TRUE /\ thread' = "loop" /\ uart' = TRUE
          /\ pty' = <<>> /\ UNCHANGED termFails
       \/ /\ Fails /\ uart' \in {uart, TRUE} /\ UNCHANGED <<running, fd, thread, pty>>
       \/ /\ Fails /\ uart' = TRUE /\ running' = TRUE /\ UNCHANGED <<fd, thread, pty>>
    /\ UNCHANGED <<ctx, str, typed, sent, lost, stopping>>

(* The owner of a started terminal stops it: first the module, by register *)
(* accesses through the host module that the thread uses, too.             *)
osd_terminal_stop ==
    /\ Owner /\ ctx = "conn" /\ running /\ thread # "none" /\ thread # "joined"
    /\ stopping' = "access"
    /\ UNCHANGED <<ctx, running, fd, thread, pty, str, typed, sent, lost, uart, stopped,
                   starts, termFails>>

(* If the module cannot be reached, everything is left running.            *)
StopClearsFlag ==
    /\ stopping = "access"
    /\ \/ /\ uart' = FALSE /\ running' = FALSE /\ stopping' = "join"
          /\ UNCHANGED <<stopped, termFails>>
       \/ /\ Fails /\ uart' \in {uart, FALSE} /\ stopping' = "no" /\ stopped' = "ERR"
          /\ UNCHANGED running
    /\ UNCHANGED <<ctx, fd, thread, pty, str, typed, sent, lost, starts>>

(* Mutated form: the thread is not waited for.                             *)
StopJoins_notWaiting ==
    /\ stopping = "join"
    /\ fd' = FALSE /\ stopping' = "no" /\ stopped' = "OK"
    /\ UNCHANGED <<ctx, thread, running, pty, str, typed, sent, lost, uart, starts, termFails>>

StopJoins ==
    /\ stopping = "join" /\ thread = "ended"
    /\ thread' = "joined" /\ fd' = FALSE /\ stopping' = "no" /\ stopped' = "OK"
    /\ UNCHANGED <<ctx, running, pty, str, typed, sent, lost, uart, starts, termFails>>

(* The owner disconnects when it is told that nothing runs any more.       *)
terminal_disconnect ==
    /\ Owner /\ ctx = "conn" /\ ~running
    /\ \/ ctx' = "new" /\ UNCHANGED termFails
       \/ Fails /\ UNCHANGED ctx
    /\ UNCHANGED <<running, fd, thread, pty, str, typed, sent, lost, uart, stopping,
                   stopped, starts>>

terminal_free ==
    /\ Owner /\ ctx = "new" /\ ctx' = "freed"
    /\ UNCHANGED <<running, fd, thread, pty, str, typed, sent, lost, uart, stopping,
                   stopped, starts, termFails>>
-----------------------------------------------------------------------------
(* The user types on the pseudo-terminal.                                  *)
Type ==
    /\ fd /\ Len(typed) < MaxTyped
    /\ typed' = Append(typed, Len(typed) + 1) /\ pty' = Append(pty, Len(typed) + 1)
    /\ UNCHANGED <<ctx, running, fd, thread, str, sent, lost, uart, stopping, stopped,
                   starts, termFails>>

(* terminal_tx_thread(): while the flag is set, wait for input.            *)
TxLoop ==
    /\ thread = "loop" /\ thread' = IF running THEN "poll" ELSE "ended"
    /\ UNCHANGED <<ctx, running, fd, pty, str, typed, sent, lost, uart, stopping, stopped,
                   starts, termFails>>

(* Input, a timeout without input, or an error that ends the thread.       *)
TxPoll ==
    /\ thread = "poll"
    /\ \/ pty # <<>> /\ thread' = "read" /\ UNCHANGED termFails
       \/ pty = <<>> /\ thread' = "loop" /\ UNCHANGED termFails
       \/ Fails /\ thread' = "ended"
    /\ UNCHANGED <<ctx, running, fd, pty, str, typed, sent, lost, uart, stopping, stopped,
                   starts>>

TxRead ==
    /\ thread = "read"
    /\ \/ \E n \in 1 .. (IF Len(pty) < BUF THEN Len(pty) ELSE BUF) :
             /\ str' = SubSeq(pty, 1, n) /\ pty' = SubSeq(pty, n + 1, Len(pty))
             /\ thread' = "send" /\ UNCHANGED termFails
       \/ Fails /\ thread' = "loop" /\ UNCHANGED <<str, pty>>
    /\ UNCHANGED <<ctx, running, fd, typed, sent, lost, uart, stopping, stopped, starts>>

(* One event per character; the rest of a string is given up with the      *)
(* first one that cannot be sent.                                          *)
osd_cl_dem_uart_send_string ==
    /\ thread = "send"
    /\ \/ /\ ctx = "conn" /\ sent' = Append(sent, Head(str)) /\ str' = Tail(str)
          /\ thread' = IF Len(str) = 1 THEN "loop" ELSE "send"
          /\ UNCHANGED <<lost, termFails>>
       \/ /\ Fails /\ lost' = lost \cup {str[i] : i \in DOMAIN str} /\ str' = <<>>
          /\ thread' = "loop" /\ UNCHANGED sent
    /\ UNCHANGED <<ctx, running, fd, pty, typed, uart, stopping, stopped, starts>>

TxStep == TxLoop \/ TxPoll \/ TxRead \/ osd_cl_dem_uart_send_string
StopStep == StopClearsFlag \/ StopJoins

TermNext ==
    \/ terminal_connect \/ osd_terminal_start \/ osd_terminal_stop \/ StopStep
    \/ terminal_disconnect \/ terminal_free \/ Type \/ TxStep

TermSpec == TermInit /\ [][TermNext]_termVars
TermFairSpec == TermSpec /\ WF_termVars(TxStep) /\ WF_termVars(StopStep)
-----------------------------------------------------------------------------
(* What is typed is sent in its order and once; it is only left out if its *)
(* sending failed, or if the terminal was stopped before it was read.      *)
TypedIsSent ==
    /\ \A i, j \in DOMAIN sent : i < j => sent[i] < sent[j]
    /\ \A c \in 1 .. Len(typed) :
          \/ \E i \in DOMAIN sent : sent[i] = c
          \/ \E i \in DOMAIN str : str[i] = c
          \/ \E i \in DOMAIN pty : pty[i] = c
          \/ c \in lost \/ starts > 1

(* A stop that succeeded leaves no thread and no pseudo-terminal behind,   *)
(* whatever was being sent when it was called; and as long as the thread   *)
(* runs, what it works on is there.                                        *)
StopIsClean ==
    /\ stopped = "OK" /\ ~running => ~ThreadRuns /\ ~fd /\ str = <<>>
    /\ ThreadRuns => fd /\ ctx = "conn"

(* The terminal passes on what is typed, and a stop of it is a clean one.  *)
TerminalIsClean == TermTypeOK /\ TypedIsSent /\ StopIsClean

(* A stop returns: the thread sees the flag, since its poll times out.     *)
StopReturns == stopping # "no" ~> stopping = "no"
=============================================================================
