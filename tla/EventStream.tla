---------------------------- MODULE EventStream ----------------------------
(* What reassembly of event packets promises to a host module: the words a *)
(* source sends in the packets of one split event arrive as one event, in  *)
(* the order they were sent, and the events of other sources do not mix.   *)
EXTENDS Sequences

CONSTANTS Source, Word

VARIABLES
    pending,     \* per source: words of an event whose last packet is missing
    delivered    \* the events handed to the application

Init == pending = [s \in Source |-> <<>>] /\ delivered = <<>>

Continue(s, w) ==
    /\ pending' = [pending EXCEPT ![s] = Append(@, w)]
    /\ UNCHANGED delivered

Complete(s, w) ==
    /\ delivered' = Append(delivered, [src |-> s, words |-> Append(pending[s], w)])
    /\ pending' = [pending EXCEPT ![s] = <<>>]

(* An event packet that is neither an intermediate nor a last one.         *)
Single(s, w) ==
    /\ delivered' = Append(delivered, [src |-> s, words |-> <<w>>])
    /\ UNCHANGED pending

Next == \E s \in Source, w \in Word : Continue(s, w) \/ Complete(s, w) \/ Single(s, w)

Spec == Init /\ [][Next]_<<pending, delivered>>
=============================================================================
