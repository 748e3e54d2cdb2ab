----------------------------- MODULE PacketList -----------------------------
(* What a packet object promises to its users: it is a mutable sequence of *)
(* words whose first three are the header, and payload views of it are     *)
(* sequences that start behind the header. Calls the sequence cannot carry *)
(* out raise an exception and change nothing. A call outside the contract  *)
(* (CallerError) has no defined outcome.                                   *)
EXTENDS Integers, Sequences, SequencesExt

CONSTANTS
    Obj,        \* packet objects
    MaxSize     \* words that fit into a packet

VARIABLES
    list,       \* the words of each object
    call        \* the last call: op, obj, other, off, i, v, n, res

Header == 3

(* Results of calls that return nothing, and of those that raise.          *)
Done == -2
Raised == -3

(* What no sequence of words can do: use an index in front of the first    *)
(* word, insert behind the end, insert something that is not a word or     *)
(* grow beyond the largest packet.                                         *)
CallerError(c) ==
    \/ c.i < 0
    \/ c.op = "insert" /\ (c.off + c.i > c.n \/ c.v < 0 \/ c.n >= MaxSize)
    \/ c.op = "combine" /\ c.n + c.v > MaxSize

InRange(c) == c.off + c.i < c.n

Init ==
    /\ list = [o \in Obj |-> <<0, 0, 0>>]
    /\ call.op = "new"

Raises(c) == c.res = Raised /\ UNCHANGED list

getitem(c) ==
    /\ c.op = "getitem"
    /\ \/ InRange(c) /\ c.res = list[c.obj][c.off + c.i + 1] /\ UNCHANGED list
       \/ ~InRange(c) /\ Raises(c)

setitem(c) ==
    /\ c.op = "setitem"
    /\ \/ /\ InRange(c) /\ c.v >= 0 /\ c.res = Done
          /\ list' = [list EXCEPT ![c.obj][c.off + c.i + 1] = c.v]
       \/ (~InRange(c) \/ c.v < 0) /\ Raises(c)

delitem(c) ==
    /\ c.op = "delitem"
    /\ \/ /\ InRange(c) /\ c.n > Header /\ c.res = Done
          /\ list' = [list EXCEPT ![c.obj] = RemoveAt(@, c.off + c.i + 1)]
       \/ (~InRange(c) \/ c.n <= Header) /\ Raises(c)

insert(c) ==
    /\ c.op = "insert" /\ c.res = Done
    /\ list' = [list EXCEPT ![c.obj] = InsertAt(@, c.off + c.i + 1, c.v)]

set_header(c) ==
    /\ c.op = "set_header" /\ c.res = Done
    /\ \E flags \in {list'[c.obj][3]} :
          list' = [list EXCEPT ![c.obj] =
                      <<c.v, c.v, flags>> \o SubSeq(@, Header + 1, Len(@))]

combine(c) ==
    /\ c.op = "combine" /\ c.res = Done
    /\ list' = [list EXCEPT ![c.obj] =
                   @ \o SubSeq(list[c.other], Header + 1, Len(list[c.other]))]

eq(c) == c.op = "eq" /\ (c.res = 1) = (list[c.obj] = list[c.other]) /\ UNCHANGED list

Undefined(c) ==
    /\ CallerError(c)
    /\ \A o \in Obj \ {c.obj} : list'[o] = list[o]

Next ==
    \/ Undefined(call')
    \/ /\ ~CallerError(call')
       /\ \/ getitem(call') \/ setitem(call') \/ delitem(call')
          \/ insert(call') \/ set_header(call') \/ combine(call') \/ eq(call')

Spec == Init /\ [][Next]_<<list, call>>
=============================================================================
