--------------------------- MODULE HostModProofs ---------------------------
(***************************************************************************)
(* Theorems about the host module, for every set of debug modules and      *)
(* every number of connects, accesses, events and timeouts.                *)
(***************************************************************************)
EXTENDS HostMod, TLAPS

-----------------------------------------------------------------------------
(* Queues, seen through the set of messages that matter.                   *)

None(q, S)      == \A i \in 1 .. Len(q) : q[i] \notin S
AtMostOne(q, S) == \A i, j \in 1 .. Len(q) : q[i] \in S /\ q[j] \in S => i = j
LastIn(q, S)    == q # <<>> /\ q[Len(q)] \in S

(* No message of B is behind one of A.                                     *)
NoneAfter(q, A, B) ==
    \A i, j \in 1 .. Len(q) : i < j /\ q[i] \in A => q[j] \notin B

(* Every message of A has one of B behind it.                              *)
Followed(q, A, B) ==
    \A i \in 1 .. Len(q) : q[i] \in A => \E j \in i + 1 .. Len(q) : q[j] \in B

(* There is a message of A, and no message of B in front of it.            *)
Leads(q, A, B) ==
    \E j \in 1 .. Len(q) : q[j] \in A /\ \A i \in 1 .. j - 1 : q[i] \notin B

LEMMA QueueAppend ==
    ASSUME NEW T, NEW q \in Seq(T), NEW x \in T
    PROVE  /\ Append(q, x) \in Seq(T) /\ Append(q, x) # <<>>
           /\ Len(Append(q, x)) = Len(q) + 1
           /\ Append(q, x)[Len(q) + 1] = x
           /\ \A i \in 1 .. Len(q) : Append(q, x)[i] = q[i]
  OBVIOUS

LEMMA QueueTail ==
    ASSUME NEW T, NEW q \in Seq(T), q # <<>>
    PROVE  /\ Tail(q) \in Seq(T) /\ Head(q) \in T /\ Head(q) = q[1]
           /\ Len(q) \in Nat /\ Len(q) >= 1 /\ Len(Tail(q)) = Len(q) - 1
           /\ \A i \in 1 .. Len(q) - 1 : Tail(q)[i] = q[i + 1]
  OBVIOUS

LEMMA EmptyQueue ==
    ASSUME NEW S
    PROVE  None(<<>>, S) /\ AtMostOne(<<>>, S)
  BY DEF None, AtMostOne

LEMMA NoneAppend ==
    ASSUME NEW T, NEW q \in Seq(T), NEW x \in T, NEW S
    PROVE  /\ None(Append(q, x), S) <=> None(q, S) /\ x \notin S
           /\ AtMostOne(Append(q, x), S)
                <=> AtMostOne(q, S) /\ (x \in S => None(q, S))
           /\ LastIn(Append(q, x), S) <=> x \in S
  <1> DEFINE p == Append(q, x)
  <1>0. /\ p # <<>> /\ Len(p) = Len(q) + 1 /\ p[Len(q) + 1] = x
        /\ \A i \in 1 .. Len(q) : p[i] = q[i]
    BY QueueAppend
  <1>1. Len(q) \in Nat
    OBVIOUS
  <1> HIDE DEF p
  <1>2. None(p, S) <=> None(q, S) /\ x \notin S
    BY <1>0, <1>1 DEF None
  <1>3. AtMostOne(p, S) <=> AtMostOne(q, S) /\ (x \in S => None(q, S))
    <2>1. ASSUME AtMostOne(p, S) PROVE AtMostOne(q, S) /\ (x \in S => None(q, S))
      BY <1>0, <1>1, <2>1 DEF AtMostOne, None
    <2>2. ASSUME AtMostOne(q, S), x \in S => None(q, S) PROVE AtMostOne(p, S)
      BY <1>0, <1>1, <2>2 DEF AtMostOne, None
    <2> QED BY <2>1, <2>2
  <1>4. LastIn(p, S) <=> x \in S
    BY <1>0, <1>1 DEF LastIn
  <1> QED BY <1>2, <1>3, <1>4 DEF p

LEMMA NoneTail ==
    ASSUME NEW T, NEW q \in Seq(T), q # <<>>, NEW S
    PROVE  /\ None(q, S) <=> Head(q) \notin S /\ None(Tail(q), S)
           /\ AtMostOne(q, S)
                <=> AtMostOne(Tail(q), S) /\ (Head(q) \in S => None(Tail(q), S))
           /\ LastIn(q, S)
                <=> IF Tail(q) = <<>> THEN Head(q) \in S ELSE LastIn(Tail(q), S)
  <1> DEFINE p == Tail(q)
             h == Head(q)
  <1>0. /\ Len(q) \in Nat /\ Len(q) >= 1 /\ Len(p) = Len(q) - 1 /\ q[1] = h
        /\ \A i \in 1 .. Len(q) - 1 : p[i] = q[i + 1]
    BY QueueTail
  <1>1. (p = <<>> <=> Len(q) = 1)
    BY <1>0
  <1> HIDE DEF p, h
  <1>a. \A i \in 1 .. Len(q) : i = 1 \/ (i - 1 \in 1 .. Len(p) /\ q[i] = p[i - 1])
    BY <1>0
  <1>b. \A i \in 1 .. Len(p) : i + 1 \in 1 .. Len(q) /\ p[i] = q[i + 1]
    BY <1>0
  <1>2. None(q, S) <=> h \notin S /\ None(p, S)
    <2>1. ASSUME None(q, S) PROVE h \notin S /\ None(p, S)
      BY <1>0, <1>b, <2>1 DEF None
    <2>2. ASSUME h \notin S, None(p, S) PROVE None(q, S)
      BY <1>0, <1>a, <2>2 DEF None
    <2> QED BY <2>1, <2>2
  <1>3. AtMostOne(q, S) <=> AtMostOne(p, S) /\ (h \in S => None(p, S))
    <2>1. ASSUME AtMostOne(q, S) PROVE AtMostOne(p, S)
      <3> SUFFICES ASSUME NEW i \in 1 .. Len(p), NEW j \in 1 .. Len(p),
                          p[i] \in S, p[j] \in S
                   PROVE  i = j
        BY DEF AtMostOne
      <3>1. i + 1 = j + 1
        BY <1>b, <2>1 DEF AtMostOne
      <3> QED BY <1>0, <3>1
    <2>2. ASSUME AtMostOne(q, S), h \in S PROVE None(p, S)
      <3> SUFFICES ASSUME NEW i \in 1 .. Len(p), p[i] \in S PROVE FALSE
        BY DEF None
      <3>1. i + 1 = 1
        BY <1>0, <1>b, <2>2 DEF AtMostOne
      <3> QED BY <1>0, <3>1
    <2>3. ASSUME AtMostOne(p, S), h \in S => None(p, S) PROVE AtMostOne(q, S)
      <3> SUFFICES ASSUME NEW i \in 1 .. Len(q), NEW j \in 1 .. Len(q),
                          q[i] \in S, q[j] \in S
                   PROVE  i = j
        BY DEF AtMostOne
      <3>1. CASE i = 1 \/ j = 1
        BY <1>0, <1>a, <2>3, <3>1 DEF None
      <3>2. CASE i # 1 /\ j # 1
        <4>1. i - 1 = j - 1
          BY <1>a, <2>3, <3>2 DEF AtMostOne
        <4> QED BY <4>1
      <3> QED BY <3>1, <3>2
    <2> QED BY <2>1, <2>2, <2>3
  <1>4. LastIn(q, S) <=> IF p = <<>> THEN h \in S ELSE LastIn(p, S)
    <2>1. q[Len(q)] = IF p = <<>> THEN h ELSE p[Len(p)]
      BY <1>0, <1>1
    <2> QED BY <2>1 DEF LastIn
  <1> QED BY <1>2, <1>3, <1>4 DEF p, h

LEMMA NoneMonotone ==
    ASSUME NEW q, NEW S, NEW R, R \subseteq S
    PROVE  /\ None(q, S) => None(q, R)
           /\ AtMostOne(q, S) => AtMostOne(q, R)
           /\ None(q, S) => AtMostOne(q, S)
           /\ None(q, S \ R) /\ None(q, R) => None(q, S)
  BY DEF None, AtMostOne

LEMMA NoneDisjoint ==
    ASSUME NEW T, NEW q \in Seq(T), NEW S, S \cap T = {}
    PROVE  None(q, S)
  BY DEF None

LEMMA OrderAppend ==
    ASSUME NEW T, NEW q \in Seq(T), NEW x \in T, NEW A, NEW B
    PROVE  /\ NoneAfter(q, A, B) /\ (x \in B => None(q, A))
                => NoneAfter(Append(q, x), A, B)
           /\ Leads(q, A, B) => Leads(Append(q, x), A, B)
           /\ x \in B /\ x \notin A => Followed(Append(q, x), A, B)
           /\ Followed(q, A, B) /\ x \notin A => Followed(Append(q, x), A, B)
  <1> DEFINE p == Append(q, x)
  <1>0. /\ p # <<>> /\ Len(p) = Len(q) + 1 /\ p[Len(q) + 1] = x
        /\ \A i \in 1 .. Len(q) : p[i] = q[i]
    BY QueueAppend
  <1>1. Len(q) \in Nat
    OBVIOUS
  <1> HIDE DEF p
  <1>2. ASSUME NoneAfter(q, A, B), x \in B => None(q, A) PROVE NoneAfter(p, A, B)
    BY <1>0, <1>1, <1>2 DEF NoneAfter, None
  <1>3. ASSUME Leads(q, A, B) PROVE Leads(p, A, B)
    <2>1. PICK j \in 1 .. Len(q) : q[j] \in A /\ \A i \in 1 .. j - 1 : q[i] \notin B
      BY <1>3 DEF Leads
    <2>2. j \in 1 .. Len(p) /\ p[j] \in A /\ \A i \in 1 .. j - 1 : p[i] \notin B
      BY <1>0, <1>1, <2>1
    <2> QED BY <2>2 DEF Leads
  <1>4. ASSUME x \in B, x \notin A PROVE Followed(p, A, B)
    <2> SUFFICES ASSUME NEW i \in 1 .. Len(p), p[i] \in A
                 PROVE  \E j \in i + 1 .. Len(p) : p[j] \in B
      BY DEF Followed
    <2>1. Len(p) \in i + 1 .. Len(p) /\ p[Len(p)] \in B
      BY <1>0, <1>1, <1>4
    <2> QED BY <2>1
  <1>5. ASSUME Followed(q, A, B), x \notin A PROVE Followed(p, A, B)
    <2> SUFFICES ASSUME NEW i \in 1 .. Len(p), p[i] \in A
                 PROVE  \E j \in i + 1 .. Len(p) : p[j] \in B
      BY DEF Followed
    <2>1. i \in 1 .. Len(q) /\ q[i] \in A
      BY <1>0, <1>1, <1>5
    <2>2. PICK j \in i + 1 .. Len(q) : q[j] \in B
      BY <1>5, <2>1 DEF Followed
    <2>3. j \in i + 1 .. Len(p) /\ p[j] \in B
      BY <1>0, <1>1, <2>1, <2>2
    <2> QED BY <2>3
  <1> QED BY <1>2, <1>3, <1>4, <1>5 DEF p

LEMMA OrderTail ==
    ASSUME NEW T, NEW q \in Seq(T), q # <<>>, NEW A, NEW B
    PROVE  /\ NoneAfter(q, A, B)
                => NoneAfter(Tail(q), A, B) /\ (Head(q) \in A => None(Tail(q), B))
           /\ Leads(q, A, B) /\ Head(q) \notin A
                => Leads(Tail(q), A, B) /\ Head(q) \notin B
           /\ Followed(q, A, B)
                => Followed(Tail(q), A, B) /\ (Head(q) \in A => ~None(Tail(q), B))
  <1> DEFINE p == Tail(q)
             h == Head(q)
  <1>0. /\ Len(q) \in Nat /\ Len(q) >= 1 /\ Len(p) = Len(q) - 1 /\ q[1] = h
        /\ \A i \in 1 .. Len(q) - 1 : p[i] = q[i + 1]
    BY QueueTail
  <1> HIDE DEF p, h
  <1>b. \A i \in 1 .. Len(p) : i + 1 \in 1 .. Len(q) /\ p[i] = q[i + 1]
    BY <1>0
  <1>2. ASSUME NoneAfter(q, A, B)
        PROVE  NoneAfter(p, A, B) /\ (h \in A => None(p, B))
    <2>1. NoneAfter(p, A, B)
      <3> SUFFICES ASSUME NEW i \in 1 .. Len(p), NEW j \in 1 .. Len(p),
                          i < j, p[i] \in A
                   PROVE  p[j] \notin B
        BY DEF NoneAfter
      <3>1. i + 1 < j + 1
        BY <1>0
      <3> QED BY <1>b, <1>2, <3>1 DEF NoneAfter
    <2>2. ASSUME h \in A PROVE None(p, B)
      <3> SUFFICES ASSUME NEW j \in 1 .. Len(p) PROVE p[j] \notin B
        BY DEF None
      <3>1. 1 < j + 1 /\ 1 \in 1 .. Len(q)
        BY <1>0
      <3> QED BY <1>0, <1>b, <1>2, <2>2, <3>1 DEF NoneAfter
    <2> QED BY <2>1, <2>2
  <1>3. ASSUME Leads(q, A, B), h \notin A PROVE Leads(p, A, B) /\ h \notin B
    <2>1. PICK j \in 1 .. Len(q) : q[j] \in A /\ \A i \in 1 .. j - 1 : q[i] \notin B
      BY <1>3 DEF Leads
    <2>2. j # 1
      BY <1>0, <1>3, <2>1
    <2>3. j - 1 \in 1 .. Len(p) /\ p[j - 1] = q[j]
      BY <1>0, <2>2
    <2>4. \A i \in 1 .. j - 2 : p[i] \notin B
      <3> SUFFICES ASSUME NEW i \in 1 .. j - 2 PROVE p[i] \notin B
        OBVIOUS
      <3>1. i + 1 \in 1 .. j - 1 /\ i \in 1 .. Len(p)
        BY <1>0
      <3> QED BY <1>b, <2>1, <3>1
    <2>5. h \notin B
      BY <1>0, <2>1, <2>2
    <2>6. j - 1 - 1 = j - 2
      OBVIOUS
    <2> QED BY <2>1, <2>3, <2>4, <2>5, <2>6 DEF Leads
  <1>4. ASSUME Followed(q, A, B)
        PROVE  Followed(p, A, B) /\ (h \in A => ~None(p, B))
    <2>1. ASSUME NEW i \in 1 .. Len(q), q[i] \in A
          PROVE  \E j \in i .. Len(p) : p[j] \in B
      <3>1. PICK j \in i + 1 .. Len(q) : q[j] \in B
        BY <1>4, <2>1 DEF Followed
      <3>2. j - 1 \in i .. Len(p) /\ p[j - 1] = q[j]
        BY <1>0
      <3> QED BY <3>1, <3>2
    <2>2. Followed(p, A, B)
      <3> SUFFICES ASSUME NEW i \in 1 .. Len(p), p[i] \in A
                   PROVE  \E j \in i + 1 .. Len(p) : p[j] \in B
        BY DEF Followed
      <3> QED BY <1>b, <2>1
    <2>3. ASSUME h \in A PROVE ~None(p, B)
      <3>1. 1 \in 1 .. Len(q)
        BY <1>0
      <3>2. PICK j \in 1 .. Len(p) : p[j] \in B
        BY <1>0, <2>1, <2>3, <3>1
      <3> QED BY <3>2 DEF None
    <2> QED BY <2>2, <2>3
  <1> QED BY <1>2, <1>3, <1>4 DEF p, h

LEMMA Leading ==
    ASSUME NEW q, NEW A, NEW B, ~None(q, A), None(q, B), Len(q) \in Nat
    PROVE  Leads(q, A, B)
  <1>1. PICK j \in 1 .. Len(q) : q[j] \in A
    BY DEF None
  <1>2. \A i \in 1 .. j - 1 : q[i] \notin B
    BY DEF None
  <1> QED BY <1>1, <1>2 DEF Leads
-----------------------------------------------------------------------------
(* Messages and types.                                                     *)

IoMsg == ToIo \cup RegReq \cup {EventPkt}

(* The commands, and what a status message or a packet of the I/O thread   *)
(* is about.                                                               *)
ConnectCmd    == {Cmd("I-CONNECT")}
DisconnectCmd == {Cmd("I-DISCONNECT")}
ShutdownCmd   == {Cmd("I-SHUTDOWN")}
Connected     == {m \in ToMain : m.name = "I-CONNECT-DONE" /\ m.value # -1}
NotConnected  == {ConnectDone(-1)}
Answered      == Connected \cup NotConnected
Disconnected  == {[name |-> "I-DISCONNECT-DONE", value |-> 0]}
RegPkt        == [name : {"D"}, pkt : RegResp]
EvPkt         == [name : {"D"}, pkt : {EventPkt}]

LEMMA IoMessages ==
    /\ \A c \in {"I-CONNECT", "I-DISCONNECT", "I-SHUTDOWN"} : Cmd(c) \in IoMsg
    /\ EventPkt \in IoMsg /\ RegReq \subseteq IoMsg
    /\ \A m \in IoMsg :
          /\ m \in ConnectCmd <=> m.type = "I-CONNECT"
          /\ m \in DisconnectCmd <=> m.type = "I-DISCONNECT"
          /\ m \in ShutdownCmd <=> m.type = "I-SHUTDOWN"
          /\ m \in RegReq <=> m.type = "REG"
          /\ m = EventPkt <=> m.type = "EVENT"
    /\ \A c \in {"I-CONNECT", "I-DISCONNECT", "I-SHUTDOWN"} : Cmd(c).type = c
    /\ EventPkt.type = "EVENT"
  BY DEF IoMsg, ToIo, Cmd, EventPkt, RegReq, ConnectCmd, DisconnectCmd, ShutdownCmd

LEMMA MainMessages ==
    /\ \A s \in Session \cup {-1} : ConnectDone(s) \in ToMain
    /\ \A s \in Session : ConnectDone(s) \in Connected
    /\ [name |-> "I-DISCONNECT-DONE", value |-> 0] \in ToMain
    /\ RegPkt \subseteq ToMain /\ EvPkt \subseteq ToMain
    /\ \A m \in ToMain :
          /\ m \in Answered <=> m.name = "I-CONNECT-DONE"
          /\ m \in Disconnected <=> m.name = "I-DISCONNECT-DONE"
          /\ m \in RegPkt \cup EvPkt <=> m.name = "D"
          /\ m \in RegPkt <=> m.name = "D" /\ m.pkt.type = "REG"
          /\ m \in Answered => m.value \in Session \cup {-1} /\ m = ConnectDone(m.value)
          /\ m \in Connected <=> m \in Answered /\ m.value \in Session
          /\ m \in RegPkt => m.pkt \in RegResp
  <1>1. -1 \notin Session /\ 0 # -1
    BY HostModAssumption DEF Session
  <1>2. \A s \in Session \cup {-1} :
           /\ ConnectDone(s) \in ToMain
           /\ ConnectDone(s).name = "I-CONNECT-DONE" /\ ConnectDone(s).value = s
    BY DEF ConnectDone, ToMain
  <1>3. \A r \in RegResp : r.type = "REG"
    BY DEF RegResp
  <1>4. EventPkt.type = "EVENT"
    BY DEF EventPkt
  <1>5. \A m \in ToMain :
          /\ m.name \in {"I-CONNECT-DONE", "I-DISCONNECT-DONE", "D"}
          /\ m.name = "I-CONNECT-DONE" =>
                m.value \in Session \cup {-1} /\ m = ConnectDone(m.value)
          /\ m.name = "I-DISCONNECT-DONE" =>
                m = [name |-> "I-DISCONNECT-DONE", value |-> 0]
          /\ m.name = "D" => m \in [name : {"D"}, pkt : RegResp \cup {EventPkt}]
    BY DEF ConnectDone, ToMain
  <1>6. \A m \in [name : {"D"}, pkt : RegResp \cup {EventPkt}] :
          /\ m \in RegPkt \/ m \in EvPkt
          /\ m \in RegPkt <=> m.pkt.type = "REG"
    BY <1>3, <1>4 DEF RegPkt, EvPkt
  <1>7. RegPkt \cup EvPkt \subseteq [name : {"D"}, pkt : RegResp \cup {EventPkt}]
    BY DEF RegPkt, EvPkt
  <1>8. \A m \in RegPkt \cup EvPkt : m.name = "D" /\ m \in ToMain
    BY <1>7 DEF ToMain
  <1>9. [name |-> "I-DISCONNECT-DONE", value |-> 0] \in ToMain
    BY DEF ToMain
  <1>10. \A m \in RegPkt : m.pkt \in RegResp
    BY DEF RegPkt
  <1> QED
    BY <1>1, <1>2, <1>5, <1>6, <1>8, <1>9, <1>10
       DEF Connected, NotConnected, Answered, Disconnected

FromMsg == RegResp \cup {EventPkt} \cup {Addr(s) : s \in Session}

(* Beside TypeOK: which calls the main thread makes while it is connected, *)
(* that it then has an address, and that the second access of              *)
(* osd_hostmod_reg_setbit stays within the bound.                          *)
CallShape ==
    /\ mpc = "reg" /\ then => accesses < MaxAccesses
    /\ mpc \in {"reg", "event", "disconnect"} => is_connected
    /\ mpc \in {"connect", "free"} => ~is_connected
    /\ is_connected => diaddr # 0

Types == TypeOK /\ CallShape /\ fromctrl \in [Session -> Seq(FromMsg)]

(* The types of the Boolean variables, of the queues, and of the rest.     *)
BoolOK == lost \in BOOLEAN /\ is_connected \in BOOLEAN /\ then \in BOOLEAN
QueueOK ==
    /\ to_io \in Seq(IoMsg) /\ to_main \in Seq(ToMain)
    /\ toctrl \in [Session -> Seq(RegReq \cup {EventPkt, DiaddrReq})]
    /\ fromctrl \in [Session -> Seq(FromMsg)]
    /\ \A s \in Session : fromctrl[s] \in Seq(RegResp \cup {EventPkt, Addr(s)})
    /\ atmods \subseteq RegReq
CallOK ==
    /\ has_handler \in Handlers /\ diaddr \in Session \cup {0}
    /\ mpc \in {"idle", "connect", "disconnect", "reg", "event", "free"}
    /\ op \in RegOp /\ mod \in Module
    /\ accesses \in Access \cup {0}
    /\ last \in [rv : Result, id : Access \cup {0}, got : Access \cup {0},
                late : BOOLEAN]
    /\ timeouts \in Nat /\ alltimeouts \in Nat /\ statustimeouts \in Nat
    /\ events \in Nat
IoOK ==
    /\ iopc \in {"loop", "obtain", "ended"}
    /\ sock \in Session \cup {0} /\ readers \subseteq Session
    /\ sessions \in Session \cup {0}
    /\ abort \in AbortReason

LEMMA TypeParts == Types <=> BoolOK /\ QueueOK /\ CallOK /\ CallShape /\ IoOK
  BY DEF Types, TypeOK, BoolOK, QueueOK, CallOK, IoOK, IoMsg

LEMMA TypePartsPrimed ==
    BoolOK' /\ QueueOK' /\ CallOK' /\ CallShape' /\ IoOK' => Types'
  BY DEF Types, TypeOK, BoolOK, QueueOK, CallOK, IoOK, IoMsg

(* The steps of the two threads and of their environment.                  *)
MainSteps == MainCalls \/ MainReturns \/ StatusTimesOut \/ PacketTimesOut
IoSteps   == IoNext \/ ObtainTimesOut \/ IoReads
EnvSteps  == EnvNext \/ \E s \in Session : ModuleSendsEvent(s)

LEMMA Steps == Next <=> MainSteps \/ IoSteps \/ EnvSteps
  BY DEF Next, MainSteps, IoSteps, EnvSteps

LEMMA InitTypes == Init => Types
  <1> SUFFICES ASSUME Init PROVE Types
    OBVIOUS
  <1> USE DEF Init
  <1>1. BoolOK
    BY DEF BoolOK
  <1>2. QueueOK
    <2>1. \A S : <<>> \in Seq(S)
      OBVIOUS
    <2> QED BY <2>1 DEF QueueOK
  <1>3. CallOK /\ CallShape
    <2>1. mod \in Module
      BY HostModAssumption
    <2> QED BY <2>1 DEF CallOK, CallShape, RegOp, Result
  <1>4. IoOK
    BY DEF IoOK, AbortReason
  <1> QED BY <1>1, <1>2, <1>3, <1>4, TypeParts

(* osd_hostmod_regaccess sends a request of the right type.                *)
LEMMA RequestType ==
    ASSUME Types, is_connected, accesses < MaxAccesses,
           NEW m \in Module, NEW o \in RegOp, SendRequest(m, o)
    PROVE  /\ accesses' \in Access /\ accesses' = accesses + 1
           /\ op' \in RegOp /\ mod' \in Module
           /\ to_io' \in Seq(IoMsg)
           /\ \E r \in RegReq : /\ to_io' = Append(to_io, r)
                                /\ r.src = diaddr /\ r.id = accesses + 1
  <1>0. QueueOK /\ CallOK /\ CallShape
    BY TypeParts
  <1>1. accesses + 1 \in Access /\ diaddr \in Session
    BY <1>0, HostModAssumption DEF CallOK, CallShape, Access
  <1> DEFINE r == [type |-> "REG", op |-> o, mod |-> m, src |-> diaddr,
                   id |-> accesses + 1]
  <1>2. r \in RegReq /\ r.src = diaddr /\ r.id = accesses + 1
    BY <1>1 DEF RegReq
  <1>3. to_io' = Append(to_io, r) /\ accesses' = accesses + 1 /\ op' = o /\ mod' = m
    BY DEF SendRequest
  <1> HIDE DEF r
  <1>4. Append(to_io, r) \in Seq(IoMsg)
    BY <1>0, <1>2, IoMessages, QueueAppend DEF QueueOK
  <1> QED BY <1>1, <1>2, <1>3, <1>4

(* The main thread waits in a call until it returns.                       *)
LEMMA MainCallTypes ==
    ASSUME Types PROVE MainCalls => Types'
  <1>0. BoolOK /\ QueueOK /\ CallOK /\ CallShape /\ IoOK
    BY TypeParts
  <1> USE DEF ioVars, envVars, fixVars
  <1>1. ASSUME NEW c \in {"I-CONNECT", "I-DISCONNECT", "I-SHUTDOWN"},
               to_io' = Append(to_io, Cmd(c)),
               mpc' \in {"connect", "disconnect", "free"},
               mpc' = "disconnect" <=> is_connected,
               UNCHANGED <<is_connected, diaddr, then, op, mod, accesses, last,
                           timeouts, alltimeouts, statustimeouts, events, to_main,
                           ioVars, abort, envVars>>
        PROVE  Types'
    <2>1. BoolOK'
      BY <1>0, <1>1 DEF BoolOK
    <2>2. QueueOK'
      <3>1. Append(to_io, Cmd(c)) \in Seq(IoMsg)
        BY <1>0, IoMessages, QueueAppend DEF QueueOK
      <3> QED BY <1>0, <1>1, <3>1 DEF QueueOK
    <2>3. CallOK' /\ CallShape'
      BY <1>0, <1>1 DEF CallOK, CallShape
    <2>4. IoOK'
      BY <1>0, <1>1 DEF IoOK
    <2> QED BY <2>1, <2>2, <2>3, <2>4, TypePartsPrimed
  <1>2. ASSUME osd_hostmod_connect PROVE Types'
    BY <1>1, <1>2 DEF osd_hostmod_connect
  <1>3. ASSUME osd_hostmod_disconnect PROVE Types'
    BY <1>1, <1>3 DEF osd_hostmod_disconnect
  <1>4. ASSUME osd_hostmod_free PROVE Types'
    BY <1>1, <1>4 DEF osd_hostmod_free
  <1>5. ASSUME NEW m \in Module, NEW o \in RegOp,
               osd_hostmod_reg(m, o) \/ osd_hostmod_reg_setbit(m)
        PROVE  Types'
    <2>0. /\ UNCHANGED <<is_connected, diaddr, last, timeouts, alltimeouts,
                         statustimeouts, events, to_main, ioVars, abort, envVars>>
          /\ mpc' = "reg" /\ is_connected
      BY <1>5 DEF osd_hostmod_reg, osd_hostmod_reg_setbit
    <2>1. then' \in BOOLEAN /\ accesses < MaxAccesses
      <3>1. then' \in BOOLEAN
        BY <1>5 DEF osd_hostmod_reg, osd_hostmod_reg_setbit
      <3>2. accesses < MaxAccesses \/ accesses + 1 < MaxAccesses
        BY <1>5 DEF osd_hostmod_reg, osd_hostmod_reg_setbit
      <3>3. accesses < MaxAccesses
        BY <1>0, <3>2, HostModAssumption DEF CallOK, Access
      <3> QED BY <3>1, <3>3
    <2>a. SendRequest(m, o) \/ SendRequest(m, "read16")
      BY <1>5 DEF osd_hostmod_reg, osd_hostmod_reg_setbit
    <2>2. /\ to_io' \in Seq(IoMsg) /\ accesses' \in Access
          /\ op' \in RegOp /\ mod' \in Module /\ accesses' = accesses + 1
      <3>1. "read16" \in RegOp
        BY DEF RegOp
      <3>2. CASE SendRequest(m, o)
        BY <2>0, <2>1, <3>2, RequestType
      <3>3. CASE SendRequest(m, "read16")
        BY <2>0, <2>1, <3>1, <3>3, RequestType
      <3> QED BY <2>a, <3>2, <3>3
    <2>3. then' => accesses + 1 < MaxAccesses
      BY <1>5 DEF osd_hostmod_reg, osd_hostmod_reg_setbit
    <2>4. BoolOK'
      BY <1>0, <2>0, <2>1 DEF BoolOK
    <2>5. QueueOK'
      BY <1>0, <2>0, <2>2 DEF QueueOK
    <2>6. CallOK' /\ CallShape'
      BY <1>0, <2>0, <2>2, <2>3 DEF CallOK, CallShape
    <2>7. IoOK'
      BY <1>0, <2>0 DEF IoOK
    <2> QED BY <2>4, <2>5, <2>6, <2>7, TypePartsPrimed
  <1>6. ASSUME osd_hostmod_event_send PROVE Types'
    <2>0. /\ UNCHANGED <<mainVars, to_main, ioVars, abort, envVars>>
          /\ events' = events + 1 /\ to_io' = Append(to_io, EventPkt)
      BY <1>6 DEF osd_hostmod_event_send
    <2>1. Append(to_io, EventPkt) \in Seq(IoMsg)
      BY <1>0, IoMessages, QueueAppend DEF QueueOK
    <2>2. BoolOK'
      BY <1>0, <2>0 DEF BoolOK, mainVars
    <2>3. QueueOK'
      BY <1>0, <2>0, <2>1 DEF QueueOK
    <2>4. CallOK' /\ CallShape'
      BY <1>0, <2>0 DEF CallOK, CallShape, mainVars
    <2>5. IoOK'
      BY <1>0, <2>0 DEF IoOK
    <2> QED BY <2>2, <2>3, <2>4, <2>5, TypePartsPrimed
  <1>7. ASSUME osd_hostmod_event_receive PROVE Types'
    <2>2. BoolOK'
      BY <1>0, <1>7 DEF BoolOK, osd_hostmod_event_receive
    <2>3. QueueOK'
      BY <1>0, <1>7 DEF QueueOK, osd_hostmod_event_receive
    <2>4. CallOK' /\ CallShape'
      BY <1>0, <1>7 DEF CallOK, CallShape, osd_hostmod_event_receive
    <2>5. IoOK'
      BY <1>0, <1>7 DEF IoOK, osd_hostmod_event_receive
    <2> QED BY <2>2, <2>3, <2>4, <2>5, TypePartsPrimed
  <1>8. "read16" \in RegOp
    BY DEF RegOp
  <1>9. ASSUME NEW m \in Module, osd_hostmod_reg_setbit(m) PROVE Types'
    BY <1>5, <1>8, <1>9
  <1> QED BY <1>2, <1>3, <1>4, <1>5, <1>6, <1>7, <1>9 DEF MainCalls

(* What is taken from to_main is a message of the I/O thread.              *)
LEMMA MainTakes ==
    ASSUME QueueOK, to_main # <<>>
    PROVE  /\ Head(to_main) \in ToMain /\ Tail(to_main) \in Seq(ToMain)
           /\ Head(to_main).name = "I-CONNECT-DONE" =>
                 Head(to_main).value \in Session \cup {-1}
           /\ Head(to_main).name = "D" /\ Head(to_main).pkt.type = "REG" =>
                 Head(to_main).pkt \in RegResp
  <1>1. Head(to_main) \in ToMain /\ Tail(to_main) \in Seq(ToMain)
    BY QueueTail DEF QueueOK
  <1> QED BY <1>1, MainMessages

LEMMA MainReturnTypes ==
    ASSUME Types PROVE MainReturns => Types'
  <1>0. BoolOK /\ QueueOK /\ CallOK /\ CallShape /\ IoOK
    BY TypeParts
  <1> USE DEF ioVars, envVars, fixVars
  <1>1. ASSUME StatusReceived PROVE Types'
    <2>0. /\ UNCHANGED <<then, op, mod, accesses, last, alltimeouts, statustimeouts,
                         events, to_io, ioVars, abort, envVars>>
          /\ to_main' = Tail(to_main) /\ to_main # <<>>
          /\ mpc \in {"connect", "disconnect"}
      BY <1>1 DEF StatusReceived
    <2>1. QueueOK'
      BY <1>0, <2>0, MainTakes DEF QueueOK
    <2>2. \/ UNCHANGED <<mpc, is_connected, diaddr, timeouts>>
          \/ mpc' = "idle" /\ UNCHANGED <<is_connected, diaddr, timeouts>>
          \/ mpc' = "idle" /\ is_connected' = FALSE /\ UNCHANGED diaddr
               /\ timeouts' \in {timeouts, 0}
          \/ mpc' = "idle" /\ is_connected' = TRUE /\ diaddr' \in Session
               /\ timeouts' = 0
      BY <1>0, <1>1, <2>0, MainTakes DEF StatusReceived
    <2>3. BoolOK'
      BY <1>0, <2>0, <2>2 DEF BoolOK
    <2>4. CallOK' /\ CallShape'
      <3>1. diaddr' \in Session => diaddr' # 0
        BY HostModAssumption DEF Session
      <3> QED BY <1>0, <2>0, <2>2, <3>1 DEF CallOK, CallShape
    <2>5. IoOK'
      BY <1>0, <2>0 DEF IoOK
    <2> QED BY <2>1, <2>3, <2>4, <2>5, TypePartsPrimed
  <1>2. ASSUME RegReceived PROVE Types'
    <2>0. /\ UNCHANGED <<is_connected, diaddr, timeouts, alltimeouts, statustimeouts,
                         events, ioVars, envVars>>
          /\ to_main' = Tail(to_main) /\ to_main # <<>> /\ mpc = "reg" /\ is_connected
      BY <1>0, <1>2 DEF RegReceived, CallShape
    <2>1. abort' \in AbortReason
      BY <1>0, <1>2 DEF RegReceived, IoOK, AbortReason
    <2>2. last' \in [rv : Result, id : Access \cup {0}, got : Access \cup {0},
                     late : BOOLEAN]
      <3>1. CASE UNCHANGED last
        BY <1>0, <3>1 DEF CallOK
      <3>2. CASE ~UNCHANGED last
        <4>1. /\ last' = [rv |-> Check(Head(to_main).pkt), id |-> accesses,
                          got |-> Head(to_main).pkt.id, late |-> timeouts > 0]
              /\ Head(to_main).pkt \in RegResp
          BY <1>0, <1>2, <2>0, <3>2, MainTakes DEF RegReceived
        <4>2. Head(to_main).pkt.id \in Access
          BY <4>1 DEF RegResp
        <4>3. Check(Head(to_main).pkt) \in Result
          BY DEF Check, Result
        <4>4. (timeouts > 0) \in BOOLEAN
          OBVIOUS
        <4> QED BY <1>0, <4>1, <4>2, <4>3, <4>4 DEF CallOK
      <3> QED BY <3>1, <3>2
    <2>3. \/ UNCHANGED <<mpc, then, op, mod, accesses, to_io>>
          \/ mpc' = "idle" /\ UNCHANGED <<then, op, mod, accesses, to_io>>
          \/ then /\ SendRequest(mod, "write") /\ then' = FALSE /\ UNCHANGED mpc
      BY <1>2 DEF RegReceived
    <2>4. /\ to_io' \in Seq(IoMsg) /\ accesses' \in Access \cup {0}
          /\ op' \in RegOp /\ mod' \in Module /\ then' \in BOOLEAN
          /\ mpc' \in {"reg", "idle"}
          /\ mpc' = "reg" /\ then' => accesses' < MaxAccesses
      <3>1. CASE UNCHANGED <<mpc, then, op, mod, accesses, to_io>>
        BY <1>0, <2>0, <3>1 DEF BoolOK, QueueOK, CallOK, CallShape
      <3>2. CASE mpc' = "idle" /\ UNCHANGED <<then, op, mod, accesses, to_io>>
        BY <1>0, <2>0, <3>2 DEF BoolOK, QueueOK, CallOK, CallShape
      <3>3. CASE then /\ SendRequest(mod, "write") /\ then' = FALSE /\ UNCHANGED mpc
        <4>1. accesses < MaxAccesses /\ mod \in Module /\ "write" \in RegOp
          BY <1>0, <2>0, <3>3 DEF CallOK, CallShape, RegOp
        <4> QED BY <2>0, <3>3, <4>1, RequestType
      <3> QED BY <2>3, <3>1, <3>2, <3>3
    <2>5. BoolOK'
      BY <1>0, <2>0, <2>4 DEF BoolOK
    <2>6. QueueOK'
      BY <1>0, <2>0, <2>4, MainTakes DEF QueueOK
    <2>7. CallOK' /\ CallShape'
      BY <1>0, <2>0, <2>2, <2>4 DEF CallOK, CallShape
    <2>8. IoOK'
      BY <1>0, <2>0, <2>1 DEF IoOK
    <2> QED BY <2>5, <2>6, <2>7, <2>8, TypePartsPrimed
  <1>3. ASSUME EventReceived PROVE Types'
    <2>0. /\ UNCHANGED <<is_connected, diaddr, then, op, mod, accesses, last,
                         timeouts, alltimeouts, statustimeouts, events, to_io,
                         ioVars, envVars>>
          /\ to_main' = Tail(to_main) /\ to_main # <<>>
          /\ mpc = "event" /\ mpc' \in {"event", "idle"}
          /\ abort' \in {abort, "not_packet"}
      BY <1>3 DEF EventReceived
    <2>1. BoolOK'
      BY <1>0, <2>0 DEF BoolOK
    <2>2. QueueOK'
      BY <1>0, <2>0, MainTakes DEF QueueOK
    <2>3. CallOK' /\ CallShape'
      BY <1>0, <2>0 DEF CallOK, CallShape
    <2>4. IoOK'
      BY <1>0, <2>0 DEF IoOK, AbortReason
    <2> QED BY <2>1, <2>2, <2>3, <2>4, TypePartsPrimed
  <1> QED BY <1>1, <1>2, <1>3 DEF MainReturns

LEMMA TimeoutTypes ==
    ASSUME Types PROVE StatusTimesOut \/ PacketTimesOut => Types'
  <1>0. BoolOK /\ QueueOK /\ CallOK /\ CallShape /\ IoOK
    BY TypeParts
  <1> USE DEF ioVars, envVars, fixVars
  <1>1. ASSUME StatusTimesOut PROVE Types'
    <2>1. BoolOK'
      BY <1>0, <1>1 DEF BoolOK, StatusTimesOut
    <2>2. QueueOK'
      BY <1>0, <1>1 DEF QueueOK, StatusTimesOut
    <2>3. CallOK' /\ CallShape'
      BY <1>0, <1>1 DEF CallOK, CallShape, StatusTimesOut
    <2>4. IoOK'
      BY <1>0, <1>1 DEF IoOK, StatusTimesOut
    <2> QED BY <2>1, <2>2, <2>3, <2>4, TypePartsPrimed
  <1>2. ASSUME PacketTimesOut PROVE Types'
    <2>0. /\ UNCHANGED <<is_connected, diaddr, then, op, mod, accesses,
                         statustimeouts, events, to_io, to_main, ioVars, abort,
                         envVars>>
          /\ mpc' = "idle" /\ alltimeouts' = alltimeouts + 1
          /\ timeouts' \in {timeouts, timeouts + 1}
          /\ \/ UNCHANGED last
             \/ last' = [rv |-> "TIMEDOUT", id |-> accesses, got |-> 0, late |-> FALSE]
      BY <1>2 DEF PacketTimesOut
    <2>1. BoolOK'
      BY <1>0, <2>0 DEF BoolOK
    <2>2. QueueOK'
      BY <1>0, <2>0 DEF QueueOK
    <2>3. CallOK' /\ CallShape'
      <3>1. last' \in [rv : Result, id : Access \cup {0}, got : Access \cup {0},
                       late : BOOLEAN]
        <4>1. CASE UNCHANGED last
          BY <1>0, <4>1 DEF CallOK
        <4>2. CASE last' = [rv |-> "TIMEDOUT", id |-> accesses, got |-> 0,
                            late |-> FALSE]
          BY <1>0, <4>2 DEF CallOK, Result
        <4> QED BY <2>0, <4>1, <4>2
      <3>2. timeouts' \in Nat /\ alltimeouts' \in Nat
        BY <1>0, <2>0 DEF CallOK
      <3>3. CallShape'
        BY <1>0, <2>0 DEF CallShape
      <3> QED BY <1>0, <2>0, <3>1, <3>2, <3>3 DEF CallOK
    <2>4. IoOK'
      BY <1>0, <2>0 DEF IoOK
    <2> QED BY <2>1, <2>2, <2>3, <2>4, TypePartsPrimed
  <1> QED BY <1>1, <1>2

(* What the I/O thread takes from to_io is a message of the main thread.   *)
LEMMA IoTakes ==
    ASSUME QueueOK, NEW m, FromMain(m)
    PROVE  /\ Alive /\ iopc = "loop" /\ to_io # <<>>
           /\ Head(to_io) = m /\ m \in IoMsg
           /\ to_io' = Tail(to_io) /\ Tail(to_io) \in Seq(IoMsg)
  BY QueueTail DEF QueueOK, FromMain

LEMMA SendMainType ==
    ASSUME QueueOK, NEW m \in ToMain
    PROVE  Append(to_main, m) \in Seq(ToMain)
  BY QueueAppend DEF QueueOK

(* Messages from the controller to session s: put in, taken out, dropped.  *)
LEMMA FromCtrlType ==
    ASSUME QueueOK, NEW s \in Session
    PROVE  /\ fromctrl[s] \in Seq(FromMsg)
           /\ fromctrl[s] # <<>> =>
                 /\ Head(fromctrl[s]) \in RegResp \cup {EventPkt, Addr(s)}
                 /\ QueueOK /\ fromctrl' = [fromctrl EXCEPT ![s] = Tail(@)] =>
                       /\ fromctrl' \in [Session -> Seq(FromMsg)]
                       /\ \A t \in Session :
                             fromctrl'[t] \in Seq(RegResp \cup {EventPkt, Addr(t)})
           /\ fromctrl' = [fromctrl EXCEPT ![s] = <<>>] =>
                 /\ fromctrl' \in [Session -> Seq(FromMsg)]
                 /\ \A t \in Session :
                       fromctrl'[t] \in Seq(RegResp \cup {EventPkt, Addr(t)})
           /\ \A m \in RegResp \cup {EventPkt, Addr(s)} :
                 fromctrl' = [fromctrl EXCEPT ![s] = Append(@, m)] =>
                    /\ fromctrl' \in [Session -> Seq(FromMsg)]
                    /\ \A t \in Session :
                          fromctrl'[t] \in Seq(RegResp \cup {EventPkt, Addr(t)})
  <1> DEFINE M(t) == RegResp \cup {EventPkt, Addr(t)}
  <1>0. /\ fromctrl \in [Session -> Seq(FromMsg)]
        /\ \A t \in Session : fromctrl[t] \in Seq(M(t))
    BY DEF QueueOK
  <1>1. \A t \in Session : M(t) \subseteq FromMsg
    BY DEF FromMsg
  <1>2. ASSUME NEW q \in Seq(M(s)), fromctrl' = [fromctrl EXCEPT ![s] = q]
        PROVE  /\ fromctrl' \in [Session -> Seq(FromMsg)]
               /\ \A t \in Session : fromctrl'[t] \in Seq(M(t))
    <2>1. q \in Seq(FromMsg)
      BY <1>1
    <2> HIDE DEF M
    <2>2. fromctrl' \in [Session -> Seq(FromMsg)]
      BY <1>0, <1>2, <2>1
    <2>3. \A t \in Session : fromctrl'[t] = IF t = s THEN q ELSE fromctrl[t]
      BY <1>0, <1>2
    <2> QED BY <1>0, <2>2, <2>3
  <1>3. ASSUME fromctrl[s] # <<>>
        PROVE  Head(fromctrl[s]) \in M(s) /\ Tail(fromctrl[s]) \in Seq(M(s))
    BY <1>0, <1>3, QueueTail
  <1>4. ASSUME NEW m \in M(s) PROVE Append(fromctrl[s], m) \in Seq(M(s))
    BY <1>0, QueueAppend
  <1>5. <<>> \in Seq(M(s))
    OBVIOUS
  <1>6. fromctrl[s] \in Seq(FromMsg)
    BY <1>0
  <1> QED BY <1>2, <1>3, <1>4, <1>5, <1>6

LEMMA ToCtrlType ==
    ASSUME QueueOK, NEW s \in Session
    PROVE  /\ toctrl[s] # <<>> =>
                 /\ Head(toctrl[s]) \in RegReq \cup {EventPkt, DiaddrReq}
                 /\ [toctrl EXCEPT ![s] = Tail(@)]
                       \in [Session -> Seq(RegReq \cup {EventPkt, DiaddrReq})]
           /\ \A m \in RegReq \cup {EventPkt, DiaddrReq} :
                 [toctrl EXCEPT ![s] = Append(@, m)]
                       \in [Session -> Seq(RegReq \cup {EventPkt, DiaddrReq})]
  <1> DEFINE M == RegReq \cup {EventPkt, DiaddrReq}
  <1>0. toctrl \in [Session -> Seq(M)]
    BY DEF QueueOK
  <1> HIDE DEF M
  <1>1. ASSUME toctrl[s] # <<>>
        PROVE  Head(toctrl[s]) \in M /\ Tail(toctrl[s]) \in Seq(M)
    BY <1>0, <1>1, QueueTail
  <1>2. ASSUME NEW m \in M PROVE Append(toctrl[s], m) \in Seq(M)
    BY <1>0, QueueAppend
  <1>3. toctrl[s] # <<>> => [toctrl EXCEPT ![s] = Tail(@)] \in [Session -> Seq(M)]
    BY <1>0, <1>1
  <1>4. \A m \in M : [toctrl EXCEPT ![s] = Append(@, m)] \in [Session -> Seq(M)]
    BY <1>0, <1>2
  <1> QED BY <1>1, <1>3, <1>4 DEF M

(* In the wait for an address there is a socket.                           *)
ObtainHasSocket == iopc = "obtain" => sock # 0

LEMMA IoCommandTypes ==
    ASSUME Types
    PROVE  (iothread_connect_to_hostctrl \/ iothread_disconnect_from_hostctrl
              \/ ForwardToHostctrl \/ iothread_destroy) => Types'
  <1>0. BoolOK /\ QueueOK /\ CallOK /\ CallShape /\ IoOK
    BY TypeParts
  <1>1. ASSUME UNCHANGED <<mainVars, events, fixVars>>
        PROVE  BoolOK' /\ CallOK' /\ CallShape'
    <2> USE DEF mainVars, fixVars
    <2>1. BoolOK'
      BY <1>0, <1>1 DEF BoolOK
    <2>2. CallOK' /\ CallShape'
      BY <1>0, <1>1 DEF CallOK, CallShape
    <2> QED BY <2>1, <2>2
  <1>2. ASSUME iothread_connect_to_hostctrl PROVE Types'
    <2>0. /\ UNCHANGED <<mainVars, events, readers, abort, fromctrl, atmods, fixVars>>
          /\ FromMain(Cmd("I-CONNECT"))
      BY <1>2 DEF iothread_connect_to_hostctrl
    <2>1. \/ /\ sessions < MaxSessions /\ sessions' = sessions + 1
             /\ sock' = sessions + 1 /\ iopc' = "obtain" /\ UNCHANGED to_main
             /\ toctrl' = [toctrl EXCEPT ![sessions + 1] = Append(@, DiaddrReq)]
          \/ /\ sock' = 0 /\ UNCHANGED <<sessions, toctrl, iopc>>
             /\ to_main' = Append(to_main, ConnectDone(-1))
      BY <1>2 DEF iothread_connect_to_hostctrl, SendMain
    <2>2. sessions < MaxSessions => sessions + 1 \in Session
      BY <1>0, HostModAssumption DEF IoOK, Session
    <2>3. ConnectDone(-1) \in ToMain
      BY MainMessages
    <2>4. IoOK'
      BY <1>0, <2>0, <2>1, <2>2 DEF IoOK
    <2>5. toctrl' \in [Session -> Seq(RegReq \cup {EventPkt, DiaddrReq})]
      <3>1. CASE UNCHANGED toctrl
        BY <1>0, <3>1 DEF QueueOK
      <3>2. CASE ~UNCHANGED toctrl
        BY <1>0, <2>1, <2>2, <3>2, ToCtrlType
      <3> QED BY <3>1, <3>2
    <2>6. to_main' \in Seq(ToMain)
      <3>1. CASE UNCHANGED to_main
        BY <1>0, <3>1 DEF QueueOK
      <3>2. CASE ~UNCHANGED to_main
        BY <1>0, <2>1, <2>3, <3>2, SendMainType
      <3> QED BY <3>1, <3>2
    <2>7. QueueOK'
      BY <1>0, <2>0, <2>5, <2>6, IoTakes DEF QueueOK
    <2> QED BY <1>1, <2>0, <2>4, <2>7, TypePartsPrimed
  <1>3. ASSUME iothread_disconnect_from_hostctrl PROVE Types'
    <2>0. /\ UNCHANGED <<mainVars, events, iopc, sessions, toctrl, atmods, fixVars>>
          /\ FromMain(Cmd("I-DISCONNECT"))
      BY <1>3 DEF iothread_disconnect_from_hostctrl
    <2>1. \/ /\ sock # 0 /\ readers' = readers \ {sock} /\ sock' = 0
             /\ fromctrl' = [fromctrl EXCEPT ![sock] = <<>>]
             /\ to_main' = Append(to_main, [name |-> "I-DISCONNECT-DONE", value |-> 0])
             /\ UNCHANGED abort
          \/ /\ abort' = "no_socket" /\ UNCHANGED <<readers, sock, fromctrl, to_main>>
      BY <1>3 DEF iothread_disconnect_from_hostctrl, SendMain
    <2>2. sock # 0 => sock \in Session
      BY <1>0 DEF IoOK
    <2>3. IoOK'
      BY <1>0, <2>0, <2>1 DEF IoOK, AbortReason
    <2>4. /\ fromctrl' \in [Session -> Seq(FromMsg)]
          /\ \A s \in Session : fromctrl'[s] \in Seq(RegResp \cup {EventPkt, Addr(s)})
      <3>1. CASE UNCHANGED fromctrl
        BY <1>0, <3>1 DEF QueueOK
      <3>2. CASE ~UNCHANGED fromctrl
        <4>1. sock \in Session /\ fromctrl' = [fromctrl EXCEPT ![sock] = <<>>]
          BY <2>1, <2>2, <3>2
        <4> QED BY <1>0, <4>1, FromCtrlType
      <3> QED BY <3>1, <3>2
    <2>5. to_main' \in Seq(ToMain)
      <3>1. CASE UNCHANGED to_main
        BY <1>0, <3>1 DEF QueueOK
      <3>2. CASE ~UNCHANGED to_main
        BY <1>0, <2>1, <3>2, SendMainType, MainMessages
      <3> QED BY <3>1, <3>2
    <2>6. QueueOK'
      BY <1>0, <2>0, <2>4, <2>5, IoTakes DEF QueueOK
    <2> QED BY <1>1, <2>0, <2>3, <2>6, TypePartsPrimed
  <1>4. ASSUME ForwardToHostctrl PROVE Types'
    <2>0. /\ UNCHANGED <<mainVars, events, to_main, ioVars, fromctrl, atmods, fixVars>>
          /\ FromMain(Head(to_io)) /\ Head(to_io).type \in {"REG", "EVENT"}
      BY <1>4 DEF ForwardToHostctrl
    <2>1. \/ /\ sock # 0 /\ UNCHANGED abort
             /\ toctrl' = [toctrl EXCEPT ![sock] = Append(@, Head(to_io))]
          \/ abort' = "no_socket" /\ UNCHANGED toctrl
      BY <1>4 DEF ForwardToHostctrl
    <2>2. Head(to_io) \in RegReq \cup {EventPkt}
      BY <1>0, <2>0, IoTakes, IoMessages
    <2>3. toctrl' \in [Session -> Seq(RegReq \cup {EventPkt, DiaddrReq})]
      <3>1. CASE UNCHANGED toctrl
        BY <1>0, <3>1 DEF QueueOK
      <3>2. CASE ~UNCHANGED toctrl
        <4>1. /\ sock \in Session
              /\ toctrl' = [toctrl EXCEPT ![sock] = Append(@, Head(to_io))]
          BY <1>0, <2>1, <3>2 DEF IoOK
        <4> QED BY <1>0, <2>2, <4>1, ToCtrlType
      <3> QED BY <3>1, <3>2
    <2>4. QueueOK'
      BY <1>0, <2>0, <2>3, IoTakes DEF QueueOK
    <2>5. IoOK'
      BY <1>0, <2>0, <2>1 DEF IoOK, ioVars, AbortReason
    <2> QED BY <1>1, <2>0, <2>4, <2>5, TypePartsPrimed
  <1>5. ASSUME iothread_destroy PROVE Types'
    <2>0. /\ UNCHANGED <<mainVars, events, to_main, sock, readers, sessions, abort,
                         toctrl, fromctrl, atmods, fixVars>>
          /\ FromMain(Cmd("I-SHUTDOWN")) /\ iopc' = "ended"
      BY <1>5 DEF iothread_destroy, envVars
    <2>1. QueueOK'
      BY <1>0, <2>0, IoTakes DEF QueueOK
    <2>2. IoOK'
      BY <1>0, <2>0 DEF IoOK
    <2> QED BY <1>1, <2>0, <2>1, <2>2, TypePartsPrimed
  <1> QED BY <1>2, <1>3, <1>4, <1>5

LEMMA IoReceiveTypes ==
    ASSUME Types, ObtainHasSocket
    PROVE  (iothread_obtain_diaddr \/ ObtainTimesOut \/ IoReads) => Types'
  <1>0. BoolOK /\ QueueOK /\ CallOK /\ CallShape /\ IoOK
    BY TypeParts
  <1>1. ASSUME UNCHANGED <<mainVars, events, fixVars>>
        PROVE  BoolOK' /\ CallOK' /\ CallShape'
    <2> USE DEF mainVars, fixVars
    <2>1. BoolOK'
      BY <1>0, <1>1 DEF BoolOK
    <2>2. CallOK' /\ CallShape'
      BY <1>0, <1>1 DEF CallOK, CallShape
    <2> QED BY <2>1, <2>2
  <1>a. \A s \in Session : /\ Addr(s).type = "M" /\ Addr(s).addr = s
                           /\ ConnectDone(s) \in ToMain
    BY MainMessages DEF Addr
  <1>b. \A m \in RegResp \cup {EventPkt} :
           m.type # "M" /\ [name |-> "D", pkt |-> m] \in ToMain
    BY DEF RegResp, EventPkt, ToMain
  <1>2. ASSUME iothread_obtain_diaddr PROVE Types'
    <2> DEFINE m == Head(fromctrl[sock])
    <2>0. /\ UNCHANGED <<mainVars, events, to_io, sock, sessions, toctrl, atmods,
                         fixVars>>
          /\ fromctrl' = [fromctrl EXCEPT ![sock] = Tail(@)]
          /\ iopc = "obtain" /\ fromctrl[sock] # <<>>
          /\ iopc' = "loop" /\ readers' = readers \cup {sock}
          /\ abort' = (IF m.type = "M" THEN abort ELSE "mgmt")
          /\ to_main' = (IF m.type = "M" THEN Append(to_main, ConnectDone(m.addr))
                                         ELSE to_main)
      BY <1>2 DEF iothread_obtain_diaddr
    <2>1. sock \in Session
      BY <1>0, <2>0 DEF IoOK, ObtainHasSocket
    <2>2. m \in RegResp \cup {EventPkt, Addr(sock)}
      BY <1>0, <2>0, <2>1, FromCtrlType
    <2> HIDE DEF m
    <2>3. m.type = "M" => m.addr = sock
      BY <1>a, <1>b, <2>1, <2>2
    <2>4. /\ fromctrl' \in [Session -> Seq(FromMsg)]
          /\ \A s \in Session : fromctrl'[s] \in Seq(RegResp \cup {EventPkt, Addr(s)})
      BY <1>0, <2>0, <2>1, FromCtrlType
    <2>5. to_main' \in Seq(ToMain)
      <3>1. CASE m.type = "M"
        BY <1>0, <1>a, <2>0, <2>1, <2>3, <3>1, SendMainType
      <3>2. CASE m.type # "M"
        BY <1>0, <2>0, <3>2 DEF QueueOK
      <3> QED BY <3>1, <3>2
    <2>6. QueueOK'
      BY <1>0, <2>0, <2>4, <2>5 DEF QueueOK
    <2>7. IoOK'
      BY <1>0, <2>0, <2>1 DEF IoOK, AbortReason
    <2> QED BY <1>1, <2>0, <2>6, <2>7, TypePartsPrimed
  <1>3. ASSUME ObtainTimesOut PROVE Types'
    <2>0. /\ UNCHANGED <<mainVars, events, to_io, readers, sessions, abort, toctrl,
                         atmods, fixVars>>
          /\ iopc = "obtain" /\ iopc' = "loop" /\ sock' = 0
          /\ fromctrl' = [fromctrl EXCEPT ![sock] = <<>>]
          /\ to_main' = Append(to_main, ConnectDone(-1))
      BY <1>3 DEF ObtainTimesOut, SendMain
    <2>1. sock \in Session
      BY <1>0, <2>0 DEF IoOK, ObtainHasSocket
    <2>2. to_main' \in Seq(ToMain)
      BY <1>0, <2>0, SendMainType, MainMessages
    <2>3. /\ fromctrl' \in [Session -> Seq(FromMsg)]
          /\ \A s \in Session : fromctrl'[s] \in Seq(RegResp \cup {EventPkt, Addr(s)})
      BY <1>0, <2>0, <2>1, FromCtrlType
    <2>4. QueueOK'
      BY <1>0, <2>0, <2>2, <2>3 DEF QueueOK
    <2>5. IoOK'
      BY <1>0, <2>0 DEF IoOK
    <2> QED BY <1>1, <2>0, <2>4, <2>5, TypePartsPrimed
  <1>4. ASSUME NEW s \in Session, iothread_rcv_from_hostctrl(s) PROVE Types'
    <2> DEFINE m == Head(fromctrl[s])
    <2>0. /\ UNCHANGED <<mainVars, events, to_io, ioVars, toctrl, atmods, fixVars>>
          /\ fromctrl' = [fromctrl EXCEPT ![s] = Tail(@)] /\ fromctrl[s] # <<>>
          /\ abort' = (IF m.type = "M" THEN "mgmt" ELSE abort)
          /\ to_main' = (IF m.type = "M" \/ IsHandled(m) THEN to_main
                         ELSE Append(to_main, [name |-> "D", pkt |-> m]))
      BY <1>4 DEF iothread_rcv_from_hostctrl
    <2>1. m \in RegResp \cup {EventPkt, Addr(s)}
      BY <1>0, <2>0, FromCtrlType
    <2> HIDE DEF m
    <2>2. to_main' \in Seq(ToMain)
      <3>1. CASE m.type = "M" \/ IsHandled(m)
        BY <1>0, <2>0, <3>1 DEF QueueOK
      <3>2. CASE ~(m.type = "M" \/ IsHandled(m))
        BY <1>0, <1>a, <1>b, <2>0, <2>1, <3>2, SendMainType
      <3> QED BY <3>1, <3>2
    <2>3. /\ fromctrl' \in [Session -> Seq(FromMsg)]
          /\ \A t \in Session : fromctrl'[t] \in Seq(RegResp \cup {EventPkt, Addr(t)})
      BY <1>0, <2>0, FromCtrlType
    <2>4. QueueOK'
      BY <1>0, <2>0, <2>2, <2>3 DEF QueueOK
    <2>5. IoOK'
      BY <1>0, <2>0 DEF IoOK, ioVars, AbortReason
    <2> QED BY <1>1, <2>0, <2>4, <2>5, TypePartsPrimed
  <1> QED BY <1>2, <1>3, <1>4 DEF IoReads

(* What the controller delivers to session s arrives if its socket is      *)
(* open.                                                                   *)
LEMMA DeliverType ==
    ASSUME QueueOK, NEW s \in Session, NEW m \in RegResp \cup {EventPkt, Addr(s)},
           Deliver(s, m)
    PROVE  /\ fromctrl' \in [Session -> Seq(FromMsg)]
           /\ \A t \in Session : fromctrl'[t] \in Seq(RegResp \cup {EventPkt, Addr(t)})
  <1>1. CASE IsOpen(s)
    <2>1. fromctrl' = [fromctrl EXCEPT ![s] = Append(@, m)]
      BY <1>1 DEF Deliver
    <2> QED BY <2>1, FromCtrlType
  <1>2. CASE ~IsOpen(s)
    BY <1>2 DEF Deliver, QueueOK
  <1> QED BY <1>1, <1>2

LEMMA EnvTypes ==
    ASSUME Types PROVE EnvSteps => Types'
  <1>0. BoolOK /\ QueueOK /\ CallOK /\ CallShape /\ IoOK
    BY TypeParts
  <1>1. ASSUME UNCHANGED <<mainVars, ioVars, abort, has_handler>>,
               lost' \in BOOLEAN, events' \in Nat, QueueOK'
        PROVE  Types'
    <2> USE DEF mainVars, ioVars
    <2>1. BoolOK'
      BY <1>0, <1>1 DEF BoolOK
    <2>2. CallOK' /\ CallShape'
      BY <1>0, <1>1 DEF CallOK, CallShape
    <2>3. IoOK'
      BY <1>0, <1>1 DEF IoOK
    <2> QED BY <1>1, <2>1, <2>2, <2>3, TypePartsPrimed
  <1>2. ASSUME NEW s \in Session, HostctrlTakes(s) PROVE Types'
    <2>0. /\ UNCHANGED <<has_handler, mainVars, events, to_io, to_main, ioVars, abort>>
          /\ toctrl' = [toctrl EXCEPT ![s] = Tail(@)] /\ toctrl[s] # <<>>
      BY <1>2 DEF HostctrlTakes
    <2> DEFINE m == Head(toctrl[s])
    <2>1. \/ m.type = "M" /\ Deliver(s, Addr(s)) /\ UNCHANGED <<atmods, lost>>
          \/ UNCHANGED <<fromctrl, atmods>> /\ lost' \in {lost, TRUE}
          \/ m.type = "REG" /\ atmods' = atmods \cup {m} /\ UNCHANGED <<fromctrl, lost>>
      BY <1>2 DEF HostctrlTakes
    <2>2. m \in RegReq \cup {EventPkt, DiaddrReq}
      BY <1>0, <2>0, ToCtrlType
    <2> HIDE DEF m
    <2>3. /\ fromctrl' \in [Session -> Seq(FromMsg)]
          /\ \A t \in Session : fromctrl'[t] \in Seq(RegResp \cup {EventPkt, Addr(t)})
      <3>1. CASE UNCHANGED fromctrl
        BY <1>0, <3>1 DEF QueueOK
      <3>2. CASE Deliver(s, Addr(s))
        BY <1>0, <3>2, DeliverType
      <3> QED BY <2>1, <3>1, <3>2
    <2>4. atmods' \subseteq RegReq
      <3>1. m.type = "REG" => m \in RegReq
        BY <2>2 DEF EventPkt, DiaddrReq
      <3> QED BY <1>0, <2>1, <3>1 DEF QueueOK
    <2>5. toctrl' \in [Session -> Seq(RegReq \cup {EventPkt, DiaddrReq})]
      BY <1>0, <2>0, ToCtrlType
    <2>6. QueueOK'
      BY <1>0, <2>0, <2>3, <2>4, <2>5 DEF QueueOK
    <2>7. lost' \in BOOLEAN
      BY <1>0, <2>1 DEF BoolOK
    <2>8. events' \in Nat
      BY <1>0, <2>0 DEF CallOK
    <2> QED BY <1>1, <2>0, <2>6, <2>7, <2>8
  <1>3. ASSUME ModuleAnswers PROVE Types'
    <2>1. PICK r \in atmods, ok \in BOOLEAN :
             /\ atmods' = atmods \ {r}
             /\ Deliver(r.src, [type |-> "REG", op |-> r.op, ok |-> ok, id |-> r.id])
             /\ UNCHANGED <<mainVars, events, to_io, to_main, ioVars, abort, toctrl,
                            fixVars>>
      BY <1>3 DEF ModuleAnswers
    <2>2. r.src \in Session /\ r.op \in RegOp /\ r.id \in Access
      BY <1>0 DEF QueueOK, RegReq
    <2>3. [type |-> "REG", op |-> r.op, ok |-> ok, id |-> r.id] \in RegResp
      BY <2>2 DEF RegResp
    <2>4. /\ fromctrl' \in [Session -> Seq(FromMsg)]
          /\ \A t \in Session : fromctrl'[t] \in Seq(RegResp \cup {EventPkt, Addr(t)})
      BY <1>0, <2>1, <2>2, <2>3, DeliverType
    <2>5. QueueOK'
      BY <1>0, <2>1, <2>4 DEF QueueOK
    <2>6. lost' \in BOOLEAN /\ has_handler' = has_handler
      BY <1>0, <2>1 DEF BoolOK, fixVars
    <2>7. events' \in Nat
      BY <1>0, <2>1 DEF CallOK
    <2> QED BY <1>1, <2>1, <2>5, <2>6, <2>7
  <1>4. ASSUME NEW s \in Session, ModuleSendsEvent(s) PROVE Types'
    <2>1. /\ events' = events + 1 /\ Deliver(s, EventPkt)
          /\ UNCHANGED <<mainVars, to_io, to_main, ioVars, abort, toctrl, atmods,
                         fixVars>>
      BY <1>4 DEF ModuleSendsEvent
    <2>2. /\ fromctrl' \in [Session -> Seq(FromMsg)]
          /\ \A t \in Session : fromctrl'[t] \in Seq(RegResp \cup {EventPkt, Addr(t)})
      BY <1>0, <2>1, DeliverType
    <2>3. QueueOK'
      BY <1>0, <2>1, <2>2 DEF QueueOK
    <2>4. lost' \in BOOLEAN /\ has_handler' = has_handler
      BY <1>0, <2>1 DEF BoolOK, fixVars
    <2>5. events' \in Nat
      BY <1>0, <2>1 DEF CallOK
    <2> QED BY <1>1, <2>1, <2>3, <2>4, <2>5
  <1> QED BY <1>2, <1>3, <1>4 DEF EnvSteps, EnvNext

LEMMA NextTypes ==
    ASSUME Types, ObtainHasSocket PROVE Next => Types'
  <1>1. MainSteps => Types'
    BY MainCallTypes, MainReturnTypes, TimeoutTypes DEF MainSteps
  <1>2. IoSteps => Types'
    BY IoCommandTypes, IoReceiveTypes DEF IoSteps, IoNext
  <1>3. EnvSteps => Types'
    BY EnvTypes
  <1> QED BY <1>1, <1>2, <1>3, Steps

LEMMA MainFrame ==
    ASSUME MainSteps
    PROVE  UNCHANGED <<ioVars, envVars>> /\ Alive
             /\ abort' \in {abort, "not_packet", "not_reg"}
  <1> USE DEF mainVars
  <1>1. ASSUME MainCalls PROVE UNCHANGED <<ioVars, envVars, abort>> /\ Alive
    BY <1>1 DEF MainCalls, osd_hostmod_connect, osd_hostmod_disconnect,
       osd_hostmod_reg, osd_hostmod_reg_setbit, osd_hostmod_event_send,
       osd_hostmod_event_receive, osd_hostmod_free
  <1>2. ASSUME StatusReceived \/ StatusTimesOut \/ PacketTimesOut
        PROVE  UNCHANGED <<ioVars, envVars, abort>> /\ Alive
    BY <1>2 DEF StatusReceived, StatusTimesOut, PacketTimesOut
  <1>3. ASSUME RegReceived \/ EventReceived
        PROVE  UNCHANGED <<ioVars, envVars>> /\ Alive
                 /\ abort' \in {abort, "not_packet", "not_reg"}
    BY <1>3 DEF RegReceived, EventReceived
  <1> QED BY <1>1, <1>2, <1>3 DEF MainSteps, MainReturns

LEMMA IoFrame ==
    ASSUME IoSteps PROVE UNCHANGED <<mainVars, events, atmods, fixVars>> /\ Alive
  <1> USE DEF ioVars, envVars, FromMain
  <1>1. ASSUME IoNext PROVE UNCHANGED <<mainVars, events, atmods, fixVars>> /\ Alive
    BY <1>1 DEF IoNext, iothread_connect_to_hostctrl, iothread_obtain_diaddr,
       iothread_disconnect_from_hostctrl, ForwardToHostctrl, iothread_destroy
  <1>2. ASSUME ObtainTimesOut \/ IoReads
        PROVE  UNCHANGED <<mainVars, events, atmods, fixVars>> /\ Alive
    BY <1>2 DEF ObtainTimesOut, IoReads, iothread_rcv_from_hostctrl
  <1> QED BY <1>1, <1>2 DEF IoSteps

LEMMA EnvFrame ==
    ASSUME EnvSteps
    PROVE  UNCHANGED <<mainVars, to_io, to_main, ioVars, abort, has_handler>>
  BY DEF EnvSteps, EnvNext, ModuleAnswers, HostctrlTakes, ModuleSendsEvent, fixVars

-----------------------------------------------------------------------------
(* Addresses.  The first message on a connection is its address and none   *)
(* follows, and a register request only carries an address that was read.  *)

(* The sessions whose address is not still awaited.                        *)
Obtained == {s \in Session : s <= sessions /\ ~(iopc = "obtain" /\ s = sock)}

AddressInv ==
    /\ ObtainHasSocket
    /\ iopc = "obtain" =>
          /\ sock \notin readers /\ sock <= sessions
          /\ \/ toctrl[sock] = <<DiaddrReq>> /\ fromctrl[sock] = <<>>
             \/ toctrl[sock] = <<>> /\ fromctrl[sock] = <<Addr(sock)>>
    /\ iopc # "obtain" => sock \in readers \cup {0}
    /\ \A s \in readers : /\ s <= sessions
                          /\ toctrl[s] \in Seq(RegReq \cup {EventPkt})
                          /\ fromctrl[s] \in Seq(RegResp \cup {EventPkt})
    /\ \A s \in Session : s > sessions => toctrl[s] = <<>> /\ fromctrl[s] = <<>>
    /\ abort # "mgmt"

MainOk == {m \in ToMain : m \in Connected => m.value \in Obtained}
IoOk   == {m \in IoMsg : m \in RegReq => m.src \in Obtained}
CtrlOk == {m \in RegReq \cup {EventPkt, DiaddrReq} :
              m \in RegReq => m.src \in Obtained}

SourceInv ==
    /\ diaddr # 0 => diaddr \in Obtained
    /\ to_main \in Seq(MainOk) /\ to_io \in Seq(IoOk)
    /\ toctrl \in [Session -> Seq(CtrlOk)]
    /\ \A r \in atmods : r.src \in Obtained

LEMMA SeqGrows ==
    ASSUME NEW S, NEW T, S \subseteq T, NEW q \in Seq(S) PROVE q \in Seq(T)
  OBVIOUS

LEMMA ObtainedGrows ==
    ASSUME Types, AddressInv PROVE Next => Obtained \subseteq Obtained'
  <1>0. IoOK
    BY TypeParts
  <1>1. ASSUME UNCHANGED ioVars PROVE Obtained \subseteq Obtained'
    BY <1>1 DEF Obtained, ioVars
  <1>2. ASSUME IoSteps PROVE Obtained \subseteq Obtained'
    <2>1. CASE UNCHANGED <<iopc, sock, sessions>>
      BY <2>1 DEF Obtained
    <2>2. CASE sessions' = sessions /\ iopc' # "obtain"
      BY <2>2 DEF Obtained
    <2>3. CASE sessions' = sessions + 1 /\ sock' = sessions + 1
      BY <1>0, <2>3, HostModAssumption DEF Obtained, IoOK, Session
    <2>4. \/ UNCHANGED <<iopc, sock, sessions>>
          \/ sessions' = sessions /\ iopc' # "obtain"
          \/ sessions' = sessions + 1 /\ sock' = sessions + 1
      <3> USE DEF ioVars, FromMain
      <3>1. CASE iothread_connect_to_hostctrl \/ iothread_obtain_diaddr
        BY <3>1 DEF iothread_connect_to_hostctrl, iothread_obtain_diaddr
      <3>2. CASE iothread_disconnect_from_hostctrl \/ ForwardToHostctrl
                   \/ iothread_destroy
        BY <3>2 DEF iothread_disconnect_from_hostctrl, ForwardToHostctrl,
           iothread_destroy
      <3>3. CASE ObtainTimesOut \/ IoReads
        BY <3>3 DEF ObtainTimesOut, IoReads, iothread_rcv_from_hostctrl
      <3> QED BY <1>2, <3>1, <3>2, <3>3 DEF IoSteps, IoNext
    <2> QED BY <2>1, <2>2, <2>3, <2>4
  <1> QED BY <1>1, <1>2, MainFrame, EnvFrame, Steps

(* The message sets grow with the addresses that were read.                *)
LEMMA OkGrows ==
    ASSUME Obtained \subseteq Obtained'
    PROVE  /\ MainOk \subseteq MainOk' /\ IoOk \subseteq IoOk' /\ CtrlOk \subseteq CtrlOk'
           /\ \A q : q \in Seq(MainOk) => q \in Seq(MainOk')
           /\ \A q : q \in Seq(IoOk) => q \in Seq(IoOk')
           /\ \A q : q \in Seq(CtrlOk) => q \in Seq(CtrlOk')
  <1>1. MainOk \subseteq MainOk' /\ IoOk \subseteq IoOk' /\ CtrlOk \subseteq CtrlOk'
    BY DEF MainOk, IoOk, CtrlOk, Connected
  <1>2. \A q : q \in Seq(MainOk) => q \in Seq(MainOk')
    BY <1>1, SeqGrows
  <1>3. \A q : q \in Seq(IoOk) => q \in Seq(IoOk')
    BY <1>1, SeqGrows
  <1>4. \A q : q \in Seq(CtrlOk) => q \in Seq(CtrlOk')
    BY <1>1, SeqGrows
  <1> QED BY <1>1, <1>2, <1>3, <1>4

LEMMA InitAddress == Init => AddressInv /\ SourceInv
  <1> SUFFICES ASSUME Init PROVE AddressInv /\ SourceInv
    OBVIOUS
  <1>1. AddressInv
    BY DEF Init, AddressInv, ObtainHasSocket
  <1>2. SourceInv
    <2>1. \A S : <<>> \in Seq(S)
      OBVIOUS
    <2> QED BY <2>1 DEF Init, SourceInv
  <1> QED BY <1>1, <1>2

(* What the main thread does to the two queues and to its address.         *)
LEMMA MainEffect ==
    ASSUME Types, MainSteps
    PROVE  /\ \/ to_io' = to_io
              \/ \E x \in IoMsg : /\ to_io' = Append(to_io, x)
                                  /\ x \in RegReq => x.src = diaddr /\ is_connected
           /\ \/ to_main' = to_main
              \/ to_main # <<>> /\ to_main' = Tail(to_main)
           /\ \/ diaddr' = diaddr
              \/ /\ to_main # <<>> /\ Head(to_main) \in Connected
                 /\ diaddr' = Head(to_main).value
  <1>0. QueueOK /\ CallOK /\ CallShape
    BY TypeParts
  <1>1. CASE MainCalls
    <2>0. UNCHANGED <<to_main, diaddr>>
      BY <1>1 DEF MainCalls, osd_hostmod_connect, osd_hostmod_disconnect,
         osd_hostmod_reg, osd_hostmod_reg_setbit, osd_hostmod_event_send,
         osd_hostmod_event_receive, osd_hostmod_free, mainVars
    <2>1. \/ to_io' = to_io
          \/ \E x \in IoMsg : /\ to_io' = Append(to_io, x)
                              /\ x \in RegReq => x.src = diaddr /\ is_connected
      <3>1. CASE osd_hostmod_connect
        BY <3>1, IoMessages DEF osd_hostmod_connect
      <3>2. CASE osd_hostmod_disconnect
        BY <3>2, IoMessages DEF osd_hostmod_disconnect
      <3>3. ASSUME NEW m \in Module, NEW o \in RegOp, osd_hostmod_reg(m, o)
            PROVE  \E x \in IoMsg : /\ to_io' = Append(to_io, x)
                                    /\ x \in RegReq => x.src = diaddr /\ is_connected
        <4>1. is_connected /\ accesses < MaxAccesses /\ SendRequest(m, o)
          BY <3>3 DEF osd_hostmod_reg
        <4> QED BY <4>1, RequestType, IoMessages
      <3>4. ASSUME NEW m \in Module, osd_hostmod_reg_setbit(m)
            PROVE  \E x \in IoMsg : /\ to_io' = Append(to_io, x)
                                    /\ x \in RegReq => x.src = diaddr /\ is_connected
        <4>1. /\ is_connected /\ accesses + 1 < MaxAccesses
              /\ SendRequest(m, "read16") /\ "read16" \in RegOp
          BY <3>4 DEF osd_hostmod_reg_setbit, RegOp
        <4>2. accesses < MaxAccesses
          BY <1>0, <4>1, HostModAssumption DEF CallOK, Access
        <4> QED BY <4>1, <4>2, RequestType, IoMessages
      <3>5. CASE osd_hostmod_event_send
        <4>1. to_io' = Append(to_io, EventPkt) /\ EventPkt \in IoMsg /\ is_connected
          BY <3>5, IoMessages DEF osd_hostmod_event_send
        <4>2. EventPkt \notin RegReq
          BY IoMessages
        <4> QED BY <4>1, <4>2
      <3>6. CASE osd_hostmod_event_receive
        BY <3>6 DEF osd_hostmod_event_receive
      <3>7. CASE osd_hostmod_free
        BY <3>7, IoMessages DEF osd_hostmod_free
      <3> QED BY <1>1, <3>1, <3>2, <3>3, <3>4, <3>5, <3>6, <3>7 DEF MainCalls
    <2> QED BY <2>0, <2>1
  <1>2. CASE StatusReceived
    <2>0. to_io' = to_io /\ to_main # <<>> /\ to_main' = Tail(to_main)
      BY <1>2 DEF StatusReceived
    <2>1. \/ diaddr' = diaddr
          \/ /\ Head(to_main).name = "I-CONNECT-DONE" /\ Head(to_main).value # -1
             /\ diaddr' = Head(to_main).value
      BY <1>2 DEF StatusReceived
    <2>2. Head(to_main) \in ToMain
      BY <1>0, <2>0, MainTakes
    <2> QED BY <2>0, <2>1, <2>2 DEF Connected
  <1>3. CASE RegReceived
    <2>0. diaddr' = diaddr /\ to_main # <<>> /\ to_main' = Tail(to_main) /\ mpc = "reg"
      BY <1>3 DEF RegReceived
    <2>1. to_io' = to_io \/ (SendRequest(mod, "write") /\ then)
      BY <1>3 DEF RegReceived
    <2>2. CASE SendRequest(mod, "write") /\ then
      <3>1. /\ is_connected /\ accesses < MaxAccesses
            /\ mod \in Module /\ "write" \in RegOp
        BY <1>0, <2>0, <2>2 DEF CallOK, CallShape, RegOp
      <3> QED BY <2>0, <2>2, <3>1, RequestType, IoMessages
    <2> QED BY <2>0, <2>1, <2>2
  <1>4. CASE EventReceived
    BY <1>4 DEF EventReceived
  <1>5. CASE StatusTimesOut \/ PacketTimesOut
    BY <1>5 DEF StatusTimesOut, PacketTimesOut
  <1> QED BY <1>1, <1>2, <1>3, <1>4, <1>5 DEF MainSteps, MainReturns

(* What the I/O thread does to the queues.                                 *)
LEMMA IoEffect ==
    ASSUME Types, AddressInv, IoSteps
    PROVE  /\ to_io' = to_io \/ (to_io # <<>> /\ to_io' = Tail(to_io))
           /\ \/ to_main' = to_main
              \/ \E x \in ToMain :
                    /\ to_main' = Append(to_main, x)
                    /\ x \in Connected =>
                          x.value = sock /\ iopc' = "loop" /\ sock' = sock
                            /\ sock <= sessions /\ sessions' = sessions
           /\ \/ toctrl' = toctrl
              \/ \E s \in Session, x \in RegReq \cup {EventPkt, DiaddrReq} :
                    /\ toctrl' = [toctrl EXCEPT ![s] = Append(@, x)]
                    /\ x \in RegReq => to_io # <<>> /\ x = Head(to_io)
  <1>0. QueueOK /\ IoOK
    BY TypeParts
  <1>a. ConnectDone(-1) \in ToMain /\ ConnectDone(-1) \notin Connected
    BY MainMessages DEF Connected, ConnectDone
  <1>b. /\ [name |-> "I-DISCONNECT-DONE", value |-> 0] \in ToMain
        /\ [name |-> "I-DISCONNECT-DONE", value |-> 0] \notin Connected
    BY MainMessages DEF Connected
  <1>c. DiaddrReq \notin RegReq
    BY DEF DiaddrReq, RegReq
  <1>d. \A s \in Session : Addr(s).type = "M" /\ Addr(s).addr = s
    BY DEF Addr
  <1>e. \A m \in RegResp \cup {EventPkt} :
           /\ [name |-> "D", pkt |-> m] \in ToMain
           /\ [name |-> "D", pkt |-> m] \notin Connected
    BY DEF ToMain, Connected
  <1>1. CASE iothread_connect_to_hostctrl
    <2>1. to_io # <<>> /\ to_io' = Tail(to_io)
      BY <1>1 DEF iothread_connect_to_hostctrl, FromMain
    <2>2. \/ /\ sessions < MaxSessions /\ UNCHANGED to_main
             /\ toctrl' = [toctrl EXCEPT ![sessions + 1] = Append(@, DiaddrReq)]
          \/ UNCHANGED toctrl /\ to_main' = Append(to_main, ConnectDone(-1))
      BY <1>1 DEF iothread_connect_to_hostctrl, SendMain
    <2>3. sessions < MaxSessions => sessions + 1 \in Session
      BY <1>0, HostModAssumption DEF IoOK, Session
    <2> QED BY <1>a, <1>c, <2>1, <2>2, <2>3
  <1>2. CASE iothread_obtain_diaddr
    <2>0. /\ iopc = "obtain" /\ fromctrl[sock] # <<>>
          /\ iopc' = "loop"
          /\ UNCHANGED <<to_io, sock, sessions, toctrl>>
          /\ to_main' = (IF Head(fromctrl[sock]).type = "M"
                         THEN Append(to_main, ConnectDone(Head(fromctrl[sock]).addr))
                         ELSE to_main)
      BY <1>2 DEF iothread_obtain_diaddr
    <2>1. sock \in Session /\ sock <= sessions
      BY <1>0, <2>0 DEF AddressInv, ObtainHasSocket, IoOK
    <2>2. fromctrl[sock] = <<Addr(sock)>>
      BY <2>0 DEF AddressInv
    <2>3. to_main' = Append(to_main, ConnectDone(sock))
      BY <1>d, <2>0, <2>1, <2>2
    <2>4. ConnectDone(sock) \in ToMain /\ ConnectDone(sock).value = sock
      BY <2>1, MainMessages DEF ConnectDone
    <2> QED BY <2>0, <2>1, <2>3, <2>4
  <1>3. CASE iothread_disconnect_from_hostctrl
    <2>1. /\ to_io # <<>> /\ to_io' = Tail(to_io) /\ UNCHANGED toctrl
          /\ \/ UNCHANGED to_main
             \/ to_main' = Append(to_main, [name |-> "I-DISCONNECT-DONE", value |-> 0])
      BY <1>3 DEF iothread_disconnect_from_hostctrl, FromMain, SendMain
    <2> QED BY <1>b, <2>1
  <1>4. CASE ForwardToHostctrl
    <2>1. /\ to_io # <<>> /\ to_io' = Tail(to_io) /\ UNCHANGED to_main
          /\ Head(to_io).type \in {"REG", "EVENT"}
          /\ \/ UNCHANGED toctrl
             \/ /\ sock # 0
                /\ toctrl' = [toctrl EXCEPT ![sock] = Append(@, Head(to_io))]
      BY <1>4 DEF ForwardToHostctrl, FromMain
    <2>2. Head(to_io) \in RegReq \cup {EventPkt}
      BY <1>0, <2>1, QueueTail, IoMessages DEF QueueOK
    <2>3. sock # 0 => sock \in Session
      BY <1>0 DEF IoOK
    <2> QED BY <2>1, <2>2, <2>3
  <1>5. CASE iothread_destroy
    BY <1>5 DEF iothread_destroy, FromMain, envVars
  <1>6. CASE ObtainTimesOut
    BY <1>6, <1>a DEF ObtainTimesOut, SendMain
  <1>7. ASSUME NEW s \in Session, iothread_rcv_from_hostctrl(s)
        PROVE  /\ UNCHANGED <<to_io, toctrl>>
               /\ \/ UNCHANGED to_main
                  \/ \E m \in RegResp \cup {EventPkt} :
                        to_main' = Append(to_main, [name |-> "D", pkt |-> m])
    <2>1. /\ UNCHANGED <<to_io, toctrl>> /\ s \in readers /\ fromctrl[s] # <<>>
          /\ \/ UNCHANGED to_main
             \/ to_main' = Append(to_main, [name |-> "D", pkt |-> Head(fromctrl[s])])
      BY <1>7 DEF iothread_rcv_from_hostctrl
    <2>2. Head(fromctrl[s]) \in RegResp \cup {EventPkt}
      BY <2>1, QueueTail DEF AddressInv
    <2> QED BY <2>1, <2>2
  <1>8. CASE IoReads
    <2>1. /\ UNCHANGED <<to_io, toctrl>>
          /\ \/ UNCHANGED to_main
             \/ \E m \in RegResp \cup {EventPkt} :
                   to_main' = Append(to_main, [name |-> "D", pkt |-> m])
      BY <1>7, <1>8 DEF IoReads
    <2> QED BY <1>e, <2>1
  <1> QED BY <1>1, <1>2, <1>3, <1>4, <1>5, <1>6, <1>8 DEF IoSteps, IoNext

LEMMA SourceStep ==
    ASSUME Types, AddressInv, SourceInv PROVE Next => SourceInv'
  <1> SUFFICES ASSUME Next PROVE SourceInv'
    OBVIOUS
  <1>0. QueueOK /\ CallOK /\ CallShape /\ IoOK
    BY TypeParts
  <1>1. Obtained \subseteq Obtained'
    BY ObtainedGrows
  <1>2. /\ MainOk \subseteq MainOk' /\ IoOk \subseteq IoOk' /\ CtrlOk \subseteq CtrlOk'
        /\ \A q : q \in Seq(MainOk) => q \in Seq(MainOk')
        /\ \A q : q \in Seq(IoOk) => q \in Seq(IoOk')
        /\ \A q : q \in Seq(CtrlOk) => q \in Seq(CtrlOk')
    BY <1>1, OkGrows
  <1>3. to_main # <<>> => Head(to_main) \in MainOk /\ Tail(to_main) \in Seq(MainOk)
    BY QueueTail DEF SourceInv
  <1>4. to_io # <<>> => Head(to_io) \in IoOk /\ Tail(to_io) \in Seq(IoOk)
    BY QueueTail DEF SourceInv
  <1>5. toctrl \in [Session -> Seq(CtrlOk')]
    BY <1>2 DEF SourceInv
  <1>6. CASE MainSteps
    <2>1. UNCHANGED <<toctrl, atmods>>
      BY <1>6, MainFrame DEF envVars
    <2>2. to_main' \in Seq(MainOk')
      BY <1>2, <1>3, <1>6, MainEffect DEF SourceInv
    <2>3. to_io' \in Seq(IoOk')
      <3>1. CASE to_io' = to_io
        BY <1>2, <3>1 DEF SourceInv
      <3>2. CASE to_io' # to_io
        <4>1. PICK x \in IoMsg : /\ to_io' = Append(to_io, x)
                                 /\ x \in RegReq => x.src = diaddr /\ is_connected
          BY <1>6, <3>2, MainEffect
        <4>2. x \in IoOk
          BY <1>0, <4>1 DEF IoOk, SourceInv, CallShape
        <4>3. to_io' \in Seq(IoOk)
          BY <4>1, <4>2, QueueAppend DEF SourceInv
        <4> QED BY <1>2, <4>3
      <3> QED BY <3>1, <3>2
    <2>4. diaddr' # 0 => diaddr' \in Obtained'
      <3>1. CASE diaddr' = diaddr
        BY <1>1, <3>1 DEF SourceInv
      <3>2. CASE diaddr' # diaddr
        <4>1. /\ to_main # <<>> /\ Head(to_main) \in Connected
              /\ diaddr' = Head(to_main).value
          BY <1>6, <3>2, MainEffect
        <4> QED BY <1>1, <1>3, <4>1 DEF MainOk
      <3> QED BY <3>1, <3>2
    <2> QED BY <1>1, <1>5, <2>1, <2>2, <2>3, <2>4 DEF SourceInv
  <1>7. CASE IoSteps
    <2>1. UNCHANGED <<diaddr, atmods>>
      BY <1>7, IoFrame DEF mainVars
    <2>2. to_io' \in Seq(IoOk')
      BY <1>2, <1>4, <1>7, IoEffect DEF SourceInv
    <2>3. to_main' \in Seq(MainOk')
      <3>1. CASE to_main' = to_main
        BY <1>2, <3>1 DEF SourceInv
      <3>2. CASE to_main' # to_main
        <4>1. PICK x \in ToMain :
                 /\ to_main' = Append(to_main, x)
                 /\ x \in Connected => x.value = sock /\ iopc' = "loop" /\ sock' = sock
                                         /\ sock <= sessions /\ sessions' = sessions
          BY <1>7, <3>2, IoEffect
        <4>2. x \in Connected => x.value \in Session
          BY MainMessages
        <4>3. x \in Connected => x.value \in Obtained'
          BY <4>1, <4>2 DEF Obtained
        <4>4. x \in MainOk'
          BY <4>3 DEF MainOk, Connected
        <4>5. to_main \in Seq(MainOk')
          BY <1>2 DEF SourceInv
        <4> QED BY <4>1, <4>4, <4>5, QueueAppend
      <3> QED BY <3>1, <3>2
    <2>4. toctrl' \in [Session -> Seq(CtrlOk')]
      <3>1. CASE toctrl' = toctrl
        BY <1>5, <3>1
      <3>2. CASE toctrl' # toctrl
        <4>1. PICK s \in Session, x \in RegReq \cup {EventPkt, DiaddrReq} :
                 /\ toctrl' = [toctrl EXCEPT ![s] = Append(@, x)]
                 /\ x \in RegReq => to_io # <<>> /\ x = Head(to_io)
          BY <1>7, <3>2, IoEffect
        <4>2. x \in CtrlOk
          BY <1>4, <4>1 DEF CtrlOk, IoOk
        <4>3. Append(toctrl[s], x) \in Seq(CtrlOk')
          BY <1>2, <1>5, <4>2, QueueAppend
        <4> QED BY <1>5, <4>1, <4>3
      <3> QED BY <3>1, <3>2
    <2> QED BY <1>1, <2>1, <2>2, <2>3, <2>4 DEF SourceInv
  <1>8. CASE EnvSteps
    <2>0. UNCHANGED <<diaddr, to_main, to_io, ioVars>>
      BY <1>8, EnvFrame DEF mainVars
    <2>1. /\ \/ toctrl' = toctrl
             \/ \E s \in Session : /\ toctrl[s] # <<>>
                                   /\ toctrl' = [toctrl EXCEPT ![s] = Tail(@)]
          /\ \A r \in atmods' : \/ r \in atmods
                                \/ \E s \in Session : /\ toctrl[s] # <<>>
                                                      /\ r = Head(toctrl[s])
      BY <1>8 DEF EnvSteps, EnvNext, ModuleAnswers, HostctrlTakes, ModuleSendsEvent
    <2>2. \A s \in Session : toctrl[s] # <<>> =>
             Head(toctrl[s]) \in CtrlOk /\ Tail(toctrl[s]) \in Seq(CtrlOk)
      BY QueueTail DEF SourceInv
    <2>3. toctrl' \in [Session -> Seq(CtrlOk')]
      <3>1. CASE toctrl' = toctrl
        BY <1>5, <3>1
      <3>2. CASE toctrl' # toctrl
        <4>1. PICK s \in Session : /\ toctrl[s] # <<>>
                                   /\ toctrl' = [toctrl EXCEPT ![s] = Tail(@)]
          BY <2>1, <3>2
        <4>2. Tail(toctrl[s]) \in Seq(CtrlOk')
          BY <1>2, <2>2, <4>1
        <4> QED BY <1>5, <4>1, <4>2
      <3> QED BY <3>1, <3>2
    <2>4. \A r \in atmods' : r.src \in Obtained'
      <3> SUFFICES ASSUME NEW r \in atmods' PROVE r.src \in Obtained'
        OBVIOUS
      <3>1. r \in RegReq
        <4>1. Types'
          BY <1>8, EnvTypes
        <4> QED BY <4>1 DEF Types, TypeOK
      <3>2. r.src \in Obtained
        BY <2>1, <2>2, <3>1 DEF SourceInv, CtrlOk
      <3> QED BY <1>1, <3>2
    <2> QED BY <1>1, <1>2, <2>0, <2>3, <2>4 DEF SourceInv
  <1> QED BY <1>6, <1>7, <1>8, Steps

(* The messages of the controller and of the modules.                      *)
LEMMA CtrlMessages ==
    /\ DiaddrReq.type = "M" /\ EventPkt.type = "EVENT"
    /\ \A r \in RegReq : r.type = "REG"
    /\ \A r \in RegResp : r.type = "REG"
    /\ \A s \in Session : Addr(s).type = "M" /\ Addr(s).addr = s
  BY DEF DiaddrReq, EventPkt, RegReq, RegResp, Addr

LEMMA AddressIoStep ==
    ASSUME Types, AddressInv, IoSteps PROVE AddressInv'
  <1>0. QueueOK /\ IoOK
    BY TypeParts
  <1>f. /\ toctrl \in [Session -> Seq(RegReq \cup {EventPkt, DiaddrReq})]
        /\ fromctrl \in [Session -> Seq(FromMsg)] /\ readers \subseteq Session
        /\ sessions \in Session \cup {0} /\ sock \in Session \cup {0}
    BY <1>0 DEF QueueOK, IoOK
  <1>1. CASE iothread_connect_to_hostctrl
    <2>0. /\ UNCHANGED <<readers, abort, fromctrl>> /\ iopc = "loop"
          /\ \/ /\ sessions < MaxSessions /\ sessions' = sessions + 1
                /\ sock' = sessions + 1 /\ iopc' = "obtain"
                /\ toctrl' = [toctrl EXCEPT ![sessions + 1] = Append(@, DiaddrReq)]
             \/ sock' = 0 /\ UNCHANGED <<sessions, toctrl, iopc>>
      BY <1>1 DEF iothread_connect_to_hostctrl, FromMain
    <2>1. CASE sock' = 0 /\ UNCHANGED <<sessions, toctrl, iopc>>
      BY <2>0, <2>1 DEF AddressInv, ObtainHasSocket
    <2>2. CASE /\ sessions < MaxSessions /\ sessions' = sessions + 1
               /\ sock' = sessions + 1 /\ iopc' = "obtain"
               /\ toctrl' = [toctrl EXCEPT ![sessions + 1] = Append(@, DiaddrReq)]
      <3>1. sessions + 1 \in Session /\ sessions \in Int /\ sessions + 1 # 0
        BY <1>f, <2>2, HostModAssumption DEF Session
      <3>2. toctrl[sessions + 1] = <<>> /\ fromctrl[sessions + 1] = <<>>
        BY <3>1 DEF AddressInv
      <3>3. /\ toctrl'[sessions + 1] = <<DiaddrReq>>
            /\ \A s \in Session : s # sessions + 1 => toctrl'[s] = toctrl[s]
        BY <1>f, <2>2, <3>1, <3>2
      <3>4. \A s \in readers : s \in Int /\ s <= sessions /\ s # sessions + 1
        BY <1>f, <3>1 DEF AddressInv, Session
      <3>5. \A s \in Session : s > sessions + 1 => s > sessions /\ s # sessions + 1
        BY <3>1 DEF Session
      <3>6. sessions + 1 \notin readers /\ sessions + 1 <= sessions'
        BY <2>2, <3>1, <3>4
      <3>7. \A s \in readers :
               /\ s <= sessions' /\ toctrl'[s] \in Seq(RegReq \cup {EventPkt})
               /\ fromctrl'[s] \in Seq(RegResp \cup {EventPkt})
        <4> SUFFICES ASSUME NEW s \in readers
                     PROVE  /\ s <= sessions' /\ toctrl'[s] = toctrl[s]
                            /\ fromctrl'[s] = fromctrl[s]
          BY DEF AddressInv
        <4> QED BY <1>f, <2>0, <2>2, <3>1, <3>3, <3>4
      <3>8. \A s \in Session : s > sessions' => toctrl'[s] = <<>> /\ fromctrl'[s] = <<>>
        BY <2>0, <2>2, <3>3, <3>5 DEF AddressInv
      <3> QED BY <2>0, <2>2, <3>1, <3>2, <3>3, <3>6, <3>7, <3>8
              DEF AddressInv, ObtainHasSocket
    <2> QED BY <2>0, <2>1, <2>2
  <1>2. CASE iothread_obtain_diaddr
    <2> DEFINE m == Head(fromctrl[sock])
    <2>0. /\ UNCHANGED <<sock, sessions, toctrl>>
          /\ fromctrl' = [fromctrl EXCEPT ![sock] = Tail(@)]
          /\ iopc = "obtain" /\ fromctrl[sock] # <<>>
          /\ iopc' = "loop" /\ readers' = readers \cup {sock}
          /\ abort' = (IF m.type = "M" THEN abort ELSE "mgmt")
      BY <1>2 DEF iothread_obtain_diaddr
    <2>1. /\ sock \in Session /\ sock <= sessions
          /\ toctrl[sock] = <<>> /\ fromctrl[sock] = <<Addr(sock)>>
      BY <1>f, <2>0 DEF AddressInv, ObtainHasSocket
    <2>2. m.type = "M"
      BY <2>1, CtrlMessages
    <2>3. /\ fromctrl'[sock] = <<>>
          /\ \A s \in Session : s # sock => fromctrl'[s] = fromctrl[s]
      BY <1>f, <2>0, <2>1
    <2>4. <<>> \in Seq(RegReq \cup {EventPkt}) /\ <<>> \in Seq(RegResp \cup {EventPkt})
      OBVIOUS
    <2> HIDE DEF m
    <2> QED BY <1>f, <2>0, <2>1, <2>2, <2>3, <2>4 DEF AddressInv, ObtainHasSocket
  <1>3. CASE iothread_disconnect_from_hostctrl
    <2>0. /\ UNCHANGED <<iopc, sessions, toctrl>> /\ iopc = "loop"
          /\ \/ /\ sock # 0 /\ readers' = readers \ {sock} /\ sock' = 0
                /\ fromctrl' = [fromctrl EXCEPT ![sock] = <<>>] /\ UNCHANGED abort
             \/ abort' = "no_socket" /\ UNCHANGED <<readers, sock, fromctrl>>
      BY <1>3 DEF iothread_disconnect_from_hostctrl, FromMain
    <2>1. CASE abort' = "no_socket" /\ UNCHANGED <<readers, sock, fromctrl>>
      BY <2>0, <2>1 DEF AddressInv, ObtainHasSocket
    <2>2. CASE /\ sock # 0 /\ readers' = readers \ {sock} /\ sock' = 0
               /\ fromctrl' = [fromctrl EXCEPT ![sock] = <<>>] /\ UNCHANGED abort
      <3>1. \A s \in Session : fromctrl'[s] = IF s = sock THEN <<>> ELSE fromctrl[s]
        BY <1>f, <2>2
      <3> QED BY <1>f, <2>0, <2>2, <3>1 DEF AddressInv, ObtainHasSocket
    <2> QED BY <2>0, <2>1, <2>2
  <1>4. CASE ForwardToHostctrl
    <2>0. /\ UNCHANGED <<ioVars, fromctrl>> /\ to_io # <<>> /\ iopc = "loop"
          /\ Head(to_io).type \in {"REG", "EVENT"}
          /\ \/ UNCHANGED toctrl /\ abort' = "no_socket"
             \/ /\ sock # 0 /\ UNCHANGED abort
                /\ toctrl' = [toctrl EXCEPT ![sock] = Append(@, Head(to_io))]
      BY <1>4 DEF ForwardToHostctrl, FromMain
    <2>1. CASE UNCHANGED toctrl /\ abort' = "no_socket"
      BY <2>0, <2>1 DEF AddressInv, ObtainHasSocket, ioVars
    <2>2. CASE /\ sock # 0 /\ UNCHANGED abort
               /\ toctrl' = [toctrl EXCEPT ![sock] = Append(@, Head(to_io))]
      <3>1. sock \in readers /\ sock <= sessions
        BY <1>f, <2>0, <2>2 DEF AddressInv
      <3>2. Head(to_io) \in RegReq \cup {EventPkt}
        BY <1>0, <2>0, QueueTail, IoMessages DEF QueueOK
      <3>3. Append(toctrl[sock], Head(to_io)) \in Seq(RegReq \cup {EventPkt})
        BY <3>1, <3>2, QueueAppend DEF AddressInv
      <3>4. /\ toctrl'[sock] \in Seq(RegReq \cup {EventPkt})
            /\ \A s \in Session : s # sock => toctrl'[s] = toctrl[s]
        BY <1>f, <2>2, <3>1, <3>3
      <3>5. \A s \in Session : s > sessions => s # sock
        BY <1>f, <3>1 DEF Session
      <3> QED BY <1>f, <2>0, <2>2, <3>1, <3>4, <3>5 DEF AddressInv, ObtainHasSocket, ioVars
    <2> QED BY <2>0, <2>1, <2>2
  <1>5. CASE iothread_destroy
    BY <1>5 DEF iothread_destroy, FromMain, envVars, AddressInv, ObtainHasSocket
  <1>6. CASE ObtainTimesOut
    <2>0. /\ UNCHANGED <<readers, sessions, abort, toctrl>>
          /\ iopc = "obtain" /\ iopc' = "loop" /\ sock' = 0
          /\ fromctrl' = [fromctrl EXCEPT ![sock] = <<>>]
      BY <1>6 DEF ObtainTimesOut
    <2>1. sock \in Session /\ sock \notin readers
      BY <1>f, <2>0 DEF AddressInv, ObtainHasSocket
    <2>2. \A s \in Session : fromctrl'[s] = IF s = sock THEN <<>> ELSE fromctrl[s]
      BY <1>f, <2>0, <2>1
    <2> QED BY <1>f, <2>0, <2>1, <2>2 DEF AddressInv, ObtainHasSocket
  <1>7. ASSUME NEW s \in Session, iothread_rcv_from_hostctrl(s) PROVE AddressInv'
    <2> DEFINE m == Head(fromctrl[s])
    <2>0. /\ UNCHANGED <<ioVars, toctrl>> /\ s \in readers /\ iopc = "loop"
          /\ fromctrl' = [fromctrl EXCEPT ![s] = Tail(@)] /\ fromctrl[s] # <<>>
          /\ abort' = (IF m.type = "M" THEN "mgmt" ELSE abort)
      BY <1>7 DEF iothread_rcv_from_hostctrl
    <2>1. /\ m \in RegResp \cup {EventPkt}
          /\ Tail(fromctrl[s]) \in Seq(RegResp \cup {EventPkt})
      BY <2>0, QueueTail DEF AddressInv
    <2>2. m.type # "M"
      BY <2>1, CtrlMessages
    <2>3. /\ fromctrl'[s] \in Seq(RegResp \cup {EventPkt})
          /\ \A t \in Session : t # s => fromctrl'[t] = fromctrl[t]
      BY <1>f, <2>0, <2>1
    <2> HIDE DEF m
    <2>4. \A t \in Session : t > sessions => t # s
      BY <1>f, <2>0 DEF AddressInv, Session
    <2> QED BY <1>f, <2>0, <2>2, <2>3, <2>4 DEF AddressInv, ObtainHasSocket, ioVars
  <1>8. CASE IoReads
    BY <1>7, <1>8 DEF IoReads
  <1> QED BY <1>1, <1>2, <1>3, <1>4, <1>5, <1>6, <1>8 DEF IoSteps, IoNext

(* A packet for a session whose address was read is read with the socket   *)
(* of that session, or lost.                                               *)
LEMMA DeliverToReader ==
    ASSUME Types, AddressInv, NEW s \in Obtained \cup readers,
           NEW m \in RegResp \cup {EventPkt},
           Deliver(s, m), UNCHANGED <<ioVars, abort, toctrl>>
    PROVE  AddressInv'
  <1>0. QueueOK /\ IoOK
    BY TypeParts
  <1>f. /\ fromctrl \in [Session -> Seq(FromMsg)] /\ readers \subseteq Session
        /\ sessions \in Session \cup {0} /\ sock \in Session \cup {0}
    BY <1>0 DEF QueueOK, IoOK
  <1>1. CASE ~IsOpen(s)
    BY <1>1 DEF Deliver, AddressInv, ObtainHasSocket, ioVars
  <1>2. CASE IsOpen(s)
    <2>0. s \in Session /\ fromctrl' = [fromctrl EXCEPT ![s] = Append(@, m)]
      BY <1>f, <1>2 DEF Deliver, Obtained
    <2>1. s \in readers
      BY <1>2, <2>0, HostModAssumption DEF IsOpen, Obtained, AddressInv, Session
    <2>2. Append(fromctrl[s], m) \in Seq(RegResp \cup {EventPkt})
      BY <2>1, QueueAppend DEF AddressInv
    <2>3. /\ fromctrl'[s] \in Seq(RegResp \cup {EventPkt})
          /\ \A t \in Session : t # s => fromctrl'[t] = fromctrl[t]
      BY <1>f, <2>0, <2>2
    <2>4. \A t \in Session : t > sessions => t # s
      BY <1>f, <2>1 DEF AddressInv, Session
    <2>5. iopc = "obtain" => s # sock /\ sock \in Session
      BY <1>f, <2>1 DEF AddressInv, ObtainHasSocket
    <2> QED BY <1>f, <2>1, <2>3, <2>4, <2>5 DEF AddressInv, ObtainHasSocket, ioVars
  <1> QED BY <1>1, <1>2

LEMMA AddressEnvStep ==
    ASSUME Types, AddressInv, SourceInv, EnvSteps PROVE AddressInv'
  <1>0. QueueOK /\ IoOK
    BY TypeParts
  <1>f. /\ toctrl \in [Session -> Seq(RegReq \cup {EventPkt, DiaddrReq})]
        /\ fromctrl \in [Session -> Seq(FromMsg)] /\ readers \subseteq Session
        /\ sessions \in Session \cup {0} /\ sock \in Session \cup {0}
    BY <1>0 DEF QueueOK, IoOK
  <1>1. ASSUME NEW s \in Session, HostctrlTakes(s) PROVE AddressInv'
    <2> DEFINE m == Head(toctrl[s])
    <2>0. /\ UNCHANGED <<ioVars, abort>> /\ toctrl[s] # <<>>
          /\ toctrl' = [toctrl EXCEPT ![s] = Tail(@)]
          /\ \/ m.type = "M" /\ Deliver(s, Addr(s))
             \/ m.type \in {"EVENT", "REG"} /\ UNCHANGED fromctrl
      BY <1>1 DEF HostctrlTakes
    <2>1. s <= sessions
      BY <1>f, <2>0 DEF AddressInv, Session
    <2>2. \A t \in Session : /\ t # s => toctrl'[t] = toctrl[t]
                             /\ toctrl'[s] = Tail(toctrl[s])
      BY <1>f, <2>0
    <2>3. \A t \in Session : t > sessions => t # s
      BY <1>f, <2>1 DEF Session
    <2>4. CASE iopc = "obtain" /\ s = sock
      <3>1. toctrl[s] = <<DiaddrReq>> /\ fromctrl[s] = <<>>
        BY <2>0, <2>4 DEF AddressInv
      <3>2. m.type = "M" /\ toctrl'[s] = <<>>
        BY <2>2, <3>1, CtrlMessages
      <3>3. fromctrl' = [fromctrl EXCEPT ![s] = Append(@, Addr(s))]
        BY <2>0, <2>4, <3>2 DEF Deliver, IsOpen
      <3>4. /\ fromctrl'[s] = <<Addr(s)>>
            /\ \A t \in Session : t # s => fromctrl'[t] = fromctrl[t]
        BY <1>f, <3>1, <3>3
      <3>5. s \notin readers
        BY <2>4 DEF AddressInv
      <3> HIDE DEF m
      <3> QED BY <1>f, <2>0, <2>2, <2>3, <2>4, <3>2, <3>4, <3>5
              DEF AddressInv, ObtainHasSocket, ioVars
    <2>5. CASE s \in readers
      <3>1. m \in RegReq \cup {EventPkt} /\ Tail(toctrl[s]) \in Seq(RegReq \cup {EventPkt})
        BY <2>0, <2>5, QueueTail DEF AddressInv
      <3>2. m.type # "M"
        BY <3>1, CtrlMessages
      <3>3. UNCHANGED fromctrl
        BY <2>0, <3>2
      <3>4. iopc = "obtain" => s # sock /\ sock \in Session
        BY <1>f, <2>5 DEF AddressInv, ObtainHasSocket
      <3> HIDE DEF m
      <3> QED BY <1>f, <2>0, <2>2, <2>3, <2>5, <3>1, <3>3, <3>4
              DEF AddressInv, ObtainHasSocket, ioVars
    <2>6. CASE s \notin readers /\ ~(iopc = "obtain" /\ s = sock)
      <3>1. ~IsOpen(s)
        <4>1. s # 0
          BY HostModAssumption DEF Session
        <4> QED BY <2>6, <4>1 DEF IsOpen, AddressInv
      <3>2. UNCHANGED fromctrl
        BY <2>0, <3>1 DEF Deliver
      <3>3. iopc = "obtain" => s # sock /\ sock \in Session
        BY <1>f, <2>6 DEF AddressInv, ObtainHasSocket
      <3> HIDE DEF m
      <3> QED BY <1>f, <2>0, <2>2, <2>3, <2>6, <3>2, <3>3
              DEF AddressInv, ObtainHasSocket, ioVars
    <2> QED BY <2>4, <2>5, <2>6
  <1>2. ASSUME ModuleAnswers PROVE AddressInv'
    <2>1. PICK r \in atmods, ok \in BOOLEAN :
             /\ Deliver(r.src, [type |-> "REG", op |-> r.op, ok |-> ok, id |-> r.id])
             /\ UNCHANGED <<ioVars, abort, toctrl>>
      BY <1>2 DEF ModuleAnswers
    <2>2. r.src \in Obtained /\ r.op \in RegOp /\ r.id \in Access
      BY <1>0 DEF QueueOK, RegReq, SourceInv
    <2>3. [type |-> "REG", op |-> r.op, ok |-> ok, id |-> r.id] \in RegResp
      BY <2>2 DEF RegResp
    <2> QED BY <2>1, <2>2, <2>3, DeliverToReader
  <1>3. ASSUME NEW s \in Session, ModuleSendsEvent(s) PROVE AddressInv'
    <2>1. s \in readers /\ Deliver(s, EventPkt) /\ UNCHANGED <<ioVars, abort, toctrl>>
      BY <1>3 DEF ModuleSendsEvent
    <2> QED BY <2>1, DeliverToReader
  <1> QED BY <1>1, <1>2, <1>3 DEF EnvSteps, EnvNext

LEMMA AddressStep ==
    ASSUME Types, AddressInv, SourceInv PROVE Next => AddressInv'
  <1>1. ASSUME MainSteps PROVE AddressInv'
    <2>1. /\ UNCHANGED <<ioVars, toctrl, fromctrl>>
          /\ abort' \in {abort, "not_packet", "not_reg"}
      BY <1>1, MainFrame DEF envVars
    <2> QED BY <2>1 DEF AddressInv, ObtainHasSocket, ioVars
  <1> QED BY <1>1, AddressIoStep, AddressEnvStep, Steps

-----------------------------------------------------------------------------
(* Calls.  osd_hostmod_connect and osd_hostmod_disconnect wait for a       *)
(* status message; after a wait that timed out its status is still to come *)
(* and is taken for that of a later call.                                  *)

(* A connect was sent and its status not yet received.                     *)
ConnectsUnderWay ==
    ~None(to_io, ConnectCmd) \/ iopc = "obtain" \/ ~None(to_main, Answered)
DisconnectsUnderWay == ~None(to_io, DisconnectCmd) \/ ~None(to_main, Disconnected)
OneConnect ==
    /\ AtMostOne(to_io, ConnectCmd) /\ AtMostOne(to_main, Answered)
    /\ iopc = "obtain" => None(to_io, ConnectCmd) /\ None(to_main, Answered)
    /\ None(to_io, ConnectCmd) \/ None(to_main, Answered)
TwoDisconnects ==
    \/ ~AtMostOne(to_io, DisconnectCmd)
    \/ ~None(to_io, DisconnectCmd) /\ ~None(to_main, Disconnected)

(* Not connected: every socket that is open is one whose address the main  *)
(* thread will be told.                                                    *)
Unconnected ==
    /\ ~is_connected
    /\ to_io \in Seq(ConnectCmd \cup ShutdownCmd) /\ None(to_main, Disconnected)
    /\ \A s \in readers : ~None(to_main, {ConnectDone(s)})
    /\ iopc # "obtain" /\ sock = 0 => Followed(to_main, Connected, NotConnected)
    /\ statustimeouts = 0 =>
          IF mpc = "connect" THEN OneConnect ELSE ~ConnectsUnderWay

(* Connected through the only socket that is open, or about to leave.      *)
Clean ==
    /\ is_connected /\ ~ConnectsUnderWay
    /\ \/ /\ mpc # "disconnect" /\ ~DisconnectsUnderWay
          /\ sock # 0 /\ readers = {sock} /\ diaddr = sock
       \/ /\ mpc = "disconnect" /\ LastIn(to_io, DisconnectCmd)
          /\ AtMostOne(to_io, DisconnectCmd) /\ None(to_main, Disconnected)
          /\ sock # 0 /\ readers = {sock} /\ diaddr = sock
       \/ /\ mpc = "disconnect" /\ to_io = <<>>
          /\ LastIn(to_main, Disconnected) /\ AtMostOne(to_main, Disconnected)
          /\ sock = 0 /\ readers = {}

(* Connected, with a connect or a disconnect too many under way: there     *)
(* will be two disconnects for one socket.                                 *)
Confused ==
    /\ is_connected /\ statustimeouts # 0
    /\ NoneAfter(to_io, DisconnectCmd, ConnectCmd)
    /\ NoneAfter(to_main, Disconnected, Answered \cup Disconnected)
    /\ ~None(to_main, Disconnected) =>
          sock = 0 /\ iopc # "obtain" /\ None(to_io, ConnectCmd)
    /\ IF mpc = "disconnect"
         THEN TwoDisconnects \/ (ConnectsUnderWay /\ DisconnectsUnderWay)
         ELSE ConnectsUnderWay \/ DisconnectsUnderWay

(* Not connected, and the I/O thread is to end the process before it can   *)
(* connect again.                                                          *)
Doomed ==
    /\ ~is_connected /\ statustimeouts # 0
    /\ sock = 0 /\ iopc # "obtain" /\ None(to_main, Answered)
    /\ Leads(to_io, DisconnectCmd, ConnectCmd)

CallInv == Alive => Unconnected \/ Clean \/ Confused \/ Doomed

LEMMA AliveBefore == Next /\ Alive' => Alive
  BY Steps, MainFrame, IoFrame, EnvFrame DEF Alive

LEMMA NoneOrders ==
    ASSUME NEW T, NEW q \in Seq(T), NEW A, NEW B
    PROVE  /\ None(q, A) \/ None(q, B) => NoneAfter(q, A, B)
           /\ LastIn(q, A) => ~None(q, A)
           /\ None(q, A) => AtMostOne(q, A)
           /\ Followed(<<>>, A, B) /\ None(<<>>, A)
  <1>1. Len(q) \in Nat /\ (q # <<>> => Len(q) \in 1 .. Len(q))
    OBVIOUS
  <1>2. LastIn(q, A) => ~None(q, A)
    BY <1>1 DEF LastIn, None
  <1>3. None(q, A) \/ None(q, B) => NoneAfter(q, A, B)
    BY DEF None, NoneAfter
  <1>4. None(q, A) => AtMostOne(q, A)
    BY DEF None, AtMostOne
  <1>5. Followed(<<>>, A, B) /\ None(<<>>, A)
    BY DEF Followed, None
  <1> QED BY <1>2, <1>3, <1>4, <1>5

(* The facts above for the commands and for the status messages.           *)
LEMMA IoTailFacts ==
    ASSUME QueueOK, to_io # <<>>, to_io' = Tail(to_io)
    PROVE  /\ \A S \in {ConnectCmd, DisconnectCmd} :
                 /\ None(to_io, S) <=> Head(to_io) \notin S /\ None(to_io', S)
                 /\ AtMostOne(to_io, S) <=>
                       AtMostOne(to_io', S) /\ (Head(to_io) \in S => None(to_io', S))
                 /\ LastIn(to_io, S) <=>
                       IF to_io' = <<>> THEN Head(to_io) \in S ELSE LastIn(to_io', S)
           /\ NoneAfter(to_io, DisconnectCmd, ConnectCmd) =>
                 /\ NoneAfter(to_io', DisconnectCmd, ConnectCmd)
                 /\ Head(to_io) \in DisconnectCmd => None(to_io', ConnectCmd)
           /\ Leads(to_io, DisconnectCmd, ConnectCmd) /\ Head(to_io) \notin DisconnectCmd =>
                 /\ Leads(to_io', DisconnectCmd, ConnectCmd)
                 /\ Head(to_io) \notin ConnectCmd
  BY NoneTail, OrderTail DEF QueueOK

LEMMA IoAppendFacts ==
    ASSUME QueueOK, NEW x \in IoMsg, to_io' = Append(to_io, x)
    PROVE  /\ \A S \in {ConnectCmd, DisconnectCmd} :
                 /\ None(to_io', S) <=> None(to_io, S) /\ x \notin S
                 /\ AtMostOne(to_io', S) <=>
                       AtMostOne(to_io, S) /\ (x \in S => None(to_io, S))
                 /\ LastIn(to_io', S) <=> x \in S
           /\ NoneAfter(to_io, DisconnectCmd, ConnectCmd)
                /\ (x \in ConnectCmd => None(to_io, DisconnectCmd)) =>
                 NoneAfter(to_io', DisconnectCmd, ConnectCmd)
           /\ Leads(to_io, DisconnectCmd, ConnectCmd) =>
                 Leads(to_io', DisconnectCmd, ConnectCmd)
  BY NoneAppend, OrderAppend DEF QueueOK

LEMMA MainTailFacts ==
    ASSUME QueueOK, to_main # <<>>, to_main' = Tail(to_main)
    PROVE  /\ \A S \in {Answered, Disconnected} :
                 /\ None(to_main, S) <=> Head(to_main) \notin S /\ None(to_main', S)
                 /\ AtMostOne(to_main, S) <=>
                       AtMostOne(to_main', S) /\ (Head(to_main) \in S => None(to_main', S))
                 /\ LastIn(to_main, S) <=>
                       IF to_main' = <<>> THEN Head(to_main) \in S
                                          ELSE LastIn(to_main', S)
           /\ NoneAfter(to_main, Disconnected, Answered \cup Disconnected) =>
                 /\ NoneAfter(to_main', Disconnected, Answered \cup Disconnected)
                 /\ Head(to_main) \in Disconnected =>
                       None(to_main', Answered \cup Disconnected)
           /\ Followed(to_main, Connected, NotConnected) =>
                 /\ Followed(to_main', Connected, NotConnected)
                 /\ Head(to_main) \in Connected => ~None(to_main', NotConnected)
           /\ \A s \in Session : None(to_main, {ConnectDone(s)}) <=>
                 Head(to_main) # ConnectDone(s) /\ None(to_main', {ConnectDone(s)})
  <1>1. to_main \in Seq(ToMain)
    BY DEF QueueOK
  <1>2. \A s \in Session : None(to_main, {ConnectDone(s)}) <=>
           Head(to_main) # ConnectDone(s) /\ None(to_main', {ConnectDone(s)})
    <2> SUFFICES ASSUME NEW s \in Session
                 PROVE  None(to_main, {ConnectDone(s)}) <=>
                          Head(to_main) # ConnectDone(s) /\ None(to_main', {ConnectDone(s)})
      OBVIOUS
    <2>1. None(to_main, {ConnectDone(s)}) <=>
             /\ Head(to_main) \notin {ConnectDone(s)}
             /\ None(Tail(to_main), {ConnectDone(s)})
      BY <1>1, NoneTail
    <2> QED BY <2>1
  <1> QED BY <1>1, <1>2, NoneTail, OrderTail

LEMMA MainAppendFacts ==
    ASSUME QueueOK, NEW x \in ToMain, to_main' = Append(to_main, x)
    PROVE  /\ \A S \in {Answered, Disconnected} :
                 /\ None(to_main', S) <=> None(to_main, S) /\ x \notin S
                 /\ AtMostOne(to_main', S) <=>
                       AtMostOne(to_main, S) /\ (x \in S => None(to_main, S))
                 /\ LastIn(to_main', S) <=> x \in S
           /\ NoneAfter(to_main, Disconnected, Answered \cup Disconnected)
                /\ (x \in Answered \cup Disconnected => None(to_main, Disconnected)) =>
                 NoneAfter(to_main', Disconnected, Answered \cup Disconnected)
           /\ x \in NotConnected \/
                (x \notin Connected /\ Followed(to_main, Connected, NotConnected)) =>
                 Followed(to_main', Connected, NotConnected)
           /\ \A s \in Session : None(to_main', {ConnectDone(s)}) <=>
                 None(to_main, {ConnectDone(s)}) /\ x # ConnectDone(s)
  <1>1. to_main \in Seq(ToMain)
    BY DEF QueueOK
  <1>2. \A s \in Session : None(to_main', {ConnectDone(s)}) <=>
           None(to_main, {ConnectDone(s)}) /\ x # ConnectDone(s)
    <2> SUFFICES ASSUME NEW s \in Session
                 PROVE  None(to_main', {ConnectDone(s)}) <=>
                          None(to_main, {ConnectDone(s)}) /\ x # ConnectDone(s)
      OBVIOUS
    <2>1. None(to_main', {ConnectDone(s)}) <=>
             None(to_main, {ConnectDone(s)}) /\ x \notin {ConnectDone(s)}
      BY <1>1, NoneAppend
    <2> QED BY <2>1
  <1>3. x \in NotConnected => x \notin Connected
    BY DEF NotConnected, Connected, ConnectDone
  <1>4. x \in NotConnected \/
          (x \notin Connected /\ Followed(to_main, Connected, NotConnected)) =>
          Followed(to_main', Connected, NotConnected)
    BY <1>1, <1>3, OrderAppend
  <1> QED BY <1>1, <1>2, <1>4, NoneAppend, OrderAppend

LEMMA InitCall == Init => CallInv
  <1> SUFFICES ASSUME Init PROVE Unconnected
    BY DEF CallInv
  <1>1. <<>> \in Seq(ConnectCmd \cup ShutdownCmd) /\ <<>> \in Seq(ToMain)
    OBVIOUS
  <1>2. \A A, B : Followed(<<>>, A, B) /\ None(<<>>, A)
    BY <1>1, NoneOrders
  <1> QED BY <1>1, <1>2 DEF Init, Unconnected, ConnectsUnderWay

(* A step that has nothing to do with connecting: packets go through the   *)
(* queues, and the main thread enters or leaves another call.              *)
Packets == RegReq \cup {EventPkt}

Neutral ==
    /\ UNCHANGED <<is_connected, diaddr, statustimeouts, sock, readers>>
    /\ (iopc' = "obtain") <=> (iopc = "obtain")
    /\ (mpc' = "connect") <=> (mpc = "connect")
    /\ (mpc' = "disconnect") <=> (mpc = "disconnect")
    /\ \/ to_io' = to_io
       \/ /\ to_io # <<>> /\ to_io' = Tail(to_io)
          /\ Head(to_io) \in Packets \cup ShutdownCmd
       \/ \E x \in Packets : /\ to_io' = Append(to_io, x)
                             /\ is_connected /\ mpc # "disconnect"
       \/ \E x \in ShutdownCmd : to_io' = Append(to_io, x) /\ ~is_connected
    /\ \/ to_main' = to_main
       \/ /\ to_main # <<>> /\ to_main' = Tail(to_main)
          /\ Head(to_main) \in RegPkt \cup EvPkt
       \/ \E x \in RegPkt \cup EvPkt : /\ to_main' = Append(to_main, x)
                                       /\ readers # {}

LEMMA NeutralQueues ==
    ASSUME Types, Neutral
    PROVE  /\ \A S \in {ConnectCmd, DisconnectCmd} :
                 /\ None(to_io', S) <=> None(to_io, S)
                 /\ AtMostOne(to_io', S) <=> AtMostOne(to_io, S)
           /\ NoneAfter(to_io, DisconnectCmd, ConnectCmd) =>
                 NoneAfter(to_io', DisconnectCmd, ConnectCmd)
           /\ Leads(to_io, DisconnectCmd, ConnectCmd) =>
                 Leads(to_io', DisconnectCmd, ConnectCmd)
           /\ mpc = "disconnect" /\ LastIn(to_io, DisconnectCmd) =>
                 LastIn(to_io', DisconnectCmd)
           /\ mpc = "disconnect" /\ is_connected /\ to_io = <<>> => to_io' = <<>>
           /\ \A S \in {Answered, Disconnected} :
                 /\ None(to_main', S) <=> None(to_main, S)
                 /\ AtMostOne(to_main', S) <=> AtMostOne(to_main, S)
           /\ NoneAfter(to_main, Disconnected, Answered \cup Disconnected) =>
                 NoneAfter(to_main', Disconnected, Answered \cup Disconnected)
           /\ Followed(to_main, Connected, NotConnected) =>
                 Followed(to_main', Connected, NotConnected)
           /\ \A s \in Session :
                 None(to_main', {ConnectDone(s)}) <=> None(to_main, {ConnectDone(s)})
           /\ readers = {} /\ LastIn(to_main, Disconnected) =>
                 LastIn(to_main', Disconnected)
  <1>0. QueueOK
    BY TypeParts
  <1>1. \A x \in Packets \cup ShutdownCmd :
           x \in IoMsg /\ x \notin ConnectCmd /\ x \notin DisconnectCmd
    BY IoMessages DEF Packets, ShutdownCmd
  <1>2. \A x \in RegPkt \cup EvPkt :
           /\ x \in ToMain /\ x \notin Answered /\ x \notin Disconnected
           /\ x \notin Connected /\ \A s \in Session : x # ConnectDone(s)
    BY MainMessages DEF Answered
  <1>3. /\ \A S \in {ConnectCmd, DisconnectCmd} :
              /\ None(to_io', S) <=> None(to_io, S)
              /\ AtMostOne(to_io', S) <=> AtMostOne(to_io, S)
        /\ NoneAfter(to_io, DisconnectCmd, ConnectCmd) =>
              NoneAfter(to_io', DisconnectCmd, ConnectCmd)
        /\ Leads(to_io, DisconnectCmd, ConnectCmd) =>
              Leads(to_io', DisconnectCmd, ConnectCmd)
        /\ mpc = "disconnect" /\ is_connected /\ LastIn(to_io, DisconnectCmd) =>
              LastIn(to_io', DisconnectCmd)
        /\ mpc = "disconnect" /\ is_connected /\ to_io = <<>> => to_io' = <<>>
    <2>1. CASE to_io' = to_io
      BY <2>1
    <2>2. CASE /\ to_io # <<>> /\ to_io' = Tail(to_io)
               /\ Head(to_io) \in Packets \cup ShutdownCmd
      BY <1>0, <1>1, <2>2, IoTailFacts
    <2>3. ASSUME NEW x \in Packets \cup ShutdownCmd, to_io' = Append(to_io, x),
                 x \in Packets => mpc # "disconnect", x \notin Packets => ~is_connected
          PROVE  <1>3!1 /\ <1>3!2 /\ <1>3!3 /\ ~(mpc = "disconnect" /\ is_connected)
      BY <1>0, <1>1, <2>3, IoAppendFacts
    <2>4. \/ to_io' = to_io
          \/ /\ to_io # <<>> /\ to_io' = Tail(to_io)
             /\ Head(to_io) \in Packets \cup ShutdownCmd
          \/ \E x \in Packets \cup ShutdownCmd :
                /\ to_io' = Append(to_io, x)
                /\ x \in Packets => mpc # "disconnect"
                /\ x \notin Packets => ~is_connected
      <3>1. \A x \in ShutdownCmd : x \notin Packets
        BY IoMessages DEF Packets, ShutdownCmd
      <3> QED BY <3>1 DEF Neutral
    <2> QED BY <2>1, <2>2, <2>3, <2>4
  <1>4. mpc = "disconnect" => is_connected
    BY TypeParts DEF CallShape
  <1>5. /\ \A S \in {Answered, Disconnected} :
              /\ None(to_main', S) <=> None(to_main, S)
              /\ AtMostOne(to_main', S) <=> AtMostOne(to_main, S)
        /\ NoneAfter(to_main, Disconnected, Answered \cup Disconnected) =>
              NoneAfter(to_main', Disconnected, Answered \cup Disconnected)
        /\ Followed(to_main, Connected, NotConnected) =>
              Followed(to_main', Connected, NotConnected)
        /\ \A s \in Session :
              None(to_main', {ConnectDone(s)}) <=> None(to_main, {ConnectDone(s)})
        /\ readers = {} /\ LastIn(to_main, Disconnected) =>
              LastIn(to_main', Disconnected)
    <2>1. CASE to_main' = to_main
      BY <2>1
    <2>2. CASE /\ to_main # <<>> /\ to_main' = Tail(to_main)
               /\ Head(to_main) \in RegPkt \cup EvPkt
      BY <1>0, <1>2, <2>2, MainTailFacts
    <2>3. ASSUME NEW x \in RegPkt \cup EvPkt, to_main' = Append(to_main, x), readers # {}
          PROVE  <1>5!1 /\ <1>5!2 /\ <1>5!3 /\ <1>5!4
      BY <1>0, <1>2, <2>3, MainAppendFacts
    <2> QED BY <2>1, <2>2, <2>3 DEF Neutral
  <1> QED BY <1>3, <1>4, <1>5

LEMMA NeutralStep ==
    ASSUME Types, Neutral
    PROVE  /\ Unconnected => Unconnected'
           /\ Clean => Clean'
           /\ Confused => Confused'
           /\ Doomed => Doomed'
  <1>0. QueueOK /\ IoOK
    BY TypeParts
  <1>q. UNCHANGED <<is_connected, diaddr, statustimeouts, sock, readers>>
    BY DEF Neutral
  <1>p. /\ (iopc' = "obtain") <=> (iopc = "obtain")
        /\ (mpc' = "connect") <=> (mpc = "connect")
        /\ (mpc' = "disconnect") <=> (mpc = "disconnect")
    BY DEF Neutral
  <1>1. /\ ConnectsUnderWay' <=> ConnectsUnderWay
        /\ DisconnectsUnderWay' <=> DisconnectsUnderWay
        /\ TwoDisconnects' <=> TwoDisconnects
        /\ OneConnect' <=> OneConnect
    BY <1>p, NeutralQueues
       DEF ConnectsUnderWay, DisconnectsUnderWay, TwoDisconnects, OneConnect
  <1>2. ASSUME Unconnected PROVE Unconnected'
    <2>1. to_io' \in Seq(ConnectCmd \cup ShutdownCmd)
      <3>1. CASE to_io' = to_io
        BY <1>2, <3>1 DEF Unconnected
      <3>2. CASE to_io # <<>> /\ to_io' = Tail(to_io)
        BY <1>2, <3>2, QueueTail DEF Unconnected
      <3>3. ASSUME NEW x \in ShutdownCmd, to_io' = Append(to_io, x)
            PROVE  to_io' \in Seq(ConnectCmd \cup ShutdownCmd)
        BY <1>2, <3>3, QueueAppend DEF Unconnected
      <3> QED BY <1>2, <3>1, <3>2, <3>3 DEF Neutral, Unconnected
    <2>2. readers \subseteq Session
      BY <1>0 DEF IoOK
    <2> QED BY <1>2, <1>q, <1>p, <1>1, <2>1, <2>2, NeutralQueues DEF Unconnected
  <1>3. ASSUME Clean PROVE Clean'
    BY <1>3, <1>q, <1>p, <1>1, NeutralQueues DEF Clean
  <1>4. ASSUME Confused PROVE Confused'
    BY <1>4, <1>q, <1>p, <1>1, NeutralQueues DEF Confused
  <1>5. ASSUME Doomed PROVE Doomed'
    BY <1>5, <1>q, <1>p, NeutralQueues DEF Doomed
  <1> QED BY <1>2, <1>3, <1>4, <1>5

(* The neutral steps.                                                      *)
LEMMA MainNeutral ==
    ASSUME Types, Alive'
    PROVE  (osd_hostmod_event_send \/ osd_hostmod_event_receive \/ osd_hostmod_free
             \/ (\E m \in Module : \/ \E o \in RegOp : osd_hostmod_reg(m, o)
                                   \/ osd_hostmod_reg_setbit(m))
             \/ RegReceived \/ EventReceived \/ PacketTimesOut) => Neutral
  <1>0. QueueOK /\ CallOK /\ CallShape
    BY TypeParts
  <1> USE DEF ioVars
  <1>1. ASSUME osd_hostmod_event_send PROVE Neutral
    BY <1>1 DEF osd_hostmod_event_send, Neutral, mainVars, Packets
  <1>2. ASSUME osd_hostmod_event_receive PROVE Neutral
    BY <1>2 DEF osd_hostmod_event_receive, Neutral
  <1>3. ASSUME osd_hostmod_free PROVE Neutral
    BY <1>3 DEF osd_hostmod_free, Neutral, ShutdownCmd
  <1>4. ASSUME NEW m \in Module, NEW o \in RegOp, is_connected,
               accesses < MaxAccesses, SendRequest(m, o)
        PROVE  \E x \in Packets : to_io' = Append(to_io, x)
    BY <1>4, RequestType DEF Packets
  <1>5. ASSUME NEW m \in Module, NEW o \in RegOp, osd_hostmod_reg(m, o) PROVE Neutral
    <2>1. /\ is_connected /\ accesses < MaxAccesses /\ SendRequest(m, o) /\ mpc = "idle"
          /\ UNCHANGED <<is_connected, diaddr, statustimeouts, sock, readers, iopc,
                         to_main>>
          /\ mpc' = "reg"
      BY <1>5 DEF osd_hostmod_reg
    <2> QED BY <1>4, <2>1 DEF Neutral
  <1>6. ASSUME NEW m \in Module, osd_hostmod_reg_setbit(m) PROVE Neutral
    <2>1. /\ is_connected /\ accesses + 1 < MaxAccesses /\ SendRequest(m, "read16")
          /\ mpc = "idle" /\ mpc' = "reg" /\ "read16" \in RegOp
          /\ UNCHANGED <<is_connected, diaddr, statustimeouts, sock, readers, iopc,
                         to_main>>
      BY <1>6 DEF osd_hostmod_reg_setbit, RegOp
    <2>2. accesses < MaxAccesses
      BY <1>0, <2>1, HostModAssumption DEF CallOK, Access
    <2> QED BY <1>4, <2>1, <2>2 DEF Neutral
  <1>7. ASSUME RegReceived PROVE Neutral
    <2>0. /\ UNCHANGED <<is_connected, diaddr, statustimeouts, sock, readers, iopc>>
          /\ to_main # <<>> /\ to_main' = Tail(to_main) /\ mpc = "reg"
          /\ mpc' \in {"reg", "idle"}
          /\ Head(to_main).name = "D"
      BY <1>7 DEF RegReceived, Alive
    <2>1. Head(to_main) \in RegPkt \cup EvPkt
      BY <1>0, <2>0, MainTakes, MainMessages
    <2>2. to_io' = to_io \/ (SendRequest(mod, "write") /\ then)
      BY <1>7 DEF RegReceived
    <2>3. CASE to_io' = to_io
      BY <2>0, <2>1, <2>3 DEF Neutral
    <2>4. CASE SendRequest(mod, "write") /\ then
      <3>1. /\ is_connected /\ accesses < MaxAccesses
            /\ mod \in Module /\ "write" \in RegOp
        BY <1>0, <2>0, <2>4 DEF CallOK, CallShape, RegOp
      <3>2. \E x \in Packets : to_io' = Append(to_io, x)
        BY <1>4, <2>4, <3>1
      <3> QED BY <2>0, <2>1, <3>1, <3>2 DEF Neutral
    <2> QED BY <2>2, <2>3, <2>4
  <1>8. ASSUME EventReceived PROVE Neutral
    <2>0. /\ UNCHANGED <<is_connected, diaddr, statustimeouts, sock, readers, iopc, to_io>>
          /\ to_main # <<>> /\ to_main' = Tail(to_main)
          /\ mpc = "event" /\ mpc' \in {"event", "idle"} /\ Head(to_main).name = "D"
      BY <1>8 DEF EventReceived, Alive
    <2>1. Head(to_main) \in RegPkt \cup EvPkt
      BY <1>0, <2>0, MainTakes, MainMessages
    <2> QED BY <2>0, <2>1 DEF Neutral
  <1>9. ASSUME PacketTimesOut PROVE Neutral
    BY <1>9 DEF PacketTimesOut, Neutral
  <1> QED BY <1>1, <1>2, <1>3, <1>5, <1>6, <1>7, <1>8, <1>9

LEMMA OtherNeutral ==
    ASSUME Types, AddressInv, Alive'
    PROVE  (ForwardToHostctrl \/ iothread_destroy \/ IoReads \/ EnvSteps) => Neutral
  <1>0. QueueOK
    BY TypeParts
  <1>1. ASSUME ForwardToHostctrl PROVE Neutral
    <2>0. /\ UNCHANGED <<mainVars, to_main, ioVars>> /\ to_io # <<>>
          /\ to_io' = Tail(to_io) /\ Head(to_io).type \in {"REG", "EVENT"}
      BY <1>1 DEF ForwardToHostctrl, FromMain
    <2>1. Head(to_io) \in Packets
      BY <1>0, <2>0, QueueTail, IoMessages DEF QueueOK, Packets
    <2> QED BY <2>0, <2>1 DEF Neutral, mainVars, ioVars
  <1>2. ASSUME iothread_destroy PROVE Neutral
    BY <1>2 DEF iothread_destroy, FromMain, Neutral, mainVars, ShutdownCmd
  <1>3. ASSUME NEW s \in Session, iothread_rcv_from_hostctrl(s) PROVE Neutral
    <2>0. /\ UNCHANGED <<mainVars, to_io, ioVars>> /\ s \in readers /\ fromctrl[s] # <<>>
          /\ \/ to_main' = to_main
             \/ to_main' = Append(to_main, [name |-> "D", pkt |-> Head(fromctrl[s])])
      BY <1>3 DEF iothread_rcv_from_hostctrl
    <2>1. Head(fromctrl[s]) \in RegResp \cup {EventPkt}
      BY <2>0, QueueTail DEF AddressInv
    <2>2. [name |-> "D", pkt |-> Head(fromctrl[s])] \in RegPkt \cup EvPkt
      BY <2>1 DEF RegPkt, EvPkt
    <2> QED BY <2>0, <2>2 DEF Neutral, mainVars, ioVars
  <1>4. ASSUME EnvSteps PROVE Neutral
    BY <1>4, EnvFrame DEF Neutral, mainVars, ioVars
  <1> QED BY <1>1, <1>2, <1>3, <1>4 DEF IoReads

(* A call of the main thread sends its command.                            *)
LEMMA CommandStep ==
    ASSUME Types, CallInv
    PROVE  osd_hostmod_connect \/ osd_hostmod_disconnect => CallInv'
  <1>0. QueueOK
    BY TypeParts
  <1>1. ASSUME osd_hostmod_connect PROVE CallInv'
    <2>0. /\ UNCHANGED <<is_connected, diaddr, statustimeouts, to_main, iopc, sock,
                         readers>>
          /\ ~is_connected /\ mpc = "idle" /\ mpc' = "connect" /\ Alive
          /\ to_io' = Append(to_io, Cmd("I-CONNECT"))
      BY <1>1 DEF osd_hostmod_connect, ioVars
    <2>1. /\ Cmd("I-CONNECT") \in ConnectCmd /\ Cmd("I-CONNECT") \in IoMsg
          /\ Cmd("I-CONNECT") \notin DisconnectCmd
      BY IoMessages
    <2>2. CASE Unconnected
      <3>1. to_io' \in Seq(ConnectCmd \cup ShutdownCmd)
        BY <2>0, <2>1, <2>2, QueueAppend DEF Unconnected
      <3>2. ASSUME statustimeouts = 0 PROVE OneConnect'
        <4>1. None(to_io, ConnectCmd) /\ iopc # "obtain" /\ None(to_main, Answered)
          BY <2>0, <2>2, <3>2 DEF Unconnected, ConnectsUnderWay
        <4>2. AtMostOne(to_io, ConnectCmd) /\ AtMostOne(to_main, Answered)
          BY <1>0, <4>1, NoneOrders DEF QueueOK
        <4> QED BY <1>0, <2>0, <2>1, <4>1, <4>2, IoAppendFacts DEF OneConnect
      <3>3. Unconnected'
        BY <2>0, <2>2, <3>1, <3>2 DEF Unconnected
      <3> QED BY <3>3 DEF CallInv
    <2>3. CASE Doomed
      <3>1. Doomed'
        BY <1>0, <2>0, <2>1, <2>3, IoAppendFacts DEF Doomed
      <3> QED BY <3>1 DEF CallInv
    <2> QED BY <2>0, <2>2, <2>3 DEF CallInv, Clean, Confused
  <1>2. ASSUME osd_hostmod_disconnect PROVE CallInv'
    <2>0. /\ UNCHANGED <<is_connected, diaddr, statustimeouts, to_main, iopc, sock,
                         readers>>
          /\ is_connected /\ mpc = "idle" /\ mpc' = "disconnect" /\ Alive
          /\ to_io' = Append(to_io, Cmd("I-DISCONNECT"))
      BY <1>2 DEF osd_hostmod_disconnect, ioVars
    <2>1. /\ Cmd("I-DISCONNECT") \in DisconnectCmd /\ Cmd("I-DISCONNECT") \in IoMsg
          /\ Cmd("I-DISCONNECT") \notin ConnectCmd
      BY IoMessages
    <2>f. /\ \A S \in {ConnectCmd, DisconnectCmd} :
                /\ None(to_io', S) <=> None(to_io, S) /\ Cmd("I-DISCONNECT") \notin S
                /\ AtMostOne(to_io', S) <=>
                     AtMostOne(to_io, S) /\ (Cmd("I-DISCONNECT") \in S => None(to_io, S))
                /\ LastIn(to_io', S) <=> Cmd("I-DISCONNECT") \in S
          /\ NoneAfter(to_io, DisconnectCmd, ConnectCmd) =>
                NoneAfter(to_io', DisconnectCmd, ConnectCmd)
      BY <1>0, <2>0, <2>1, IoAppendFacts
    <2>2. CASE Clean
      <3>1. None(to_io, DisconnectCmd) => AtMostOne(to_io, DisconnectCmd)
        BY <1>0, NoneOrders DEF QueueOK
      <3>2. Clean'
        BY <2>0, <2>1, <2>f, <2>2, <3>1
           DEF Clean, ConnectsUnderWay, DisconnectsUnderWay
      <3> QED BY <3>2 DEF CallInv
    <2>3. CASE Confused
      <3>1. ConnectsUnderWay' = ConnectsUnderWay /\ DisconnectsUnderWay'
        BY <2>0, <2>1, <2>f DEF ConnectsUnderWay, DisconnectsUnderWay
      <3>2. DisconnectsUnderWay => TwoDisconnects'
        BY <2>0, <2>1, <2>f DEF DisconnectsUnderWay, TwoDisconnects
      <3>3. Confused'
        BY <2>0, <2>1, <2>f, <2>3, <3>1, <3>2 DEF Confused
      <3> QED BY <3>3 DEF CallInv
    <2> QED BY <2>0, <2>2, <2>3 DEF CallInv, Unconnected, Doomed
  <1> QED BY <1>1, <1>2

LEMMA StatusTimeoutStep ==
    ASSUME Types, CallInv, StatusTimesOut PROVE CallInv'
  <1>0. QueueOK /\ CallOK
    BY TypeParts
  <1>1. /\ UNCHANGED <<is_connected, diaddr, to_io, to_main, iopc, sock, readers>>
        /\ mpc' = "idle" /\ mpc \in {"connect", "disconnect"} /\ to_main = <<>>
        /\ statustimeouts' = statustimeouts + 1 /\ Alive
    BY DEF StatusTimesOut, ioVars
  <1>2. statustimeouts' # 0
    BY <1>0, <1>1 DEF CallOK
  <1>3. /\ ConnectsUnderWay' <=> ConnectsUnderWay
        /\ DisconnectsUnderWay' <=> DisconnectsUnderWay
    BY <1>1 DEF ConnectsUnderWay, DisconnectsUnderWay
  <1>4. CASE Unconnected
    <2>1. Unconnected'
      BY <1>1, <1>2, <1>4 DEF Unconnected
    <2> QED BY <2>1 DEF CallInv
  <1>5. CASE Clean
    <2>1. ~LastIn(to_main, Disconnected)
      BY <1>1 DEF LastIn
    <2>2. /\ is_connected /\ ~ConnectsUnderWay /\ LastIn(to_io, DisconnectCmd)
          /\ None(to_main, Disconnected)
      <3>1. is_connected /\ ~ConnectsUnderWay
        BY <1>5 DEF Clean
      <3>2. mpc = "disconnect"
        BY <1>1, <3>1, TypeParts DEF CallShape
      <3> QED BY <1>5, <2>1, <3>1, <3>2 DEF Clean
    <2>3. /\ NoneAfter(to_io, DisconnectCmd, ConnectCmd)
          /\ NoneAfter(to_main, Disconnected, Answered \cup Disconnected)
          /\ ~None(to_io, DisconnectCmd)
      BY <1>0, <2>2, NoneOrders DEF QueueOK, ConnectsUnderWay
    <2>4. Confused'
      BY <1>1, <1>2, <1>3, <2>2, <2>3 DEF Confused, DisconnectsUnderWay
    <2> QED BY <2>4 DEF CallInv
  <1>6. CASE Confused
    <2>1. TwoDisconnects => DisconnectsUnderWay
      BY <1>0, NoneOrders DEF TwoDisconnects, DisconnectsUnderWay, QueueOK
    <2>2. Confused'
      BY <1>1, <1>2, <1>3, <1>6, <2>1 DEF Confused
    <2> QED BY <2>2 DEF CallInv
  <1>7. CASE Doomed
    <2>1. Doomed'
      BY <1>1, <1>2, <1>7 DEF Doomed
    <2> QED BY <2>1 DEF CallInv
  <1> QED BY <1>1, <1>4, <1>5, <1>6, <1>7 DEF CallInv

(* The status a connect waits for, or a late one of an earlier connect.    *)
LEMMA ConnectAnswered ==
    ASSUME Types, AddressInv, CallInv, Alive, mpc = "connect",
           to_main # <<>>, Head(to_main) \in Answered, to_main' = Tail(to_main),
           UNCHANGED <<to_io, iopc, sock, readers, statustimeouts, abort>>,
           mpc' = "idle",
           is_connected' = (Head(to_main).value # -1),
           diaddr' = IF Head(to_main).value # -1 THEN Head(to_main).value ELSE diaddr
    PROVE  CallInv'
  <1>0. QueueOK /\ IoOK /\ CallOK /\ CallShape
    BY TypeParts
  <1> DEFINE v == Head(to_main).value
  <1>1. Head(to_main) \in ToMain /\ ~is_connected
    BY <1>0, MainTakes DEF CallShape
  <1>2. /\ v \in Session \cup {-1} /\ Head(to_main) = ConnectDone(v)
        /\ Head(to_main) \notin Disconnected
        /\ Head(to_main) \in Connected <=> v \in Session
    BY <1>1, MainMessages
  <1>3. ~None(to_main, Answered)
    BY <1>0, MainTailFacts
  <1>4. Unconnected
    BY <1>1, <1>3 DEF CallInv, Clean, Confused, Doomed
  <1>5. -1 \notin Session
    BY HostModAssumption DEF Session
  <1>6. \A s, t \in Session \cup {-1} : ConnectDone(s) = ConnectDone(t) => s = t
    BY DEF ConnectDone
  <1>t. /\ \A S \in {Answered, Disconnected} :
              /\ None(to_main, S) <=> Head(to_main) \notin S /\ None(to_main', S)
              /\ AtMostOne(to_main, S) =>
                    (Head(to_main) \in S => None(to_main', S))
        /\ Followed(to_main, Connected, NotConnected) =>
              /\ Followed(to_main', Connected, NotConnected)
              /\ Head(to_main) \in Connected => ~None(to_main', NotConnected)
        /\ \A s \in Session : None(to_main, {ConnectDone(s)}) <=>
              Head(to_main) # ConnectDone(s) /\ None(to_main', {ConnectDone(s)})
    BY <1>0, MainTailFacts
  <1>7. statustimeouts = 0 => ~ConnectsUnderWay'
    <2> SUFFICES ASSUME statustimeouts = 0 PROVE ~ConnectsUnderWay'
      OBVIOUS
    <2>1. OneConnect
      BY <1>4 DEF Unconnected
    <2> QED BY <1>3, <1>t, <2>1 DEF OneConnect, ConnectsUnderWay
  <1> HIDE DEF v
  <1>8. CASE v = -1
    <2>1. ~is_connected'
      BY <1>8 DEF v
    <2>2. \A s \in readers : ~None(to_main', {ConnectDone(s)})
      <3> SUFFICES ASSUME NEW s \in readers PROVE ~None(to_main', {ConnectDone(s)})
        OBVIOUS
      <3>1. s \in Session /\ s # -1
        BY <1>0, <1>5 DEF IoOK
      <3>2. Head(to_main) # ConnectDone(s)
        BY <1>2, <1>6, <1>8, <3>1
      <3> QED BY <1>4, <1>t, <3>1, <3>2 DEF Unconnected
    <2>3. Unconnected'
      BY <1>4, <1>7, <1>t, <2>1, <2>2 DEF Unconnected
    <2> QED BY <2>3 DEF CallInv
  <1>9. CASE v # -1
    <2>0. is_connected' /\ diaddr' = v /\ v \in Session
      BY <1>2, <1>9 DEF v
    <2>1. None(to_io, DisconnectCmd)
      <3>1. DisconnectCmd \cap (ConnectCmd \cup ShutdownCmd) = {}
        BY DEF DisconnectCmd, ConnectCmd, ShutdownCmd, Cmd
      <3> QED BY <1>4, <3>1, NoneDisjoint DEF Unconnected
    <2>2. None(to_main', Disconnected)
      BY <1>2, <1>4, <1>t DEF Unconnected
    <2>3. CASE ConnectsUnderWay'
      <3>1. statustimeouts # 0
        BY <1>7, <2>3
      <3>2. to_main' \in Seq(ToMain) /\ to_io \in Seq(IoMsg)
        BY <1>0, MainTakes DEF QueueOK
      <3>3. /\ NoneAfter(to_io, DisconnectCmd, ConnectCmd)
            /\ NoneAfter(to_main', Disconnected, Answered \cup Disconnected)
        BY <2>1, <2>2, <3>2, NoneOrders
      <3>4. Confused'
        BY <2>0, <2>2, <2>3, <3>1, <3>3 DEF Confused
      <3> QED BY <3>4 DEF CallInv
    <2>4. CASE ~ConnectsUnderWay'
      <3>1. iopc # "obtain" /\ None(to_main', Answered)
        BY <2>4 DEF ConnectsUnderWay
      <3>2. /\ None(to_main', NotConnected)
            /\ \A s \in Session : None(to_main', {ConnectDone(s)})
        <4>1. \A s \in Session : {ConnectDone(s)} \subseteq Answered
          BY MainMessages DEF Answered
        <4>2. NotConnected \subseteq Answered
          BY DEF Answered
        <4> QED BY <3>1, <4>1, <4>2, NoneMonotone
      <3>3. sock # 0
        BY <1>2, <1>4, <1>t, <2>0, <3>1, <3>2 DEF Unconnected
      <3>4. sock \in readers
        BY <3>1, <3>3 DEF AddressInv
      <3>5. \A s \in readers : s = v
        <4> SUFFICES ASSUME NEW s \in readers PROVE s = v
          OBVIOUS
        <4>1. s \in Session
          BY <1>0 DEF IoOK
        <4>2. Head(to_main) = ConnectDone(s)
          BY <1>4, <1>t, <3>2, <4>1 DEF Unconnected
        <4> QED BY <1>2, <1>6, <4>1, <4>2
      <3>6. Clean'
        BY <2>0, <2>1, <2>2, <2>4, <3>3, <3>4, <3>5 DEF Clean, DisconnectsUnderWay
      <3> QED BY <3>6 DEF CallInv
    <2> QED BY <2>3, <2>4
  <1> QED BY <1>8, <1>9

(* The status of a disconnect, received by osd_hostmod_disconnect.         *)
LEMMA DisconnectAnswered ==
    ASSUME Types, AddressInv, CallInv, Alive, mpc = "disconnect",
           to_main # <<>>, Head(to_main) \in Disconnected, to_main' = Tail(to_main),
           UNCHANGED <<to_io, iopc, sock, readers, statustimeouts, abort, diaddr>>,
           mpc' = "idle", is_connected' = FALSE
    PROVE  /\ Clean => Unconnected' /\ to_io = <<>> /\ to_main' = <<>> /\ readers = {}
           /\ ~Clean => Doomed'
           /\ CallInv'
  <1>0. QueueOK /\ IoOK /\ CallOK /\ CallShape
    BY TypeParts
  <1>1. Head(to_main) \in ToMain /\ is_connected /\ Head(to_main) \notin Answered
    BY <1>0, MainTakes, MainMessages DEF CallShape
  <1>t. /\ \A S \in {Answered, Disconnected} :
              /\ None(to_main, S) <=> Head(to_main) \notin S /\ None(to_main', S)
              /\ AtMostOne(to_main, S) => (Head(to_main) \in S => None(to_main', S))
              /\ LastIn(to_main, S) => to_main' = <<>> \/ LastIn(to_main', S)
        /\ NoneAfter(to_main, Disconnected, Answered \cup Disconnected) =>
              None(to_main', Answered \cup Disconnected)
    BY <1>0, MainTailFacts
  <1>2. ASSUME Clean
        PROVE  Unconnected' /\ to_io = <<>> /\ to_main' = <<>> /\ readers = {}
    <2>1. /\ to_io = <<>> /\ LastIn(to_main, Disconnected)
          /\ AtMostOne(to_main, Disconnected) /\ sock = 0 /\ readers = {}
          /\ ~ConnectsUnderWay
      BY <1>2, <1>t DEF Clean
    <2>2. to_main' = <<>>
      <3>1. None(to_main', Disconnected)
        BY <1>t, <2>1
      <3>2. to_main' \in Seq(ToMain)
        BY <1>0, MainTakes
      <3>3. ~LastIn(to_main', Disconnected)
        BY <3>1, <3>2, NoneOrders
      <3> QED BY <1>t, <2>1, <3>3
    <2>3. <<>> \in Seq(ConnectCmd \cup ShutdownCmd) /\ <<>> \in Seq(ToMain)
      OBVIOUS
    <2>4. \A A, B : Followed(<<>>, A, B) /\ None(<<>>, A)
      BY <2>3, NoneOrders
    <2>5. ~ConnectsUnderWay'
      BY <2>1, <2>2, <2>4 DEF ConnectsUnderWay
    <2> QED BY <2>1, <2>2, <2>3, <2>4, <2>5 DEF Unconnected
  <1>3. ASSUME ~Clean PROVE Doomed'
    <2>1. Confused
      BY <1>1, <1>3 DEF CallInv, Unconnected, Doomed
    <2>2. sock = 0 /\ iopc # "obtain" /\ None(to_io, ConnectCmd)
      BY <1>t, <2>1 DEF Confused
    <2>3. None(to_main', Answered \cup Disconnected)
      BY <1>t, <2>1 DEF Confused
    <2>4. None(to_main', Answered)
      BY <2>3, NoneMonotone
    <2>5. ~ConnectsUnderWay
      BY <1>1, <1>t, <2>2, <2>4 DEF ConnectsUnderWay
    <2>6. TwoDisconnects
      BY <2>1, <2>5 DEF Confused
    <2>7. ~None(to_io, DisconnectCmd)
      BY <1>0, <2>6, NoneOrders DEF TwoDisconnects, QueueOK
    <2>8. Leads(to_io, DisconnectCmd, ConnectCmd)
      <3>1. Len(to_io) \in Nat
        BY <1>0 DEF QueueOK
      <3> QED BY <2>2, <2>7, <3>1, Leading
    <2> QED BY <2>1, <2>2, <2>4, <2>8 DEF Doomed, Confused
  <1> QED BY <1>2, <1>3 DEF CallInv

(* A status of the other name: the call fails.                             *)
LEMMA StatusMismatch ==
    ASSUME Types, CallInv, Alive, to_main # <<>>, to_main' = Tail(to_main),
           \/ mpc = "connect" /\ Head(to_main) \in Disconnected
           \/ mpc = "disconnect" /\ Head(to_main) \in Answered,
           UNCHANGED <<to_io, iopc, sock, readers, statustimeouts, abort, diaddr,
                       is_connected>>,
           mpc' = "idle"
    PROVE  CallInv'
  <1>0. QueueOK /\ IoOK /\ CallOK /\ CallShape
    BY TypeParts
  <1>t. /\ \A S \in {Answered, Disconnected} :
              None(to_main, S) <=> Head(to_main) \notin S /\ None(to_main', S)
        /\ NoneAfter(to_main, Disconnected, Answered \cup Disconnected) =>
              NoneAfter(to_main', Disconnected, Answered \cup Disconnected)
    BY <1>0, MainTailFacts
  <1>1. Head(to_main) \in ToMain
    BY <1>0, MainTakes
  <1>2. CASE mpc = "connect" /\ Head(to_main) \in Disconnected
    <2>1. Doomed
      <3>1. ~is_connected
        BY <1>0, <1>2 DEF CallShape
      <3>2. ~Unconnected
        BY <1>2, <1>t DEF Unconnected
      <3> QED BY <3>1, <3>2 DEF CallInv, Clean, Confused
    <2>2. Doomed'
      BY <1>t, <2>1 DEF Doomed
    <2> QED BY <2>2 DEF CallInv
  <1>3. CASE mpc = "disconnect" /\ Head(to_main) \in Answered
    <2>1. is_connected /\ Head(to_main) \notin Disconnected
      BY <1>0, <1>1, <1>3, MainMessages DEF CallShape
    <2>2. Confused
      <3>1. ~Clean
        BY <1>3, <1>t DEF Clean, ConnectsUnderWay
      <3> QED BY <2>1, <3>1 DEF CallInv, Unconnected, Doomed
    <2>3. DisconnectsUnderWay
      BY <1>0, <1>3, <2>2, NoneOrders
         DEF Confused, TwoDisconnects, DisconnectsUnderWay, QueueOK
    <2>4. DisconnectsUnderWay'
      BY <1>t, <2>1, <2>3 DEF DisconnectsUnderWay
    <2>5. ~None(to_main', Disconnected) => ~None(to_main, Disconnected)
      BY <1>t
    <2>6. Confused'
      BY <1>t, <2>2, <2>4, <2>5 DEF Confused
    <2> QED BY <2>6 DEF CallInv
  <1> QED BY <1>2, <1>3

LEMMA StatusStep ==
    ASSUME Types, AddressInv, CallInv, StatusReceived PROVE CallInv'
  <1>0. QueueOK /\ CallShape
    BY TypeParts
  <1>1. /\ UNCHANGED <<to_io, iopc, sock, readers, statustimeouts, abort>>
        /\ Alive /\ mpc \in {"connect", "disconnect"}
        /\ to_main # <<>> /\ to_main' = Tail(to_main)
    BY DEF StatusReceived, ioVars
  <1>2. Head(to_main) \in ToMain
    BY <1>0, <1>1, MainTakes
  <1>3. CASE Head(to_main).name = "D"
    <2>1. /\ UNCHANGED <<mpc, is_connected, diaddr>>
          /\ Head(to_main) \in RegPkt \cup EvPkt
      BY <1>2, <1>3, MainMessages DEF StatusReceived
    <2>2. Neutral
      BY <1>1, <2>1 DEF Neutral
    <2> QED BY <1>1, <2>2, NeutralStep DEF CallInv
  <1>4. CASE Head(to_main).name = "I-CONNECT-DONE" /\ mpc = "connect"
    <2>1. /\ Head(to_main) \in Answered /\ mpc' = "idle"
          /\ is_connected' = (Head(to_main).value # -1)
          /\ diaddr' = IF Head(to_main).value # -1 THEN Head(to_main).value ELSE diaddr
      BY <1>2, <1>4, MainMessages DEF StatusReceived
    <2> QED BY <1>1, <1>4, <2>1, ConnectAnswered
  <1>5. CASE Head(to_main).name = "I-DISCONNECT-DONE" /\ mpc = "disconnect"
    <2>1. /\ Head(to_main) \in Disconnected /\ mpc' = "idle"
          /\ is_connected' = FALSE /\ UNCHANGED diaddr
      BY <1>2, <1>5, MainMessages DEF StatusReceived
    <2> QED BY <1>1, <1>5, <2>1, DisconnectAnswered
  <1>6. CASE \/ Head(to_main).name = "I-DISCONNECT-DONE" /\ mpc = "connect"
             \/ Head(to_main).name = "I-CONNECT-DONE" /\ mpc = "disconnect"
    <2>1. /\ \/ mpc = "connect" /\ Head(to_main) \in Disconnected
             \/ mpc = "disconnect" /\ Head(to_main) \in Answered
          /\ mpc' = "idle" /\ UNCHANGED <<is_connected, diaddr>>
      BY <1>2, <1>6, MainMessages DEF StatusReceived
    <2> QED BY <1>1, <2>1, StatusMismatch
  <1>7. Head(to_main).name \in {"D", "I-CONNECT-DONE", "I-DISCONNECT-DONE"}
    BY <1>2 DEF ToMain
  <1> QED BY <1>1, <1>3, <1>4, <1>5, <1>6, <1>7

(* The status of a connect goes to the main thread.                        *)
LEMMA AnswerSent ==
    ASSUME Types, AddressInv, NEW v \in Session \cup {-1},
           to_main' = Append(to_main, ConnectDone(v)),
           UNCHANGED <<is_connected, mpc, diaddr, statustimeouts>>
    PROVE  /\ None(to_main', Disconnected) <=> None(to_main, Disconnected)
           /\ ~None(to_main', Answered)
           /\ None(to_main, Answered) => AtMostOne(to_main', Answered)
           /\ NoneAfter(to_main, Disconnected, Answered \cup Disconnected)
                /\ None(to_main, Disconnected) =>
                 NoneAfter(to_main', Disconnected, Answered \cup Disconnected)
           /\ v = -1 => Followed(to_main', Connected, NotConnected)
           /\ \A s \in Session : ~None(to_main, {ConnectDone(s)}) =>
                 ~None(to_main', {ConnectDone(s)})
           /\ v \in Session => ~None(to_main', {ConnectDone(v)})
  <1>0. QueueOK
    BY TypeParts
  <1>1. /\ ConnectDone(v) \in ToMain /\ ConnectDone(v) \in Answered
        /\ ConnectDone(v) \notin Disconnected
        /\ v = -1 => ConnectDone(v) \in NotConnected
    BY MainMessages DEF Answered, NotConnected
  <1>2. None(to_main, Answered) => AtMostOne(to_main, Answered)
    BY <1>0, NoneOrders DEF QueueOK
  <1> QED BY <1>0, <1>1, <1>2, MainAppendFacts

LEMMA IoConnectStep ==
    ASSUME Types, AddressInv, CallInv, iothread_connect_to_hostctrl PROVE CallInv'
  <1>0. QueueOK /\ IoOK
    BY TypeParts
  <1>1. /\ UNCHANGED <<is_connected, mpc, diaddr, statustimeouts, readers, abort>>
        /\ Alive /\ iopc = "loop" /\ to_io # <<>> /\ to_io' = Tail(to_io)
        /\ Head(to_io) = Cmd("I-CONNECT")
    BY DEF iothread_connect_to_hostctrl, FromMain, mainVars
  <1>2. /\ Head(to_io) \in ConnectCmd /\ Head(to_io) \notin DisconnectCmd
    BY <1>1, IoMessages
  <1>t. /\ \A S \in {ConnectCmd, DisconnectCmd} :
              /\ None(to_io, S) <=> Head(to_io) \notin S /\ None(to_io', S)
              /\ AtMostOne(to_io, S) <=>
                    AtMostOne(to_io', S) /\ (Head(to_io) \in S => None(to_io', S))
        /\ NoneAfter(to_io, DisconnectCmd, ConnectCmd) =>
              NoneAfter(to_io', DisconnectCmd, ConnectCmd)
        /\ ~(Leads(to_io, DisconnectCmd, ConnectCmd))
    BY <1>0, <1>1, <1>2, IoTailFacts
  <1>3. ~Clean /\ ~Doomed /\ ConnectsUnderWay
    BY <1>2, <1>t DEF Clean, ConnectsUnderWay, Doomed
  <1>4. \/ sock' = 0 /\ iopc' = "loop" /\ to_main' = Append(to_main, ConnectDone(-1))
        \/ iopc' = "obtain" /\ to_main' = to_main
    BY <1>1 DEF iothread_connect_to_hostctrl, SendMain
  <1>5. CASE Unconnected
    <2>1. to_io' \in Seq(ConnectCmd \cup ShutdownCmd)
      BY <1>1, <1>5, QueueTail DEF Unconnected
    <2>2. readers \subseteq Session
      BY <1>0 DEF IoOK
    <2>3. ASSUME statustimeouts = 0
          PROVE  /\ mpc = "connect" /\ None(to_io', ConnectCmd)
                 /\ AtMostOne(to_io', ConnectCmd) /\ None(to_main, Answered)
      BY <1>2, <1>3, <1>5, <1>t, <2>3 DEF Unconnected, OneConnect
    <2>4. CASE iopc' = "obtain" /\ to_main' = to_main
      <3>1. statustimeouts = 0 => OneConnect'
        BY <1>0, <2>3, <2>4, NoneOrders DEF OneConnect, QueueOK
      <3>2. Unconnected'
        BY <1>1, <1>5, <2>1, <2>3, <2>4, <3>1 DEF Unconnected
      <3> QED BY <3>2 DEF CallInv
    <2>5. CASE /\ sock' = 0 /\ iopc' = "loop"
               /\ to_main' = Append(to_main, ConnectDone(-1))
      <3>1. statustimeouts = 0 => OneConnect'
        BY <1>1, <2>3, <2>5, AnswerSent DEF OneConnect
      <3>2. Unconnected'
        BY <1>1, <1>5, <2>1, <2>2, <2>3, <2>5, <3>1, AnswerSent DEF Unconnected
      <3> QED BY <3>2 DEF CallInv
    <2> QED BY <1>4, <2>4, <2>5
  <1>6. CASE Confused
    <2>1. None(to_main, Disconnected)
      BY <1>2, <1>6, <1>t DEF Confused
    <2>2. ConnectsUnderWay'
      BY <1>1, <1>4, AnswerSent DEF ConnectsUnderWay
    <2>3. /\ None(to_main', Disconnected)
          /\ NoneAfter(to_main', Disconnected, Answered \cup Disconnected)
      BY <1>1, <1>4, <1>6, <2>1, AnswerSent DEF Confused
    <2>4. /\ DisconnectsUnderWay' <=> DisconnectsUnderWay
          /\ TwoDisconnects' <=> TwoDisconnects
      BY <1>2, <1>t, <2>1, <2>3 DEF DisconnectsUnderWay, TwoDisconnects
    <2>5. Confused'
      BY <1>1, <1>6, <1>t, <2>2, <2>3, <2>4 DEF Confused
    <2> QED BY <2>5 DEF CallInv
  <1> QED BY <1>1, <1>3, <1>5, <1>6 DEF CallInv

(* The address arrives, or the wait for it times out.                      *)
LEMMA IoAnswerStep ==
    ASSUME Types, AddressInv, CallInv
    PROVE  iothread_obtain_diaddr \/ ObtainTimesOut => CallInv'
  <1>0. QueueOK /\ IoOK
    BY TypeParts
  <1>1. ASSUME NEW v \in Session \cup {-1}, Alive, iopc = "obtain", iopc' = "loop",
               UNCHANGED <<is_connected, mpc, diaddr, statustimeouts, to_io, abort>>,
               to_main' = Append(to_main, ConnectDone(v)),
               \/ v = sock /\ sock' = sock /\ v \in Session /\ readers' = readers \cup {sock}
               \/ v = -1 /\ sock' = 0 /\ readers' = readers
        PROVE  CallInv'
    <2>1. ConnectsUnderWay /\ ~Clean /\ ~Doomed
      BY <1>1 DEF ConnectsUnderWay, Clean, Doomed
    <2>2. CASE Unconnected
      <3>1. ASSUME statustimeouts = 0 PROVE mpc = "connect" /\ OneConnect'
        <4>1. mpc = "connect" /\ OneConnect
          BY <2>1, <2>2, <3>1 DEF Unconnected
        <4>2. None(to_io, ConnectCmd) /\ None(to_main, Answered)
          BY <1>1, <4>1 DEF OneConnect
        <4> QED BY <1>1, <4>1, <4>2, AnswerSent DEF OneConnect
      <3>2. \A s \in readers' : ~None(to_main', {ConnectDone(s)})
        <4>1. readers \subseteq Session
          BY <1>0 DEF IoOK
        <4> QED BY <1>1, <2>2, <4>1, AnswerSent DEF Unconnected
      <3>3. sock' = 0 => Followed(to_main', Connected, NotConnected)
        <4>1. 0 \notin Session
          BY HostModAssumption DEF Session
        <4> QED BY <1>1, <4>1, AnswerSent
      <3>4. Unconnected'
        BY <1>1, <2>2, <3>1, <3>2, <3>3, AnswerSent DEF Unconnected
      <3> QED BY <3>4 DEF CallInv
    <2>3. CASE Confused
      <3>1. None(to_main, Disconnected)
        BY <1>1, <2>3 DEF Confused
      <3>2. /\ ConnectsUnderWay' /\ None(to_main', Disconnected)
            /\ NoneAfter(to_main', Disconnected, Answered \cup Disconnected)
        BY <1>1, <2>3, <3>1, AnswerSent DEF ConnectsUnderWay, Confused
      <3>3. /\ DisconnectsUnderWay' <=> DisconnectsUnderWay
            /\ TwoDisconnects' <=> TwoDisconnects
        BY <1>1, <3>1, <3>2 DEF DisconnectsUnderWay, TwoDisconnects
      <3>4. Confused'
        BY <1>1, <2>3, <3>2, <3>3 DEF Confused
      <3> QED BY <3>4 DEF CallInv
    <2> QED BY <1>1, <2>1, <2>2, <2>3 DEF CallInv
  <1>2. ASSUME iothread_obtain_diaddr PROVE CallInv'
    <2>0. /\ UNCHANGED <<is_connected, mpc, diaddr, statustimeouts, to_io, sock>>
          /\ iopc = "obtain" /\ fromctrl[sock] # <<>> /\ Alive
          /\ iopc' = "loop" /\ readers' = readers \cup {sock}
          /\ abort' = (IF Head(fromctrl[sock]).type = "M" THEN abort ELSE "mgmt")
          /\ to_main' = (IF Head(fromctrl[sock]).type = "M"
                         THEN Append(to_main, ConnectDone(Head(fromctrl[sock]).addr))
                         ELSE to_main)
      BY <1>2 DEF iothread_obtain_diaddr, mainVars
    <2>1. sock \in Session /\ fromctrl[sock] = <<Addr(sock)>>
      BY <1>0, <2>0 DEF IoOK, AddressInv, ObtainHasSocket
    <2>2. Head(fromctrl[sock]).type = "M" /\ Head(fromctrl[sock]).addr = sock
      BY <2>1, CtrlMessages
    <2>3. abort' = abort /\ to_main' = Append(to_main, ConnectDone(sock))
      BY <2>0, <2>2
    <2> QED BY <1>1, <2>0, <2>1, <2>3
  <1>3. ASSUME ObtainTimesOut PROVE CallInv'
    <2>0. /\ UNCHANGED <<is_connected, mpc, diaddr, statustimeouts, to_io, abort, readers>>
          /\ iopc = "obtain" /\ Alive /\ iopc' = "loop" /\ sock' = 0
          /\ to_main' = Append(to_main, ConnectDone(-1))
      BY <1>3 DEF ObtainTimesOut, mainVars, SendMain
    <2> QED BY <1>1, <2>0
  <1> QED BY <1>2, <1>3

LEMMA IoDisconnectStep ==
    ASSUME Types, AddressInv, CallInv, iothread_disconnect_from_hostctrl PROVE CallInv'
  <1> SUFFICES ASSUME Alive' PROVE CallInv'
    BY DEF CallInv
  <1>0. QueueOK /\ IoOK
    BY TypeParts
  <1> DEFINE m == [name |-> "I-DISCONNECT-DONE", value |-> 0]
  <1>1. /\ UNCHANGED <<is_connected, mpc, diaddr, statustimeouts, iopc>>
        /\ Alive /\ iopc = "loop" /\ to_io # <<>> /\ to_io' = Tail(to_io)
        /\ Head(to_io) = Cmd("I-DISCONNECT")
        /\ sock # 0 /\ sock' = 0 /\ readers' = readers \ {sock}
        /\ to_main' = Append(to_main, m)
    BY DEF iothread_disconnect_from_hostctrl, FromMain, mainVars, SendMain, Alive
  <1>2. /\ Head(to_io) \in DisconnectCmd /\ Head(to_io) \notin ConnectCmd
        /\ Head(to_io) \notin ShutdownCmd
    BY <1>1, IoMessages
  <1>3. m \in ToMain /\ m \in Disconnected /\ m \notin Answered
    BY MainMessages
  <1> HIDE DEF m
  <1>t. /\ \A S \in {ConnectCmd, DisconnectCmd} :
              /\ None(to_io, S) <=> Head(to_io) \notin S /\ None(to_io', S)
              /\ AtMostOne(to_io, S) <=>
                    AtMostOne(to_io', S) /\ (Head(to_io) \in S => None(to_io', S))
              /\ LastIn(to_io, S) <=>
                    IF to_io' = <<>> THEN Head(to_io) \in S ELSE LastIn(to_io', S)
        /\ NoneAfter(to_io, DisconnectCmd, ConnectCmd) =>
              /\ NoneAfter(to_io', DisconnectCmd, ConnectCmd)
              /\ Head(to_io) \in DisconnectCmd => None(to_io', ConnectCmd)
    BY <1>0, <1>1, IoTailFacts
  <1>m. /\ \A S \in {Answered, Disconnected} :
              /\ None(to_main', S) <=> None(to_main, S) /\ m \notin S
              /\ AtMostOne(to_main', S) <=>
                    AtMostOne(to_main, S) /\ (m \in S => None(to_main, S))
              /\ LastIn(to_main', S) <=> m \in S
        /\ NoneAfter(to_main, Disconnected, Answered \cup Disconnected)
             /\ None(to_main, Disconnected) =>
              NoneAfter(to_main', Disconnected, Answered \cup Disconnected)
    BY <1>0, <1>1, <1>3, MainAppendFacts
  <1>n. /\ to_io' \in Seq(IoMsg) /\ to_main \in Seq(ToMain)
    BY <1>0, <1>1, QueueTail DEF QueueOK
  <1>4. ~Unconnected /\ ~Doomed
    <2>1. Unconnected => Head(to_io) \in ConnectCmd \cup ShutdownCmd
      BY <1>1, QueueTail DEF Unconnected
    <2> QED BY <1>1, <1>2, <2>1 DEF Doomed
  <1>5. CASE Clean
    <2>1. /\ mpc = "disconnect" /\ LastIn(to_io, DisconnectCmd)
          /\ AtMostOne(to_io, DisconnectCmd) /\ None(to_main, Disconnected)
          /\ readers = {sock}
      BY <1>1, <1>2, <1>5, <1>t DEF Clean, DisconnectsUnderWay
    <2>2. None(to_io', DisconnectCmd)
      BY <1>2, <1>t, <2>1
    <2>3. ~LastIn(to_io', DisconnectCmd)
      BY <1>n, <2>2, NoneOrders
    <2>4. to_io' = <<>>
      BY <1>t, <2>1, <2>3
    <2>5. AtMostOne(to_main, Disconnected)
      BY <1>n, <2>1, NoneOrders
    <2>6. ~ConnectsUnderWay'
      BY <1>1, <1>2, <1>3, <1>5, <1>t, <1>m DEF Clean, ConnectsUnderWay
    <2>7. readers' = {}
      BY <1>1, <2>1
    <2>8. Clean'
      BY <1>1, <1>3, <1>5, <1>m, <2>1, <2>4, <2>5, <2>6, <2>7 DEF Clean
    <2> QED BY <2>8 DEF CallInv
  <1>6. CASE Confused
    <2>1. None(to_main, Disconnected) /\ None(to_io', ConnectCmd)
      BY <1>1, <1>2, <1>6, <1>t DEF Confused
    <2>2. /\ DisconnectsUnderWay'
          /\ NoneAfter(to_main', Disconnected, Answered \cup Disconnected)
          /\ NoneAfter(to_io', DisconnectCmd, ConnectCmd)
      BY <1>3, <1>6, <1>m, <1>t, <2>1 DEF DisconnectsUnderWay, Confused
    <2>3. ConnectsUnderWay => ConnectsUnderWay'
      BY <1>1, <1>2, <1>3, <1>t, <1>m, <2>1 DEF ConnectsUnderWay
    <2>4. TwoDisconnects => TwoDisconnects'
      <3>1. None(to_io', DisconnectCmd) => AtMostOne(to_io', DisconnectCmd)
        BY <1>n, NoneOrders
      <3> QED BY <1>2, <1>3, <1>t, <1>m, <2>1, <3>1 DEF TwoDisconnects
    <2>5. Confused'
      BY <1>1, <1>6, <2>1, <2>2, <2>3, <2>4 DEF Confused
    <2> QED BY <2>5 DEF CallInv
  <1> QED BY <1>1, <1>4, <1>5, <1>6 DEF CallInv

LEMMA CallStep ==
    ASSUME Types, AddressInv, CallInv PROVE Next => CallInv'
  <1> SUFFICES ASSUME Next, Alive' PROVE CallInv'
    BY DEF CallInv
  <1>1. Alive
    BY AliveBefore
  <1>2. Neutral => CallInv'
    BY <1>1, NeutralStep DEF CallInv
  <1>3. MainSteps => CallInv'
    BY <1>2, MainNeutral, CommandStep, StatusTimeoutStep, StatusStep
       DEF MainSteps, MainCalls, MainReturns
  <1>4. IoSteps => CallInv'
    BY <1>2, OtherNeutral, IoConnectStep, IoAnswerStep, IoDisconnectStep
       DEF IoSteps, IoNext
  <1>5. EnvSteps => CallInv'
    BY <1>2, OtherNeutral
  <1> QED BY <1>3, <1>4, <1>5, Steps

-----------------------------------------------------------------------------
(* Assertions.                                                             *)

(* With an event handler no event gets to the main thread.                 *)
HandlerInv == has_handler => None(to_main, EvPkt)

(* What NoAssertFails says beside types and management messages.           *)
AssertInv ==
    statustimeouts = 0 => abort = "no" \/ (abort = "not_reg" /\ ~has_handler)

LEMMA HandlerStep ==
    ASSUME Types, AddressInv, HandlerInv PROVE Next => HandlerInv'
  <1> SUFFICES ASSUME Next, has_handler' PROVE None(to_main', EvPkt)
    BY DEF HandlerInv
  <1>0. QueueOK
    BY TypeParts
  <1>1. has_handler' = has_handler
    BY Steps, MainFrame, IoFrame, EnvFrame DEF envVars, fixVars
  <1>2. None(to_main, EvPkt)
    BY <1>1 DEF HandlerInv
  <1>3. ASSUME NEW x \in ToMain, to_main' = Append(to_main, x), x \notin EvPkt
        PROVE  None(to_main', EvPkt)
    BY <1>0, <1>2, <1>3, NoneAppend DEF QueueOK
  <1>4. CASE to_main' = to_main
    BY <1>2, <1>4
  <1>5. CASE MainSteps
    <2>1. CASE to_main # <<>> /\ to_main' = Tail(to_main)
      BY <1>0, <1>2, <2>1, NoneTail DEF QueueOK
    <2> QED BY <1>4, <1>5, <2>1, MainEffect
  <1>6. ASSUME NEW v \in Session \cup {-1}, to_main' = Append(to_main, ConnectDone(v))
        PROVE  None(to_main', EvPkt)
    BY <1>3, <1>6, MainMessages DEF ConnectDone
  <1>7. CASE iothread_connect_to_hostctrl \/ ObtainTimesOut
    BY <1>4, <1>6, <1>7 DEF iothread_connect_to_hostctrl, ObtainTimesOut, SendMain
  <1>8. CASE iothread_obtain_diaddr
    <2>1. \/ to_main' = to_main
          \/ \E x \in ToMain : /\ to_main' = Append(to_main, x)
                               /\ x.name = "I-CONNECT-DONE"
      <3>0. /\ iopc = "obtain" /\ fromctrl[sock] # <<>>
            /\ to_main' = (IF Head(fromctrl[sock]).type = "M"
                           THEN Append(to_main, ConnectDone(Head(fromctrl[sock]).addr))
                           ELSE to_main)
        BY <1>8 DEF iothread_obtain_diaddr
      <3>1. sock \in Session /\ fromctrl[sock] = <<Addr(sock)>>
        BY <3>0, TypeParts DEF IoOK, AddressInv, ObtainHasSocket
      <3>2. to_main' = Append(to_main, ConnectDone(sock))
        BY <3>0, <3>1, CtrlMessages
      <3> QED BY <3>1, <3>2, MainMessages DEF ConnectDone
    <2> QED BY <1>3, <1>4, <2>1, MainMessages
  <1>9. CASE iothread_disconnect_from_hostctrl
    <2>1. \/ to_main' = to_main
          \/ to_main' = Append(to_main, [name |-> "I-DISCONNECT-DONE", value |-> 0])
      BY <1>9 DEF iothread_disconnect_from_hostctrl, SendMain
    <2> QED BY <1>3, <1>4, <2>1, MainMessages
  <1>10. CASE ForwardToHostctrl \/ iothread_destroy
    BY <1>4, <1>10 DEF ForwardToHostctrl, iothread_destroy
  <1>11. ASSUME NEW s \in Session, iothread_rcv_from_hostctrl(s)
         PROVE  None(to_main', EvPkt)
    <2> DEFINE m == Head(fromctrl[s])
    <2>0. /\ s \in readers /\ fromctrl[s] # <<>>
          /\ \/ to_main' = to_main
             \/ /\ to_main' = Append(to_main, [name |-> "D", pkt |-> m])
                /\ ~IsHandled(m)
      BY <1>11 DEF iothread_rcv_from_hostctrl
    <2>1. m \in RegResp \cup {EventPkt}
      BY <2>0, QueueTail DEF AddressInv
    <2> HIDE DEF m
    <2>2. CASE to_main' = Append(to_main, [name |-> "D", pkt |-> m]) /\ ~IsHandled(m)
      <3>1. m \in RegResp /\ m # EventPkt
        BY <1>1, <2>1, <2>2, CtrlMessages DEF IsHandled
      <3>2. [name |-> "D", pkt |-> m] \in ToMain /\ [name |-> "D", pkt |-> m] \notin EvPkt
        BY <3>1 DEF ToMain, EvPkt
      <3> QED BY <1>3, <2>2, <3>2
    <2> QED BY <1>4, <2>0, <2>2
  <1>12. CASE EnvSteps
    BY <1>4, <1>12, EnvFrame
  <1> QED BY <1>5, <1>7, <1>8, <1>9, <1>10, <1>11, <1>12, Steps
          DEF IoSteps, IoNext, IoReads

(* No wait for a status timed out: a connected module has one socket.      *)
LEMMA InStep ==
    ASSUME CallInv, Alive, statustimeouts = 0
    PROVE  Unconnected \/ Clean
  BY DEF CallInv, Confused, Doomed

LEMMA AssertStep ==
    ASSUME Types, AddressInv, CallInv, HandlerInv, AssertInv PROVE Next => AssertInv'
  <1> SUFFICES ASSUME Next, statustimeouts' = 0
               PROVE  abort' = "no" \/ (abort' = "not_reg" /\ ~has_handler')
    BY DEF AssertInv
  <1>0. QueueOK /\ CallOK /\ CallShape
    BY TypeParts
  <1>1. has_handler' = has_handler
    BY Steps, MainFrame, IoFrame, EnvFrame DEF envVars, fixVars
  <1>2. statustimeouts = 0
    <2>1. CASE StatusTimesOut
      BY <1>0, <2>1 DEF StatusTimesOut, CallOK
    <2>2. CASE ~StatusTimesOut
      <3>1. statustimeouts' = statustimeouts
        <4>1. CASE MainCalls
          BY <4>1 DEF MainCalls, osd_hostmod_connect, osd_hostmod_disconnect,
             osd_hostmod_reg, osd_hostmod_reg_setbit, osd_hostmod_event_send,
             osd_hostmod_event_receive, osd_hostmod_free, mainVars
        <4>2. CASE MainReturns \/ PacketTimesOut
          BY <4>2 DEF MainReturns, StatusReceived, RegReceived, EventReceived,
             PacketTimesOut
        <4>3. CASE IoSteps \/ EnvSteps
          BY <4>3, IoFrame, EnvFrame DEF mainVars
        <4> QED BY <2>2, <4>1, <4>2, <4>3, Steps DEF MainSteps
      <3> QED BY <3>1
    <2> QED BY <2>1, <2>2
  <1>3. CASE abort' = abort
    BY <1>1, <1>2, <1>3 DEF AssertInv
  <1>4. ASSUME Alive, mpc \in {"reg", "event"}, to_main # <<>>
        PROVE  Head(to_main).name = "D"
    <2>1. Clean
      BY <1>0, <1>2, <1>4, InStep DEF Unconnected, CallShape
    <2>2. None(to_main, Answered) /\ None(to_main, Disconnected)
      BY <1>4, <2>1 DEF Clean, ConnectsUnderWay, DisconnectsUnderWay
    <2>3. Head(to_main) \in ToMain
      BY <1>0, <1>4, MainTakes
    <2>4. Head(to_main) \notin Answered /\ Head(to_main) \notin Disconnected
      BY <1>0, <1>4, <2>2, NoneTail DEF QueueOK
    <2>5. Head(to_main).name \in {"D", "I-CONNECT-DONE", "I-DISCONNECT-DONE"}
      BY <2>3 DEF ToMain
    <2> QED BY <2>3, <2>4, <2>5, MainMessages
  <1>5. CASE RegReceived
    <2>0. Alive /\ mpc = "reg" /\ to_main # <<>>
      BY <1>5 DEF RegReceived
    <2>1. abort' = abort \/ (abort' = "not_reg" /\ Head(to_main).pkt.type # "REG")
      BY <1>4, <1>5, <2>0 DEF RegReceived
    <2>2. CASE abort' = "not_reg" /\ Head(to_main).pkt.type # "REG"
      <3>1. Head(to_main) \in EvPkt
        BY <1>0, <1>4, <2>0, <2>2, MainTakes, MainMessages
      <3>2. ~None(to_main, EvPkt)
        BY <1>0, <2>0, <3>1, NoneTail DEF QueueOK
      <3> QED BY <1>1, <2>2, <3>2 DEF HandlerInv
    <2> QED BY <1>3, <2>1, <2>2
  <1>6. CASE EventReceived
    <2>0. Alive /\ mpc = "event" /\ to_main # <<>>
      BY <1>6 DEF EventReceived
    <2>1. abort' = abort
      BY <1>4, <1>6, <2>0 DEF EventReceived
    <2> QED BY <1>3, <2>1
  <1>7. CASE iothread_disconnect_from_hostctrl \/ ForwardToHostctrl
    <2>0. /\ Alive /\ to_io # <<>>
          /\ Head(to_io).type \in {"I-DISCONNECT", "REG", "EVENT"}
          /\ abort' = abort \/ sock = 0
      BY <1>7, IoMessages
         DEF iothread_disconnect_from_hostctrl, ForwardToHostctrl, FromMain
    <2>1. ~Unconnected
      <3>1. Unconnected => Head(to_io) \in ConnectCmd \cup ShutdownCmd
        BY <2>0, QueueTail DEF Unconnected
      <3>2. Head(to_io) \in IoMsg
        BY <1>0, <2>0, QueueTail DEF QueueOK
      <3> QED BY <2>0, <3>1, <3>2, IoMessages
    <2>2. sock # 0
      BY <1>2, <2>0, <2>1, InStep DEF Clean
    <2> QED BY <1>3, <2>0, <2>2
  <1>8. CASE iothread_obtain_diaddr \/ IoReads
    <2>1. abort' \in {abort, "mgmt"}
      BY <1>8 DEF iothread_obtain_diaddr, IoReads, iothread_rcv_from_hostctrl
    <2>2. AddressInv'
      BY <1>8, AddressIoStep DEF IoSteps, IoNext
    <2> QED BY <1>3, <2>1, <2>2 DEF AddressInv
  <1>9. CASE iothread_connect_to_hostctrl \/ iothread_destroy \/ ObtainTimesOut
    BY <1>3, <1>9 DEF iothread_connect_to_hostctrl, iothread_destroy, ObtainTimesOut
  <1>10. CASE MainCalls \/ StatusReceived \/ StatusTimesOut \/ PacketTimesOut
    <2>1. abort' = abort
      BY <1>10 DEF MainCalls, osd_hostmod_connect, osd_hostmod_disconnect,
         osd_hostmod_reg, osd_hostmod_reg_setbit, osd_hostmod_event_send,
         osd_hostmod_event_receive, osd_hostmod_free, StatusReceived, StatusTimesOut,
         PacketTimesOut
    <2> QED BY <1>3, <2>1
  <1>11. CASE EnvSteps
    BY <1>3, <1>11, EnvFrame
  <1> QED BY <1>5, <1>6, <1>7, <1>8, <1>9, <1>10, <1>11, Steps
          DEF MainSteps, MainReturns, IoSteps, IoNext

(* The step that ends the process leaves the connection as it is.          *)
LEMMA AbortFrame ==
    ASSUME Types, AddressInv, SourceInv, Next, ~Alive'
    PROVE  UNCHANGED <<is_connected, mpc, diaddr, statustimeouts, sock, readers>>
  <1>0. AddressInv'
    BY AddressStep
  <1>1. CASE EnvSteps
    BY <1>1, EnvFrame DEF mainVars, ioVars
  <1>2. CASE MainSteps
    <2>1. Alive
      BY <1>2, MainFrame
    <2>2. CASE RegReceived
      BY <2>1, <2>2 DEF RegReceived, Alive, ioVars
    <2>3. CASE EventReceived
      BY <2>1, <2>3 DEF EventReceived, Alive, ioVars
    <2>4. CASE MainCalls \/ StatusReceived \/ StatusTimesOut \/ PacketTimesOut
      <3>1. abort' = abort
        BY <2>4 DEF MainCalls, osd_hostmod_connect, osd_hostmod_disconnect,
           osd_hostmod_reg, osd_hostmod_reg_setbit, osd_hostmod_event_send,
           osd_hostmod_event_receive, osd_hostmod_free, StatusReceived,
           StatusTimesOut, PacketTimesOut
      <3> QED BY <2>1, <3>1 DEF Alive
    <2> QED BY <1>2, <2>2, <2>3, <2>4 DEF MainSteps, MainReturns
  <1>3. CASE IoSteps
    <2>1. Alive /\ UNCHANGED mainVars
      BY <1>3, IoFrame
    <2>2. CASE iothread_disconnect_from_hostctrl
      BY <2>1, <2>2 DEF iothread_disconnect_from_hostctrl, Alive, mainVars
    <2>3. CASE ForwardToHostctrl
      BY <2>1, <2>3 DEF ForwardToHostctrl, mainVars, ioVars
    <2>4. CASE iothread_obtain_diaddr \/ IoReads
      <3>1. abort' \in {abort, "mgmt"}
        BY <2>4 DEF iothread_obtain_diaddr, IoReads, iothread_rcv_from_hostctrl
      <3> QED BY <1>0, <2>1, <3>1 DEF AddressInv, Alive
    <2>5. CASE iothread_connect_to_hostctrl \/ iothread_destroy \/ ObtainTimesOut
      <3>1. abort' = abort
        BY <2>5 DEF iothread_connect_to_hostctrl, iothread_destroy, ObtainTimesOut
      <3> QED BY <2>1, <3>1 DEF Alive
    <2> QED BY <1>3, <2>2, <2>3, <2>4, <2>5 DEF IoSteps, IoNext
  <1> QED BY <1>1, <1>2, <1>3, Steps

LEMMA CurrentStep ==
    ASSUME Types, AddressInv, SourceInv, CallInv, AddressIsCurrent
    PROVE  Next => AddressIsCurrent'
  <1> SUFFICES ASSUME Next PROVE AddressIsCurrent'
    OBVIOUS
  <1>1. CASE Alive'
    <2>1. CallInv'
      BY CallStep
    <2>2. statustimeouts' = 0 /\ is_connected' => Clean'
      BY <1>1, <2>1 DEF CallInv, Unconnected, Confused, Doomed
    <2> QED BY <2>2 DEF Clean, AddressIsCurrent
  <1>2. CASE ~Alive'
    <2>1. /\ is_connected' = is_connected /\ mpc' = mpc /\ diaddr' = diaddr
          /\ statustimeouts' = statustimeouts /\ sock' = sock /\ readers' = readers
      BY <1>2, AbortFrame
    <2> QED BY <2>1, Zenon DEF AddressIsCurrent
  <1> QED BY <1>1, <1>2
-----------------------------------------------------------------------------
(* Register accesses.  Unless an access of this connection has timed out,  *)
(* no register packet is under way between accesses, and during one there  *)
(* is at most one: its own request, or the response to it.  What is under  *)
(* way for a connection that is closed cannot come back.                   *)

Live     == {r \in RegReq : r.src \in readers}
ThisReq  == {r \in RegReq : r.id = accesses}
ThisResp == {r \in RegResp : r.id = accesses}
ThisPkt  == [name : {"D"}, pkt : ThisResp]

(* Nothing at the I/O thread, at the host controller, at the modules, on   *)
(* the way back, and at the main thread.                                   *)
NoIo   == None(to_io, RegReq)
NoCtrl == \A s \in Session : None(toctrl[s], Live)
NoMods == atmods \cap Live = {}
NoFrom == \A s \in readers : None(fromctrl[s], RegResp)
NoMain == None(to_main, RegPkt)

(* There is nothing but one packet of the present access.                  *)
OneIo   == AtMostOne(to_io, RegReq) /\ None(to_io, RegReq \ ThisReq)
OneCtrl ==
    /\ \A s \in Session : AtMostOne(toctrl[s], Live) /\ None(toctrl[s], Live \ ThisReq)
    /\ \A s, t \in Session : s = t \/ None(toctrl[s], Live) \/ None(toctrl[t], Live)
OneMods == atmods \cap Live \subseteq ThisReq /\ \A q, r \in atmods \cap Live : q = r
OneFrom ==
    /\ \A s \in readers : /\ AtMostOne(fromctrl[s], RegResp)
                          /\ None(fromctrl[s], RegResp \ ThisResp)
    /\ \A s, t \in readers :
          s = t \/ None(fromctrl[s], RegResp) \/ None(fromctrl[t], RegResp)
OneMain == AtMostOne(to_main, RegPkt) /\ None(to_main, RegPkt \ ThisPkt)

Quiet  == NoIo /\ NoCtrl /\ NoMods /\ NoFrom /\ NoMain
AtIo   == OneIo /\ NoCtrl /\ NoMods /\ NoFrom /\ NoMain
AtCtrl == NoIo /\ OneCtrl /\ NoMods /\ NoFrom /\ NoMain
AtMods == NoIo /\ NoCtrl /\ OneMods /\ NoFrom /\ NoMain
AtFrom == NoIo /\ NoCtrl /\ NoMods /\ OneFrom /\ NoMain
AtMain == NoIo /\ NoCtrl /\ NoMods /\ NoFrom /\ OneMain

UnderWay == IF mpc = "reg" THEN AtIo \/ AtCtrl \/ AtMods \/ AtFrom \/ AtMain ELSE Quiet

(* Before the connect, or in a connection without a timeout.               *)
InScope == Alive /\ (Unconnected \/ (is_connected /\ timeouts = 0))

ExchangeInv == InScope => UnderWay

(* Queue p, which is what became of q, has no more messages of S than q.   *)
Fewer(q, p, S) ==
    (None(q, S) => None(p, S)) /\ (AtMostOne(q, S) => AtMostOne(p, S))

LEMMA FewerSame == ASSUME NEW q, NEW S PROVE Fewer(q, q, S)
  BY DEF Fewer

LEMMA FewerEmpty == ASSUME NEW q, NEW S PROVE Fewer(q, <<>>, S)
  BY EmptyQueue DEF Fewer

LEMMA FewerTail ==
    ASSUME NEW T, NEW q \in Seq(T), q # <<>>, NEW S PROVE Fewer(q, Tail(q), S)
  BY NoneTail DEF Fewer

LEMMA FewerAppend ==
    ASSUME NEW T, NEW q \in Seq(T), NEW x \in T, NEW S, x \notin S
    PROVE  Fewer(q, Append(q, x), S)
  BY NoneAppend DEF Fewer

(* The places, when a step adds no register packet to them.                *)
LEMMA KeepIo ==
    ASSUME accesses' = accesses, \A S \in SUBSET RegReq : Fewer(to_io, to_io', S)
    PROVE  (NoIo => NoIo') /\ (OneIo => OneIo')
  <1>1. ThisReq' = ThisReq
    BY DEF ThisReq
  <1>2. Fewer(to_io, to_io', RegReq) /\ Fewer(to_io, to_io', RegReq \ ThisReq)
    OBVIOUS
  <1> QED BY <1>1, <1>2 DEF NoIo, OneIo, Fewer

LEMMA KeepMain ==
    ASSUME accesses' = accesses, \A S \in SUBSET RegPkt : Fewer(to_main, to_main', S)
    PROVE  (NoMain => NoMain') /\ (OneMain => OneMain')
  <1>1. ThisPkt' = ThisPkt
    BY DEF ThisPkt, ThisResp
  <1>2. Fewer(to_main, to_main', RegPkt) /\ Fewer(to_main, to_main', RegPkt \ ThisPkt)
    OBVIOUS
  <1> QED BY <1>1, <1>2 DEF NoMain, OneMain, Fewer

LEMMA KeepMods ==
    ASSUME accesses' = accesses, atmods' \cap Live' \subseteq atmods \cap Live
    PROVE  (NoMods => NoMods') /\ (OneMods => OneMods')
  <1>1. ThisReq' = ThisReq
    BY DEF ThisReq
  <1> QED BY <1>1 DEF NoMods, OneMods

LEMMA KeepCtrl ==
    ASSUME accesses' = accesses,
           \A s \in Session : None(toctrl[s], Live' \ Live),
           \A s \in Session, S \in SUBSET RegReq : Fewer(toctrl[s], toctrl'[s], S)
    PROVE  (NoCtrl => NoCtrl') /\ (OneCtrl => OneCtrl')
  <1>0. Live' \subseteq RegReq /\ Live' \ ThisReq \subseteq RegReq /\ ThisReq' = ThisReq
    BY DEF Live, ThisReq
  <1>1. ASSUME NEW s \in Session
        PROVE  /\ None(toctrl[s], Live) => None(toctrl'[s], Live')
               /\ AtMostOne(toctrl[s], Live) => AtMostOne(toctrl'[s], Live')
               /\ None(toctrl[s], Live \ ThisReq) =>
                     None(toctrl'[s], (Live \ ThisReq)')
    <2>1. /\ None(toctrl[s], Live) => None(toctrl[s], Live')
          /\ AtMostOne(toctrl[s], Live) => AtMostOne(toctrl[s], Live')
          /\ None(toctrl[s], Live \ ThisReq) => None(toctrl[s], Live' \ ThisReq)
      <3>1. None(toctrl[s], Live' \ Live)
        OBVIOUS
      <3> QED BY <3>1 DEF None, AtMostOne
    <2>2. Fewer(toctrl[s], toctrl'[s], Live') /\ Fewer(toctrl[s], toctrl'[s], Live' \ ThisReq)
      BY <1>0
    <2> QED BY <1>0, <2>1, <2>2 DEF Fewer
  <1>2. NoCtrl => NoCtrl'
    BY <1>1 DEF NoCtrl
  <1>3. OneCtrl => OneCtrl'
    BY <1>1 DEF OneCtrl
  <1> QED BY <1>2, <1>3

LEMMA KeepFrom ==
    ASSUME accesses' = accesses,
           \A s \in readers' :
              \/ None(fromctrl'[s], RegResp)
              \/ /\ s \in readers
                 /\ \A S \in SUBSET RegResp : Fewer(fromctrl[s], fromctrl'[s], S)
    PROVE  (NoFrom => NoFrom') /\ (OneFrom => OneFrom')
  <1>0. ThisResp' = ThisResp /\ RegResp \ ThisResp \subseteq RegResp
    BY DEF ThisResp
  <1>1. ASSUME NEW s \in readers'
        PROVE  \/ /\ None(fromctrl'[s], RegResp) /\ AtMostOne(fromctrl'[s], RegResp)
                  /\ None(fromctrl'[s], RegResp \ ThisResp)
               \/ /\ s \in readers
                  /\ Fewer(fromctrl[s], fromctrl'[s], RegResp)
                  /\ Fewer(fromctrl[s], fromctrl'[s], RegResp \ ThisResp)
    <2>1. CASE None(fromctrl'[s], RegResp)
      BY <2>1, <1>0, NoneMonotone
    <2>2. CASE /\ s \in readers
               /\ \A S \in SUBSET RegResp : Fewer(fromctrl[s], fromctrl'[s], S)
      BY <1>0, <2>2
    <2> QED BY <2>1, <2>2
  <1>2. NoFrom => NoFrom'
    BY <1>1 DEF NoFrom, Fewer
  <1>3. OneFrom => OneFrom'
    BY <1>0, <1>1 DEF OneFrom, Fewer
  <1> QED BY <1>2, <1>3

LEMMA Quieter ==
    ASSUME (mpc' = "reg") <=> (mpc = "reg"), UnderWay,
           (NoIo => NoIo') /\ (OneIo => OneIo'),
           (NoCtrl => NoCtrl') /\ (OneCtrl => OneCtrl'),
           (NoMods => NoMods') /\ (OneMods => OneMods'),
           (NoFrom => NoFrom') /\ (OneFrom => OneFrom'),
           (NoMain => NoMain') /\ (OneMain => OneMain')
    PROVE  UnderWay'
  BY DEF UnderWay, Quiet, AtIo, AtCtrl, AtMods, AtFrom, AtMain
(* The environment's places, when a step leaves them alone.                *)
LEMMA KeepEnv ==
    ASSUME UNCHANGED <<accesses, readers, toctrl, fromctrl, atmods>>
    PROVE  /\ (NoCtrl => NoCtrl') /\ (OneCtrl => OneCtrl')
           /\ (NoMods => NoMods') /\ (OneMods => OneMods')
           /\ (NoFrom => NoFrom') /\ (OneFrom => OneFrom')
  BY DEF NoCtrl, OneCtrl, NoMods, OneMods, NoFrom, OneFrom, Live, ThisReq, ThisResp

LEMMA IoFewer ==
    ASSUME QueueOK
    PROVE  /\ to_io' = to_io => \A S \in SUBSET RegReq : Fewer(to_io, to_io', S)
           /\ to_io # <<>> /\ to_io' = Tail(to_io) =>
                 \A S \in SUBSET RegReq : Fewer(to_io, to_io', S)
           /\ \A x \in IoMsg : x \notin RegReq /\ to_io' = Append(to_io, x) =>
                 \A S \in SUBSET RegReq : Fewer(to_io, to_io', S)
  <1>0. to_io \in Seq(IoMsg)
    BY DEF QueueOK
  <1>1. to_io' = to_io => \A S \in SUBSET RegReq : Fewer(to_io, to_io', S)
    BY FewerSame
  <1>2. to_io # <<>> /\ to_io' = Tail(to_io) =>
           \A S \in SUBSET RegReq : Fewer(to_io, to_io', S)
    BY <1>0, FewerTail
  <1>3. ASSUME NEW x \in IoMsg, x \notin RegReq, to_io' = Append(to_io, x),
               NEW S \in SUBSET RegReq
        PROVE  Fewer(to_io, to_io', S)
    BY <1>0, <1>3, FewerAppend
  <1> QED BY <1>1, <1>2, <1>3

LEMMA MainFewer ==
    ASSUME QueueOK
    PROVE  /\ to_main' = to_main => \A S \in SUBSET RegPkt : Fewer(to_main, to_main', S)
           /\ to_main # <<>> /\ to_main' = Tail(to_main) =>
                 \A S \in SUBSET RegPkt : Fewer(to_main, to_main', S)
           /\ \A x \in ToMain : x \notin RegPkt /\ to_main' = Append(to_main, x) =>
                 \A S \in SUBSET RegPkt : Fewer(to_main, to_main', S)
  <1>0. to_main \in Seq(ToMain)
    BY DEF QueueOK
  <1>1. to_main' = to_main => \A S \in SUBSET RegPkt : Fewer(to_main, to_main', S)
    BY FewerSame
  <1>2. to_main # <<>> /\ to_main' = Tail(to_main) =>
           \A S \in SUBSET RegPkt : Fewer(to_main, to_main', S)
    BY <1>0, FewerTail
  <1>3. ASSUME NEW x \in ToMain, x \notin RegPkt, to_main' = Append(to_main, x),
               NEW S \in SUBSET RegPkt
        PROVE  Fewer(to_main, to_main', S)
    BY <1>0, <1>3, FewerAppend
  <1> QED BY <1>1, <1>2, <1>3

(* The main thread outside of register accesses.                           *)
LEMMA OtherMainExchange ==
    ASSUME Types, UnderWay,
           \/ osd_hostmod_connect \/ osd_hostmod_disconnect \/ osd_hostmod_event_send
           \/ osd_hostmod_event_receive \/ osd_hostmod_free \/ StatusReceived
           \/ EventReceived \/ StatusTimesOut \/ (PacketTimesOut /\ mpc # "reg")
    PROVE  UnderWay'
  <1>0. QueueOK
    BY TypeParts
  <1>1. /\ UNCHANGED <<accesses, readers, toctrl, fromctrl, atmods>>
        /\ mpc # "reg" /\ mpc' # "reg"
    BY DEF osd_hostmod_connect, osd_hostmod_disconnect, osd_hostmod_event_send,
       osd_hostmod_event_receive, osd_hostmod_free, StatusReceived, EventReceived,
       StatusTimesOut, PacketTimesOut, ioVars, envVars, mainVars
  <1>2. \/ to_io' = to_io
        \/ to_io' = Append(to_io, Cmd("I-CONNECT"))
        \/ to_io' = Append(to_io, Cmd("I-DISCONNECT"))
        \/ to_io' = Append(to_io, Cmd("I-SHUTDOWN"))
        \/ to_io' = Append(to_io, EventPkt)
    BY DEF osd_hostmod_connect, osd_hostmod_disconnect, osd_hostmod_event_send,
       osd_hostmod_event_receive, osd_hostmod_free, StatusReceived, EventReceived,
       StatusTimesOut, PacketTimesOut
  <1>3. to_main' = to_main \/ (to_main # <<>> /\ to_main' = Tail(to_main))
    BY DEF osd_hostmod_connect, osd_hostmod_disconnect, osd_hostmod_event_send,
       osd_hostmod_event_receive, osd_hostmod_free, StatusReceived, EventReceived,
       StatusTimesOut, PacketTimesOut
  <1>4. \A x \in {Cmd("I-CONNECT"), Cmd("I-DISCONNECT"), Cmd("I-SHUTDOWN"), EventPkt} :
           x \in IoMsg /\ x \notin RegReq
    BY IoMessages
  <1>5. \A S \in SUBSET RegReq : Fewer(to_io, to_io', S)
    BY <1>0, <1>2, <1>4, IoFewer
  <1>6. \A S \in SUBSET RegPkt : Fewer(to_main, to_main', S)
    BY <1>0, <1>3, MainFewer
  <1> QED BY <1>1, <1>5, <1>6, KeepIo, KeepMain, KeepEnv, Quieter

(* A request is put into the empty pipeline.                               *)
LEMMA RequestSent ==
    ASSUME Types, is_connected, accesses < MaxAccesses,
           NEW m \in Module, NEW o \in RegOp, SendRequest(m, o),
           UNCHANGED <<readers, toctrl, fromctrl, atmods>>,
           NoIo, NoCtrl, NoMods, NoFrom, NoMain'
    PROVE  AtIo'
  <1>0. QueueOK
    BY TypeParts
  <1>1. PICK r \in RegReq : to_io' = Append(to_io, r) /\ r.id = accesses + 1
    BY RequestType
  <1>2. accesses' = accesses + 1
    BY RequestType
  <1>3. r \in ThisReq'
    BY <1>1, <1>2 DEF ThisReq
  <1>4. to_io \in Seq(IoMsg) /\ r \in IoMsg
    BY <1>0, IoMessages DEF QueueOK
  <1>5. None(to_io, RegReq) /\ None(to_io, RegReq \ ThisReq') /\ AtMostOne(to_io, RegReq)
    BY NoneMonotone DEF NoIo
  <1>6. OneIo'
    BY <1>1, <1>3, <1>4, <1>5, NoneAppend DEF OneIo
  <1>7. NoCtrl' /\ NoMods' /\ NoFrom'
    BY DEF NoCtrl, NoMods, NoFrom, Live
  <1> QED BY <1>6, <1>7 DEF AtIo

LEMMA RegExchange ==
    ASSUME Types, UnderWay, NEW m \in Module
    PROVE  (\E o \in RegOp : osd_hostmod_reg(m, o)) \/ osd_hostmod_reg_setbit(m)
             => UnderWay'
  <1>1. ASSUME NEW o \in RegOp, mpc = "idle", is_connected, accesses < MaxAccesses,
               SendRequest(m, o), mpc' = "reg",
               UNCHANGED <<readers, toctrl, fromctrl, atmods, to_main>>
        PROVE  UnderWay'
    <2>1. Quiet
      BY <1>1 DEF UnderWay
    <2>2. NoMain'
      BY <1>1, <2>1 DEF Quiet, NoMain
    <2>3. AtIo'
      BY <1>1, <2>1, <2>2, RequestSent DEF Quiet
    <2> QED BY <1>1, <2>3 DEF UnderWay
  <1>2. ASSUME NEW o \in RegOp, osd_hostmod_reg(m, o) PROVE UnderWay'
    BY <1>1, <1>2 DEF osd_hostmod_reg, ioVars, envVars
  <1>3. ASSUME osd_hostmod_reg_setbit(m) PROVE UnderWay'
    <2>1. accesses + 1 < MaxAccesses => accesses < MaxAccesses
      BY TypeParts, HostModAssumption DEF CallOK, Access
    <2>2. "read16" \in RegOp
      BY DEF RegOp
    <2> QED BY <1>1, <1>3, <2>1, <2>2 DEF osd_hostmod_reg_setbit, ioVars, envVars
  <1> QED BY <1>2, <1>3

(* The response taken is the one to the present access, and the last       *)
(* packet under way.                                                       *)
LEMMA RegExchangeEnds ==
    ASSUME Types, UnderWay, RegReceived, Alive'
    PROVE  UnderWay' /\ last'.got = last'.id
  <1>0. QueueOK /\ CallShape /\ CallOK /\ BoolOK
    BY TypeParts
  <1>1. /\ mpc = "reg" /\ to_main # <<>> /\ to_main' = Tail(to_main)
        /\ UNCHANGED <<readers, toctrl, fromctrl, atmods>>
        /\ Head(to_main).name = "D" /\ Head(to_main).pkt.type = "REG"
        /\ last' = [rv |-> Check(Head(to_main).pkt), id |-> accesses,
                    got |-> Head(to_main).pkt.id, late |-> timeouts > 0]
        /\ \/ then /\ SendRequest(mod, "write") /\ mpc' = mpc
           \/ mpc' = "idle" /\ UNCHANGED <<accesses, to_io>>
    BY DEF RegReceived, Alive, ioVars, envVars
  <1>2. Head(to_main) \in RegPkt /\ to_main \in Seq(ToMain)
    BY <1>0, <1>1, MainTakes, MainMessages DEF QueueOK
  <1>3. ~NoMain
    BY <1>1, <1>2, NoneTail DEF NoMain
  <1>4. AtMain
    BY <1>1, <1>3 DEF UnderWay, AtIo, AtCtrl, AtMods, AtFrom
  <1>5. NoMain'
    BY <1>1, <1>2, <1>4, NoneTail DEF AtMain, OneMain, NoMain
  <1>6. Head(to_main).pkt.id = accesses
    <2>1. Head(to_main) \notin RegPkt \ ThisPkt
      BY <1>1, <1>2, <1>4, NoneTail DEF AtMain, OneMain
    <2> QED BY <1>2, <2>1 DEF ThisPkt, ThisResp
  <1>7. CASE then /\ SendRequest(mod, "write") /\ mpc' = mpc
    <2>1. is_connected /\ accesses < MaxAccesses /\ mod \in Module /\ "write" \in RegOp
      BY <1>0, <1>1, <1>7 DEF CallShape, CallOK, RegOp
    <2>2. AtIo'
      BY <1>1, <1>4, <1>5, <1>7, <2>1, RequestSent DEF AtMain
    <2>3. UnderWay'
      BY <1>1, <1>7, <2>2 DEF UnderWay
    <2> QED BY <1>1, <1>6, <2>3
  <1>8. CASE mpc' = "idle" /\ UNCHANGED <<accesses, to_io>>
    <2>1. NoIo' /\ NoCtrl' /\ NoMods' /\ NoFrom'
      BY <1>1, <1>4, <1>8 DEF AtMain, NoIo, NoCtrl, NoMods, NoFrom, Live
    <2>2. UnderWay'
      BY <1>5, <1>8, <2>1 DEF UnderWay, Quiet
    <2> QED BY <1>1, <1>6, <2>2
  <1> QED BY <1>1, <1>7, <1>8
(* What the open connections hold, when a step leaves them open.           *)
LEMMA KeepLive ==
    ASSUME readers' \subseteq readers
    PROVE  Live' \subseteq Live /\ \A s \in Session : None(toctrl[s], Live' \ Live)
  <1>1. Live' \subseteq Live
    BY DEF Live
  <1> QED BY <1>1 DEF None

LEMMA CtrlFewer ==
    ASSUME QueueOK, NEW s \in Session, NEW x \in RegReq \cup {EventPkt, DiaddrReq}
    PROVE  /\ toctrl' = toctrl =>
                 \A t \in Session, S \in SUBSET RegReq : Fewer(toctrl[t], toctrl'[t], S)
           /\ toctrl[s] # <<>> /\ toctrl' = [toctrl EXCEPT ![s] = Tail(@)] =>
                 \A t \in Session, S \in SUBSET RegReq : Fewer(toctrl[t], toctrl'[t], S)
           /\ x \notin RegReq /\ toctrl' = [toctrl EXCEPT ![s] = Append(@, x)] =>
                 \A t \in Session, S \in SUBSET RegReq : Fewer(toctrl[t], toctrl'[t], S)
  <1> DEFINE T == RegReq \cup {EventPkt, DiaddrReq}
  <1>0. toctrl \in [Session -> Seq(T)] /\ toctrl[s] \in Seq(T) /\ x \in T
    BY DEF QueueOK
  <1> HIDE DEF T
  <1>1. toctrl' = toctrl =>
           \A t \in Session, S \in SUBSET RegReq : Fewer(toctrl[t], toctrl'[t], S)
    BY FewerSame
  <1>2. ASSUME toctrl[s] # <<>>, toctrl' = [toctrl EXCEPT ![s] = Tail(@)],
               NEW t \in Session, NEW S \in SUBSET RegReq
        PROVE  Fewer(toctrl[t], toctrl'[t], S)
    <2>1. toctrl'[t] = IF t = s THEN Tail(toctrl[s]) ELSE toctrl[t]
      BY <1>0, <1>2
    <2> QED BY <1>0, <1>2, <2>1, FewerSame, FewerTail
  <1>3. ASSUME x \notin RegReq, toctrl' = [toctrl EXCEPT ![s] = Append(@, x)],
               NEW t \in Session, NEW S \in SUBSET RegReq
        PROVE  Fewer(toctrl[t], toctrl'[t], S)
    <2>1. toctrl'[t] = IF t = s THEN Append(toctrl[s], x) ELSE toctrl[t]
      BY <1>0, <1>3
    <2> QED BY <1>0, <1>3, <2>1, FewerSame, FewerAppend
  <1> QED BY <1>1, <1>2, <1>3

LEMMA FromFewer ==
    ASSUME QueueOK, NEW s \in Session, NEW x \in FromMsg
    PROVE  /\ fromctrl' = fromctrl =>
                 \A t \in Session, S \in SUBSET RegResp : Fewer(fromctrl[t], fromctrl'[t], S)
           /\ fromctrl[s] # <<>> /\ fromctrl' = [fromctrl EXCEPT ![s] = Tail(@)] =>
                 \A t \in Session, S \in SUBSET RegResp : Fewer(fromctrl[t], fromctrl'[t], S)
           /\ fromctrl' = [fromctrl EXCEPT ![s] = <<>>] =>
                 \A t \in Session, S \in SUBSET RegResp : Fewer(fromctrl[t], fromctrl'[t], S)
           /\ x \notin RegResp /\ fromctrl' = [fromctrl EXCEPT ![s] = Append(@, x)] =>
                 \A t \in Session, S \in SUBSET RegResp : Fewer(fromctrl[t], fromctrl'[t], S)
  <1>0. fromctrl \in [Session -> Seq(FromMsg)] /\ fromctrl[s] \in Seq(FromMsg)
    BY DEF QueueOK
  <1>1. fromctrl' = fromctrl =>
           \A t \in Session, S \in SUBSET RegResp : Fewer(fromctrl[t], fromctrl'[t], S)
    BY FewerSame
  <1>2. ASSUME fromctrl[s] # <<>>, fromctrl' = [fromctrl EXCEPT ![s] = Tail(@)],
               NEW t \in Session, NEW S \in SUBSET RegResp
        PROVE  Fewer(fromctrl[t], fromctrl'[t], S)
    <2>1. fromctrl'[t] = IF t = s THEN Tail(fromctrl[s]) ELSE fromctrl[t]
      BY <1>0, <1>2
    <2> QED BY <1>0, <1>2, <2>1, FewerSame, FewerTail
  <1>3. ASSUME fromctrl' = [fromctrl EXCEPT ![s] = <<>>],
               NEW t \in Session, NEW S \in SUBSET RegResp
        PROVE  Fewer(fromctrl[t], fromctrl'[t], S)
    <2>1. fromctrl'[t] = IF t = s THEN <<>> ELSE fromctrl[t]
      BY <1>0, <1>3
    <2> QED BY <2>1, FewerSame, FewerEmpty
  <1>4. ASSUME x \notin RegResp, fromctrl' = [fromctrl EXCEPT ![s] = Append(@, x)],
               NEW t \in Session, NEW S \in SUBSET RegResp
        PROVE  Fewer(fromctrl[t], fromctrl'[t], S)
    <2>1. fromctrl'[t] = IF t = s THEN Append(fromctrl[s], x) ELSE fromctrl[t]
      BY <1>0, <1>4
    <2> QED BY <1>0, <1>4, <2>1, FewerSame, FewerAppend
  <1> QED BY <1>1, <1>2, <1>3, <1>4

(* The I/O thread when it takes a command or ends a wait for an address.   *)
LEMMA IoCommandExchange ==
    ASSUME Types, AddressInv, SourceInv, UnderWay
    PROVE  (\/ iothread_connect_to_hostctrl \/ ObtainTimesOut
            \/ iothread_disconnect_from_hostctrl \/ iothread_destroy) => UnderWay'
  <1> SUFFICES ASSUME \/ iothread_connect_to_hostctrl \/ ObtainTimesOut
                      \/ iothread_disconnect_from_hostctrl \/ iothread_destroy
               PROVE  UnderWay'
    OBVIOUS
  <1>0. QueueOK /\ IoOK
    BY TypeParts
  <1>1. UNCHANGED <<accesses, mpc, atmods>> /\ readers' \subseteq readers
    BY DEF iothread_connect_to_hostctrl, ObtainTimesOut, iothread_destroy,
       iothread_disconnect_from_hostctrl, mainVars, envVars
  <1>2. to_io' = to_io \/ (to_io # <<>> /\ to_io' = Tail(to_io))
    BY DEF iothread_connect_to_hostctrl, ObtainTimesOut, iothread_destroy,
       iothread_disconnect_from_hostctrl, FromMain
  <1>3. \/ to_main' = to_main
        \/ \E x \in ToMain : x \notin RegPkt /\ to_main' = Append(to_main, x)
    <2>1. /\ ConnectDone(-1) \in ToMain /\ ConnectDone(-1) \notin RegPkt
          /\ [name |-> "I-DISCONNECT-DONE", value |-> 0] \in ToMain
          /\ [name |-> "I-DISCONNECT-DONE", value |-> 0] \notin RegPkt
      BY MainMessages DEF RegPkt, ConnectDone
    <2>2. \/ to_main' = to_main
          \/ to_main' = Append(to_main, ConnectDone(-1))
          \/ to_main' = Append(to_main, [name |-> "I-DISCONNECT-DONE", value |-> 0])
      BY DEF iothread_connect_to_hostctrl, ObtainTimesOut, iothread_destroy,
         iothread_disconnect_from_hostctrl, SendMain
    <2> QED BY <2>1, <2>2
  <1>4. \/ toctrl' = toctrl
        \/ \E s \in Session, x \in {DiaddrReq} :
              toctrl' = [toctrl EXCEPT ![s] = Append(@, x)]
    <2>1. sessions < MaxSessions => sessions + 1 \in Session
      BY <1>0, HostModAssumption DEF IoOK, Session
    <2> QED BY <2>1 DEF iothread_connect_to_hostctrl, ObtainTimesOut, iothread_destroy,
               iothread_disconnect_from_hostctrl, envVars
  <1>5. \/ fromctrl' = fromctrl
        \/ \E s \in Session : fromctrl' = [fromctrl EXCEPT ![s] = <<>>]
    <2>1. (iopc = "obtain" \/ sock # 0) => sock \in Session
      BY <1>0 DEF IoOK, AddressInv, ObtainHasSocket
    <2> QED BY <2>1 DEF iothread_connect_to_hostctrl, ObtainTimesOut, iothread_destroy,
               iothread_disconnect_from_hostctrl, envVars
  <1>6. \A S \in SUBSET RegReq : Fewer(to_io, to_io', S)
    BY <1>0, <1>2, IoFewer
  <1>7. \A S \in SUBSET RegPkt : Fewer(to_main, to_main', S)
    BY <1>0, <1>3, MainFewer
  <1>8. DiaddrReq \notin RegReq
    BY DEF DiaddrReq, RegReq
  <1>9. \A s \in Session, S \in SUBSET RegReq : Fewer(toctrl[s], toctrl'[s], S)
    BY <1>0, <1>4, <1>8, CtrlFewer
  <1>10. \A s \in Session, S \in SUBSET RegResp : Fewer(fromctrl[s], fromctrl'[s], S)
    <2>1. EventPkt \in FromMsg
      BY DEF FromMsg
    <2> QED BY <1>0, <1>5, <2>1, FromFewer
  <1>11. readers' \subseteq Session
    BY <1>0, <1>1 DEF IoOK
  <1>12. (NoFrom => NoFrom') /\ (OneFrom => OneFrom')
    BY <1>1, <1>10, <1>11, KeepFrom
  <1>13. (NoCtrl => NoCtrl') /\ (OneCtrl => OneCtrl')
    BY <1>1, <1>9, KeepLive, KeepCtrl
  <1>14. (NoMods => NoMods') /\ (OneMods => OneMods')
    BY <1>1, KeepLive, KeepMods
  <1> QED BY <1>1, <1>6, <1>7, <1>12, <1>13, <1>14, KeepIo, KeepMain, Quieter

(* A new connection: no request carries its address yet.                   *)
LEMMA ObtainExchange ==
    ASSUME Types, AddressInv, SourceInv, UnderWay, iothread_obtain_diaddr
    PROVE  UnderWay'
  <1>0. QueueOK /\ IoOK
    BY TypeParts
  <1>1. /\ UNCHANGED <<accesses, mpc, atmods, toctrl, to_io>> /\ iopc = "obtain"
        /\ readers' = readers \cup {sock} /\ fromctrl[sock] # <<>>
        /\ fromctrl' = [fromctrl EXCEPT ![sock] = Tail(@)]
        /\ to_main' = IF Head(fromctrl[sock]).type = "M"
                      THEN Append(to_main, ConnectDone(Head(fromctrl[sock]).addr))
                      ELSE to_main
    BY DEF iothread_obtain_diaddr, mainVars
  <1>2. sock \in Session /\ fromctrl[sock] = <<Addr(sock)>>
    BY <1>0, <1>1 DEF IoOK, AddressInv, ObtainHasSocket
  <1>3. fromctrl'[sock] = <<>> /\ \A s \in Session : s # sock => fromctrl'[s] = fromctrl[s]
    BY <1>0, <1>1, <1>2 DEF QueueOK
  <1>4. /\ to_main' = Append(to_main, ConnectDone(sock))
        /\ ConnectDone(sock) \in ToMain /\ ConnectDone(sock) \notin RegPkt
    <2>1. Head(fromctrl[sock]) = Addr(sock)
      BY <1>2
    <2>2. ConnectDone(sock) \in ToMain /\ ConnectDone(sock) \notin RegPkt
      BY <1>2, MainMessages DEF RegPkt, ConnectDone
    <2> QED BY <1>1, <1>2, <2>1, <2>2, CtrlMessages
  <1>5. \A S \in SUBSET RegPkt : Fewer(to_main, to_main', S)
    BY <1>0, <1>4, MainFewer
  <1>6. \A S \in SUBSET RegReq : Fewer(to_io, to_io', S)
    BY <1>0, <1>1, IoFewer
  <1>7. \A r \in Live' \ Live : r \in RegReq /\ r.src \notin Obtained
    BY <1>1 DEF Live, Obtained
  <1>8. \A s \in Session : None(toctrl[s], Live' \ Live)
    <2>1. (Live' \ Live) \cap CtrlOk = {}
      BY <1>7 DEF CtrlOk
    <2> QED BY <2>1, NoneDisjoint DEF SourceInv
  <1>9. atmods' \cap Live' \subseteq atmods \cap Live
    BY <1>1, <1>7 DEF SourceInv
  <1>10. \A s \in Session, S \in SUBSET RegReq : Fewer(toctrl[s], toctrl'[s], S)
    BY <1>1, FewerSame
  <1>11. \A s \in readers' :
            \/ None(fromctrl'[s], RegResp)
            \/ /\ s \in readers
               /\ \A S \in SUBSET RegResp : Fewer(fromctrl[s], fromctrl'[s], S)
    BY <1>0, <1>1, <1>3, EmptyQueue, FewerSame DEF IoOK
  <1>12. (NoFrom => NoFrom') /\ (OneFrom => OneFrom')
    BY <1>1, <1>11, KeepFrom
  <1>13. (NoCtrl => NoCtrl') /\ (OneCtrl => OneCtrl')
    BY <1>1, <1>8, <1>10, KeepCtrl
  <1>14. (NoMods => NoMods') /\ (OneMods => OneMods')
    BY <1>1, <1>9, KeepMods
  <1> QED BY <1>1, <1>5, <1>6, <1>12, <1>13, <1>14, KeepIo, KeepMain, Quieter
(* The request goes from the main thread to the host controller.           *)
LEMMA ForwardExchange ==
    ASSUME Types, UnderWay, ForwardToHostctrl PROVE UnderWay'
  <1> DEFINE T == RegReq \cup {EventPkt, DiaddrReq}
             x == Head(to_io)
  <1>0. QueueOK /\ IoOK
    BY TypeParts
  <1>1. /\ UNCHANGED <<accesses, mpc, atmods, to_main, readers, fromctrl>>
        /\ to_io # <<>> /\ to_io' = Tail(to_io) /\ x.type \in {"REG", "EVENT"}
        /\ \/ sock # 0 /\ toctrl' = [toctrl EXCEPT ![sock] = Append(@, x)]
           \/ toctrl' = toctrl
    BY DEF ForwardToHostctrl, FromMain, mainVars, ioVars
  <1>2. /\ x \in IoMsg /\ to_io \in Seq(IoMsg) /\ toctrl \in [Session -> Seq(T)]
        /\ x \in RegReq \cup {EventPkt}
    BY <1>0, <1>1, QueueTail, IoMessages DEF QueueOK
  <1>3. sock # 0 => sock \in Session
    BY <1>0 DEF IoOK
  <1>4. CASE toctrl' = toctrl \/ x \notin RegReq
    <2>1. \A S \in SUBSET RegReq : Fewer(to_io, to_io', S)
      BY <1>0, <1>1, IoFewer
    <2>2. \A S \in SUBSET RegPkt : Fewer(to_main, to_main', S)
      BY <1>0, <1>1, MainFewer
    <2>3. \A s \in Session, S \in SUBSET RegReq : Fewer(toctrl[s], toctrl'[s], S)
      <3>1. CASE toctrl' = toctrl
        BY <3>1, FewerSame
      <3>2. CASE sock # 0 /\ toctrl' = [toctrl EXCEPT ![sock] = Append(@, x)] /\ x \notin RegReq
        BY <1>0, <1>2, <1>3, <3>2, CtrlFewer
      <3> QED BY <1>1, <1>4, <3>1, <3>2
    <2>4. (NoFrom => NoFrom') /\ (OneFrom => OneFrom')
      BY <1>1 DEF NoFrom, OneFrom, ThisResp
    <2>5. (NoCtrl => NoCtrl') /\ (OneCtrl => OneCtrl')
      BY <1>1, <2>3, KeepLive, KeepCtrl
    <2>6. (NoMods => NoMods') /\ (OneMods => OneMods')
      BY <1>1, KeepLive, KeepMods
    <2> QED BY <1>1, <2>1, <2>2, <2>4, <2>5, <2>6, KeepIo, KeepMain, Quieter
  <1>5. CASE sock \in Session /\ toctrl' = [toctrl EXCEPT ![sock] = Append(@, x)]
               /\ x \in RegReq
    <2>1. ~NoIo
      BY <1>1, <1>2, <1>5, NoneTail DEF NoIo
    <2>2. mpc = "reg" /\ AtIo
      BY <2>1 DEF UnderWay, Quiet, AtCtrl, AtMods, AtFrom, AtMain
    <2>3. NoIo'
      BY <1>1, <1>2, <1>5, <2>2, NoneTail DEF AtIo, OneIo, NoIo
    <2>4. x \in ThisReq
      <3>1. x \notin RegReq \ ThisReq
        BY <1>1, <1>2, <2>2, NoneTail DEF AtIo, OneIo
      <3> QED BY <1>5, <3>1
    <2>5. /\ toctrl'[sock] = Append(toctrl[sock], x)
          /\ \A s \in Session : s # sock => toctrl'[s] = toctrl[s]
          /\ toctrl[sock] \in Seq(T) /\ x \in T
      BY <1>2, <1>5
    <2>6. Live' = Live /\ ThisReq' = ThisReq
      BY <1>1 DEF Live, ThisReq
    <2>7. \A s \in Session : /\ None(toctrl[s], Live) /\ AtMostOne(toctrl[s], Live)
                             /\ None(toctrl[s], Live \ ThisReq)
      <3>1. \A s \in Session : None(toctrl[s], Live)
        BY <2>2 DEF AtIo, NoCtrl
      <3> QED BY <3>1, NoneMonotone
    <2> HIDE DEF T, x
    <2>8. AtMostOne(toctrl'[sock], Live) /\ None(toctrl'[sock], Live \ ThisReq)
      <3>1. x \notin Live \ ThisReq
        BY <2>4
      <3>2. /\ None(toctrl[sock], Live) /\ AtMostOne(toctrl[sock], Live)
            /\ None(toctrl[sock], Live \ ThisReq)
        BY <1>5, <2>7
      <3>3. AtMostOne(Append(toctrl[sock], x), Live)
        BY <2>5, <3>2, NoneAppend
      <3>4. None(Append(toctrl[sock], x), Live \ ThisReq)
        BY <2>5, <3>1, <3>2, NoneAppend
      <3> QED BY <2>5, <3>3, <3>4
    <2>9. OneCtrl'
      <3>1. \A s \in Session : s # sock => /\ None(toctrl'[s], Live)
                                           /\ AtMostOne(toctrl'[s], Live)
                                           /\ None(toctrl'[s], Live \ ThisReq)
        BY <2>5, <2>7
      <3> QED BY <2>6, <2>8, <3>1 DEF OneCtrl
    <2>10. NoMods' /\ NoFrom' /\ NoMain'
      BY <1>1, <2>2, <2>6 DEF AtIo, NoMods, NoFrom, NoMain
    <2> QED BY <1>1, <2>2, <2>3, <2>9, <2>10 DEF UnderWay, AtCtrl
  <1> QED BY <1>1, <1>3, <1>4, <1>5

(* The response goes from a socket to the main thread.                     *)
LEMMA ReadExchange ==
    ASSUME Types, AddressInv, UnderWay, NEW s \in Session, iothread_rcv_from_hostctrl(s)
    PROVE  UnderWay'
  <1> DEFINE m == Head(fromctrl[s])
             d == [name |-> "D", pkt |-> m]
  <1>0. QueueOK /\ IoOK
    BY TypeParts
  <1>1. /\ UNCHANGED <<accesses, mpc, atmods, to_io, readers, toctrl>>
        /\ s \in readers /\ fromctrl[s] # <<>>
        /\ fromctrl' = [fromctrl EXCEPT ![s] = Tail(@)]
        /\ to_main' = to_main \/ to_main' = Append(to_main, d)
        /\ m.type = "M" \/ IsHandled(m) => to_main' = to_main
    BY DEF iothread_rcv_from_hostctrl, mainVars, ioVars
  <1>2. fromctrl[s] \in Seq(RegResp \cup {EventPkt}) /\ m \in RegResp \cup {EventPkt}
    BY <1>1, QueueTail DEF AddressInv
  <1>3. /\ fromctrl \in [Session -> Seq(FromMsg)]
        /\ fromctrl'[s] = Tail(fromctrl[s])
        /\ \A t \in Session : t # s => fromctrl'[t] = fromctrl[t]
    BY <1>0, <1>1 DEF QueueOK
  <1>4. d \in ToMain /\ (d \in RegPkt <=> m \in RegResp) /\ to_main \in Seq(ToMain)
    BY <1>0, <1>2 DEF RegPkt, ToMain, QueueOK
  <1>5. readers \subseteq Session
    BY <1>0 DEF IoOK
  <1>6. CASE to_main' = to_main \/ m \notin RegResp
    <2>1. \A S \in SUBSET RegPkt : Fewer(to_main, to_main', S)
      <3>1. CASE to_main' = to_main
        BY <1>0, <3>1, MainFewer
      <3>2. CASE to_main' = Append(to_main, d) /\ m \notin RegResp
        BY <1>0, <1>4, <3>2, MainFewer
      <3> QED BY <1>1, <1>6, <3>1, <3>2
    <2>2. \A S \in SUBSET RegReq : Fewer(to_io, to_io', S)
      BY <1>0, <1>1, IoFewer
    <2>3. \A t \in Session, S \in SUBSET RegResp : Fewer(fromctrl[t], fromctrl'[t], S)
      <3>1. EventPkt \in FromMsg
        BY DEF FromMsg
      <3> QED BY <1>0, <1>1, <3>1, FromFewer
    <2>4. (NoFrom => NoFrom') /\ (OneFrom => OneFrom')
      BY <1>1, <1>5, <2>3, KeepFrom
    <2>5. (NoCtrl => NoCtrl') /\ (OneCtrl => OneCtrl')
      BY <1>1 DEF NoCtrl, OneCtrl, Live, ThisReq
    <2>6. (NoMods => NoMods') /\ (OneMods => OneMods')
      BY <1>1, KeepLive, KeepMods
    <2> QED BY <1>1, <2>1, <2>2, <2>4, <2>5, <2>6, KeepIo, KeepMain, Quieter
  <1>7. CASE to_main' = Append(to_main, d) /\ m \in RegResp
    <2>1. ~None(fromctrl[s], RegResp)
      BY <1>1, <1>2, <1>7, NoneTail
    <2>2. mpc = "reg" /\ AtFrom
      BY <1>1, <2>1 DEF UnderWay, Quiet, AtCtrl, AtMods, AtIo, AtMain, NoFrom
    <2>3. NoFrom'
      <3>1. None(fromctrl'[s], RegResp)
        BY <1>1, <1>2, <1>3, <1>7, <2>2, NoneTail DEF AtFrom, OneFrom
      <3>2. \A t \in readers : t # s => None(fromctrl[t], RegResp)
        BY <1>1, <2>1, <2>2 DEF AtFrom, OneFrom
      <3> QED BY <1>1, <1>3, <1>5, <3>1, <3>2 DEF NoFrom
    <2>4. m \in ThisResp
      <3>1. m \notin RegResp \ ThisResp
        BY <1>1, <1>2, <2>2, NoneTail DEF AtFrom, OneFrom
      <3> QED BY <1>7, <3>1
    <2>5. d \in ThisPkt /\ ThisPkt' = ThisPkt
      BY <1>1, <2>4 DEF ThisPkt, ThisResp
    <2>6. /\ None(to_main, RegPkt) /\ AtMostOne(to_main, RegPkt)
          /\ None(to_main, RegPkt \ ThisPkt)
      <3>1. None(to_main, RegPkt)
        BY <2>2 DEF AtFrom, NoMain
      <3> QED BY <3>1, NoneMonotone
    <2> HIDE DEF d
    <2>7. OneMain'
      BY <1>4, <1>7, <2>5, <2>6, NoneAppend DEF OneMain
    <2>8. NoIo' /\ NoCtrl' /\ NoMods'
      BY <1>1, <2>2 DEF AtFrom, NoIo, NoCtrl, NoMods, Live
    <2> QED BY <1>1, <2>2, <2>3, <2>7, <2>8 DEF UnderWay, AtMain
  <1> QED BY <1>1, <1>6, <1>7

(* The host controller takes a message: a request of an open connection is *)
(* at its module then, or lost.                                            *)
LEMMA TakesExchange ==
    ASSUME Types, AddressInv, UnderWay, NEW s \in Session, HostctrlTakes(s)
    PROVE  UnderWay'
  <1> DEFINE T == RegReq \cup {EventPkt, DiaddrReq}
             m == Head(toctrl[s])
  <1>0. QueueOK /\ IoOK
    BY TypeParts
  <1>1. /\ UNCHANGED <<accesses, mpc, to_io, to_main, readers, sock>>
        /\ toctrl[s] # <<>> /\ toctrl' = [toctrl EXCEPT ![s] = Tail(@)]
        /\ \/ Deliver(s, Addr(s)) /\ atmods' = atmods
           \/ fromctrl' = fromctrl /\ atmods' = atmods
           \/ m.type = "REG" /\ fromctrl' = fromctrl /\ atmods' = atmods \cup {m}
    BY DEF HostctrlTakes, mainVars, ioVars
  <1>2. toctrl \in [Session -> Seq(T)] /\ toctrl[s] \in Seq(T) /\ m \in T
    BY <1>0, <1>1, QueueTail DEF QueueOK
  <1>3. \A t \in Session : toctrl'[t] = IF t = s THEN Tail(toctrl[s]) ELSE toctrl[t]
    BY <1>1, <1>2
  <1>4. Live' = Live /\ ThisReq' = ThisReq
    BY <1>1 DEF Live, ThisReq
  <1>5. (NoFrom => NoFrom') /\ (OneFrom => OneFrom')
    <2>1. Addr(s) \in FromMsg /\ Addr(s) \notin RegResp
      BY CtrlMessages DEF FromMsg
    <2>2. fromctrl' = fromctrl \/ fromctrl' = [fromctrl EXCEPT ![s] = Append(@, Addr(s))]
      BY <1>1 DEF Deliver
    <2>3. \A t \in Session, S \in SUBSET RegResp : Fewer(fromctrl[t], fromctrl'[t], S)
      BY <1>0, <2>1, <2>2, FromFewer
    <2>4. readers' \subseteq Session
      BY <1>0, <1>1 DEF IoOK
    <2> QED BY <1>1, <2>3, <2>4, KeepFrom
  <1>6. CASE atmods' \cap Live \subseteq atmods \cap Live
    <2>1. \A S \in SUBSET RegReq : Fewer(to_io, to_io', S)
      BY <1>0, <1>1, IoFewer
    <2>2. \A S \in SUBSET RegPkt : Fewer(to_main, to_main', S)
      BY <1>0, <1>1, MainFewer
    <2>3. \A t \in Session, S \in SUBSET RegReq : Fewer(toctrl[t], toctrl'[t], S)
      BY <1>0, <1>1, CtrlFewer
    <2>4. (NoCtrl => NoCtrl') /\ (OneCtrl => OneCtrl')
      BY <1>1, <2>3, KeepLive, KeepCtrl
    <2>5. (NoMods => NoMods') /\ (OneMods => OneMods')
      BY <1>1, <1>4, <1>6, KeepMods
    <2> QED BY <1>1, <1>5, <2>1, <2>2, <2>4, <2>5, KeepIo, KeepMain, Quieter
  <1>7. CASE m \in Live /\ fromctrl' = fromctrl /\ atmods' = atmods \cup {m}
    <2> HIDE DEF T, m
    <2>1. ~None(toctrl[s], Live)
      BY <1>1, <1>2, <1>7, NoneTail DEF m
    <2>2. mpc = "reg" /\ AtCtrl
      BY <2>1 DEF UnderWay, Quiet, AtFrom, AtMods, AtIo, AtMain, NoCtrl
    <2>3. NoCtrl'
      <3>1. None(toctrl'[s], Live)
        BY <1>1, <1>2, <1>3, <1>7, <2>2, NoneTail DEF AtCtrl, OneCtrl, m
      <3>2. \A t \in Session : t # s => None(toctrl[t], Live)
        BY <2>1, <2>2 DEF AtCtrl, OneCtrl
      <3> QED BY <1>3, <1>4, <3>1, <3>2 DEF NoCtrl
    <2>4. m \in ThisReq
      <3>1. m \notin Live \ ThisReq
        BY <1>1, <1>2, <2>2, NoneTail DEF AtCtrl, OneCtrl, m
      <3> QED BY <1>7, <3>1
    <2>5. OneMods'
      BY <1>4, <1>7, <2>2, <2>4 DEF AtCtrl, NoMods, OneMods
    <2>6. NoIo' /\ NoFrom' /\ NoMain'
      BY <1>1, <1>5, <2>2 DEF AtCtrl, NoIo, NoMain
    <2> QED BY <1>1, <2>2, <2>3, <2>5, <2>6 DEF UnderWay, AtMods
  <1> QED BY <1>1, <1>6, <1>7
(* A module answers: the request of an open connection becomes a response, *)
(* that of a closed one is gone.                                           *)
LEMMA AnswersExchange ==
    ASSUME Types, AddressInv, SourceInv, UnderWay, ModuleAnswers PROVE UnderWay'
  <1>0. QueueOK /\ IoOK
    BY TypeParts
  <1>1. PICK r \in atmods, ok \in BOOLEAN :
           /\ atmods' = atmods \ {r}
           /\ Deliver(r.src, [type |-> "REG", op |-> r.op, ok |-> ok, id |-> r.id])
           /\ UNCHANGED <<accesses, mpc, to_io, to_main, readers, sock, toctrl>>
    BY DEF ModuleAnswers, mainVars, ioVars
  <1> DEFINE p == [type |-> "REG", op |-> r.op, ok |-> ok, id |-> r.id]
             s == r.src
  <1>2. r \in RegReq /\ s \in Session /\ s \in Obtained
    BY <1>0, <1>1 DEF QueueOK, RegReq, SourceInv
  <1>3. p \in RegResp /\ p.id = r.id
    BY <1>1, <1>2 DEF RegReq, RegResp
  <1>4. Live' = Live /\ ThisReq' = ThisReq /\ ThisResp' = ThisResp
    BY <1>1 DEF Live, ThisReq, ThisResp
  <1>5. IsOpen(s) => s \in readers
    BY <1>0, <1>2, HostModAssumption DEF IsOpen, Obtained, AddressInv, IoOK, Session
  <1>6. \A S \in SUBSET RegReq : Fewer(to_io, to_io', S)
    BY <1>0, <1>1, IoFewer
  <1>7. \A S \in SUBSET RegPkt : Fewer(to_main, to_main', S)
    BY <1>0, <1>1, MainFewer
  <1>8. (NoCtrl => NoCtrl') /\ (OneCtrl => OneCtrl')
    BY <1>1, <1>4 DEF NoCtrl, OneCtrl
  <1> HIDE DEF p, s
  <1>9. CASE ~IsOpen(s)
    <2>1. fromctrl' = fromctrl
      BY <1>1, <1>9 DEF Deliver, p, s
    <2>2. (NoFrom => NoFrom') /\ (OneFrom => OneFrom')
      BY <1>1, <1>4, <2>1 DEF NoFrom, OneFrom
    <2>3. (NoMods => NoMods') /\ (OneMods => OneMods')
      BY <1>1, <1>4, KeepMods
    <2> QED BY <1>1, <1>6, <1>7, <1>8, <2>2, <2>3, KeepIo, KeepMain, Quieter
  <1>10. CASE IsOpen(s)
    <2>1. s \in readers /\ r \in Live
      BY <1>2, <1>5, <1>10 DEF Live, s
    <2>2. mpc = "reg" /\ AtMods
      BY <1>1, <2>1 DEF UnderWay, Quiet, AtFrom, AtCtrl, AtIo, AtMain, NoMods
    <2>3. NoMods' /\ r \in ThisReq
      BY <1>1, <1>4, <2>1, <2>2 DEF AtMods, OneMods, NoMods
    <2>4. p \in ThisResp
      BY <1>3, <2>3 DEF ThisReq, ThisResp
    <2>5. fromctrl' = [fromctrl EXCEPT ![s] = Append(@, p)]
      BY <1>1, <1>10 DEF Deliver, p, s
    <2>6. /\ fromctrl \in [Session -> Seq(FromMsg)] /\ fromctrl[s] \in Seq(FromMsg)
          /\ p \in FromMsg /\ readers \subseteq Session
      BY <1>0, <1>2, <1>3 DEF QueueOK, IoOK, FromMsg
    <2>7. \A t \in Session :
             fromctrl'[t] = IF t = s THEN Append(fromctrl[s], p) ELSE fromctrl[t]
      BY <2>5, <2>6
    <2>8. \A t \in readers : /\ None(fromctrl[t], RegResp) /\ AtMostOne(fromctrl[t], RegResp)
                             /\ None(fromctrl[t], RegResp \ ThisResp)
      <3>1. \A t \in readers : None(fromctrl[t], RegResp)
        BY <2>2 DEF AtMods, NoFrom
      <3> QED BY <3>1, NoneMonotone
    <2>9. AtMostOne(fromctrl'[s], RegResp) /\ None(fromctrl'[s], RegResp \ ThisResp)
      <3>1. p \notin RegResp \ ThisResp
        BY <2>4
      <3>2. /\ None(fromctrl[s], RegResp) /\ AtMostOne(fromctrl[s], RegResp)
            /\ None(fromctrl[s], RegResp \ ThisResp)
        BY <2>1, <2>8
      <3>3. AtMostOne(Append(fromctrl[s], p), RegResp)
        BY <2>6, <3>2, NoneAppend
      <3>4. None(Append(fromctrl[s], p), RegResp \ ThisResp)
        BY <2>6, <3>1, <3>2, NoneAppend
      <3>5. fromctrl'[s] = Append(fromctrl[s], p)
        BY <2>1, <2>6, <2>7
      <3> QED BY <3>3, <3>4, <3>5
    <2>10. \A t \in readers : t # s => /\ None(fromctrl'[t], RegResp)
                                       /\ AtMostOne(fromctrl'[t], RegResp)
                                       /\ None(fromctrl'[t], RegResp \ ThisResp)
      BY <2>6, <2>7, <2>8
    <2>11. OneFrom'
      BY <1>1, <1>4, <2>9, <2>10 DEF OneFrom
    <2>12. NoIo' /\ NoCtrl' /\ NoMain'
      BY <1>1, <1>8, <2>2 DEF AtMods, NoIo, NoMain
    <2> QED BY <1>1, <2>2, <2>3, <2>11, <2>12 DEF UnderWay, AtFrom
  <1> QED BY <1>9, <1>10

LEMMA EventExchange ==
    ASSUME Types, UnderWay, NEW s \in Session, ModuleSendsEvent(s) PROVE UnderWay'
  <1>0. QueueOK /\ IoOK
    BY TypeParts
  <1>1. /\ UNCHANGED <<accesses, mpc, to_io, to_main, readers, toctrl, atmods>>
        /\ fromctrl' = fromctrl \/ fromctrl' = [fromctrl EXCEPT ![s] = Append(@, EventPkt)]
    BY DEF ModuleSendsEvent, Deliver, mainVars, ioVars
  <1>2. EventPkt \in FromMsg /\ EventPkt \notin RegResp
    BY CtrlMessages DEF FromMsg
  <1>3. \A t \in Session, S \in SUBSET RegResp : Fewer(fromctrl[t], fromctrl'[t], S)
    BY <1>0, <1>1, <1>2, FromFewer
  <1>4. (NoFrom => NoFrom') /\ (OneFrom => OneFrom')
    BY <1>0, <1>1, <1>3, KeepFrom DEF IoOK
  <1>5. (NoCtrl => NoCtrl') /\ (OneCtrl => OneCtrl')
    BY <1>1 DEF NoCtrl, OneCtrl, Live, ThisReq
  <1>6. (NoMods => NoMods') /\ (OneMods => OneMods')
    BY <1>1, KeepLive, KeepMods
  <1>7. \A S \in SUBSET RegReq : Fewer(to_io, to_io', S)
    BY <1>0, <1>1, IoFewer
  <1>8. \A S \in SUBSET RegPkt : Fewer(to_main, to_main', S)
    BY <1>0, <1>1, MainFewer
  <1> QED BY <1>1, <1>4, <1>5, <1>6, <1>7, <1>8, KeepIo, KeepMain, Quieter

(* Within a connection every step moves the packet on, or leaves it.       *)
LEMMA UnderWayStep ==
    ASSUME Types, AddressInv, SourceInv, UnderWay, Next, Alive',
           ~(PacketTimesOut /\ mpc = "reg")
    PROVE  UnderWay'
  <1>1. CASE MainSteps
    <2>1. CASE \E m \in Module : (\E o \in RegOp : osd_hostmod_reg(m, o))
                                   \/ osd_hostmod_reg_setbit(m)
      BY <2>1, RegExchange
    <2>2. CASE RegReceived
      BY <2>2, RegExchangeEnds
    <2>3. CASE \/ osd_hostmod_connect \/ osd_hostmod_disconnect \/ osd_hostmod_event_send
               \/ osd_hostmod_event_receive \/ osd_hostmod_free \/ StatusReceived
               \/ EventReceived \/ StatusTimesOut \/ (PacketTimesOut /\ mpc # "reg")
      BY <2>3, OtherMainExchange
    <2> QED BY <1>1, <2>1, <2>2, <2>3 DEF MainSteps, MainCalls, MainReturns
  <1>2. CASE IoSteps
    <2>1. CASE \/ iothread_connect_to_hostctrl \/ ObtainTimesOut
               \/ iothread_disconnect_from_hostctrl \/ iothread_destroy
      BY <2>1, IoCommandExchange
    <2>2. CASE iothread_obtain_diaddr
      BY <2>2, ObtainExchange
    <2>3. CASE ForwardToHostctrl
      BY <2>3, ForwardExchange
    <2>4. CASE IoReads
      <3>1. PICK s \in Session : iothread_rcv_from_hostctrl(s)
        BY <2>4 DEF IoReads
      <3> QED BY <3>1, ReadExchange
    <2> QED BY <1>2, <2>1, <2>2, <2>3, <2>4 DEF IoSteps, IoNext
  <1>3. CASE EnvSteps
    BY <1>3, AnswersExchange, TakesExchange, EventExchange DEF EnvSteps, EnvNext
  <1> QED BY <1>1, <1>2, <1>3, Steps

(* Once the wrong disconnect is queued, it stays there until it ends the   *)
(* process.                                                                *)
LEMMA DoomedStays ==
    ASSUME Types, AddressInv, Doomed, Next, Alive' PROVE ~None(to_io', DisconnectCmd)
  <1>0. QueueOK /\ to_io \in Seq(IoMsg)
    BY TypeParts DEF QueueOK
  <1>1. ~None(to_io, DisconnectCmd)
    BY DEF Doomed, Leads, None
  <1>2. CASE to_io' = to_io
    BY <1>1, <1>2
  <1>3. CASE \E x \in IoMsg : to_io' = Append(to_io, x)
    BY <1>0, <1>1, <1>3, NoneAppend
  <1>4. CASE to_io # <<>> /\ to_io' = Tail(to_io) /\ Head(to_io) \notin DisconnectCmd
    BY <1>0, <1>1, <1>4, NoneTail
  <1>5. CASE IoSteps /\ to_io # <<>> /\ Head(to_io) \in DisconnectCmd
    <2>1. /\ Head(to_io).type = "I-DISCONNECT" /\ sock = 0 /\ iopc # "obtain"
          /\ Cmd("I-CONNECT").type = "I-CONNECT" /\ Cmd("I-SHUTDOWN").type = "I-SHUTDOWN"
      BY <1>0, <1>5, QueueTail, IoMessages DEF Doomed
    <2>2. ~iothread_connect_to_hostctrl /\ ~iothread_destroy /\ ~ForwardToHostctrl
      BY <2>1 DEF iothread_connect_to_hostctrl, iothread_destroy, ForwardToHostctrl,
         FromMain
    <2>3. ~iothread_disconnect_from_hostctrl
      BY <2>1 DEF iothread_disconnect_from_hostctrl, Alive
    <2>4. ~iothread_obtain_diaddr /\ ~ObtainTimesOut
      BY <2>1 DEF iothread_obtain_diaddr, ObtainTimesOut
    <2>5. to_io' = to_io
      BY <1>5, <2>2, <2>3, <2>4 DEF IoSteps, IoNext, IoReads, iothread_rcv_from_hostctrl
    <2> QED BY <1>1, <2>5
  <1>6. CASE MainSteps
    BY <1>2, <1>3, <1>6, MainEffect
  <1>7. CASE IoSteps
    BY <1>2, <1>4, <1>5, <1>7, IoEffect
  <1>8. CASE EnvSteps
    BY <1>2, <1>8, EnvFrame
  <1> QED BY <1>6, <1>7, <1>8, Steps

(* Only an answer to a connect or a disconnect changes the connection, and *)
(* only a register access that times out counts.                           *)
LEMMA ConnectionFrame ==
    ASSUME Types, Next, ~StatusReceived
    PROVE  /\ is_connected' = is_connected
           /\ timeouts' = timeouts
                \/ (PacketTimesOut /\ mpc = "reg" /\ timeouts' = timeouts + 1)
           /\ PacketTimesOut /\ mpc = "reg" => timeouts' = timeouts + 1
  <1>0. PacketTimesOut /\ mpc = "reg" => timeouts' = timeouts + 1
    BY DEF PacketTimesOut
  <1>1. CASE MainCalls \/ RegReceived \/ EventReceived \/ StatusTimesOut
    BY <1>0, <1>1 DEF MainCalls, osd_hostmod_connect, osd_hostmod_disconnect,
       osd_hostmod_reg, osd_hostmod_reg_setbit, osd_hostmod_event_send,
       osd_hostmod_event_receive, osd_hostmod_free, mainVars, RegReceived,
       EventReceived, StatusTimesOut
  <1>2. CASE PacketTimesOut
    BY <1>2 DEF PacketTimesOut
  <1>3. CASE IoSteps
    BY <1>0, <1>3, IoFrame DEF mainVars
  <1>4. CASE EnvSteps
    BY <1>0, <1>4, EnvFrame DEF mainVars
  <1> QED BY <1>1, <1>2, <1>3, <1>4, Steps DEF MainSteps, MainReturns

(* A connection starts and ends with nothing under way.                    *)
LEMMA DisconnectQuiet ==
    ASSUME Types, AddressInv, CallInv, StatusReceived, mpc = "disconnect",
           Head(to_main) \in Disconnected, InScope'
    PROVE  UnderWay'
  <1>0. QueueOK
    BY TypeParts
  <1>1. /\ UNCHANGED <<to_io, iopc, sock, readers, statustimeouts, abort, toctrl,
                       fromctrl, atmods>>
        /\ Alive /\ to_main # <<>> /\ to_main' = Tail(to_main)
    BY DEF StatusReceived, ioVars, envVars
  <1>2. Head(to_main).name = "I-DISCONNECT-DONE"
    BY <1>0, <1>1, MainTakes, MainMessages
  <1>3. mpc' = "idle" /\ is_connected' = FALSE /\ UNCHANGED diaddr
    BY <1>2 DEF StatusReceived
  <1>4. /\ Clean => to_io = <<>> /\ to_main' = <<>> /\ readers = {}
        /\ ~Clean => Doomed'
    BY <1>1, <1>3, DisconnectAnswered
  <1>5. ~Doomed'
    <2>1. Unconnected'
      BY <1>3 DEF InScope
    <2>2. \A x \in ConnectCmd \cup ShutdownCmd : x \notin DisconnectCmd
      BY IoMessages DEF ConnectCmd, ShutdownCmd, DisconnectCmd
    <2>3. to_io' \in Seq(ConnectCmd \cup ShutdownCmd)
      BY <2>1 DEF Unconnected
    <2>4. None(to_io', DisconnectCmd)
      BY <2>2, <2>3, NoneDisjoint
    <2> QED BY <2>4 DEF Doomed, Leads, None
  <1>6. to_io' = <<>> /\ to_main' = <<>> /\ readers' = {}
    BY <1>1, <1>4, <1>5
  <1>7. Live' = {}
    BY <1>6 DEF Live
  <1>8. Quiet'
    BY <1>6, <1>7, EmptyQueue DEF Quiet, NoIo, NoCtrl, NoMods, NoFrom, NoMain, None
  <1> QED BY <1>3, <1>8 DEF UnderWay

LEMMA ExchangeStep ==
    ASSUME Types, AddressInv, SourceInv, CallInv, ExchangeInv
    PROVE  Next => ExchangeInv'
  <1> SUFFICES ASSUME Next, InScope' PROVE UnderWay'
    BY DEF ExchangeInv
  <1>0. QueueOK /\ CallShape /\ CallOK /\ BoolOK
    BY TypeParts
  <1>1. Alive /\ Alive'
    BY AliveBefore DEF InScope
  <1>2. Unconnected \/ Clean \/ Confused \/ Doomed
    BY <1>1 DEF CallInv
  <1>3. ~Doomed \/ (~is_connected /\ ~Unconnected')
    <2>1. ASSUME Doomed PROVE ~is_connected /\ ~Unconnected'
      <3>1. ~None(to_io', DisconnectCmd)
        BY <1>1, <2>1, DoomedStays
      <3>2. \A x \in ConnectCmd \cup ShutdownCmd : x \notin DisconnectCmd
        BY IoMessages DEF ConnectCmd, ShutdownCmd, DisconnectCmd
      <3>3. to_io' \notin Seq(ConnectCmd \cup ShutdownCmd)
        BY <3>1, <3>2, NoneDisjoint
      <3> QED BY <2>1, <3>3 DEF Doomed, Unconnected
    <2> QED BY <2>1
  <1>4. CASE is_connected' = is_connected /\ timeouts' = timeouts
               /\ ~(PacketTimesOut /\ mpc = "reg")
    <2>1. InScope
      <3>1. CASE is_connected
        BY <1>1, <1>4, <3>1 DEF InScope, Unconnected
      <3>2. CASE ~is_connected
        <4>1. Unconnected'
          BY <1>4, <3>2 DEF InScope
        <4>2. Unconnected
          BY <1>2, <1>3, <3>2, <4>1 DEF Clean, Confused
        <4> QED BY <1>1, <4>2 DEF InScope
      <3> QED BY <3>1, <3>2
    <2> QED BY <1>1, <1>4, <2>1, UnderWayStep DEF ExchangeInv
  <1>5. ~(PacketTimesOut /\ mpc = "reg")
    <2> SUFFICES ASSUME PacketTimesOut, mpc = "reg" PROVE FALSE
      OBVIOUS
    <2>1. is_connected
      BY <1>0 DEF CallShape
    <2>2. is_connected' = is_connected /\ timeouts' = timeouts + 1
      BY DEF PacketTimesOut
    <2>3. timeouts' # 0
      BY <1>0, <2>2 DEF CallOK
    <2> QED BY <2>1, <2>2, <2>3 DEF InScope, Unconnected
  <1>6. CASE ~StatusReceived
    BY <1>4, <1>5, <1>6, ConnectionFrame
  <1>7. CASE StatusReceived
    <2>1. to_main # <<>> /\ mpc \in {"connect", "disconnect"}
      BY <1>7 DEF StatusReceived
    <2>2. Head(to_main) \in ToMain /\ to_main \in Seq(ToMain)
      BY <1>0, <2>1, MainTakes DEF QueueOK
    <2>3. CASE mpc = "disconnect" /\ Head(to_main) \in Disconnected
      BY <1>7, <2>3, DisconnectQuiet
    <2>4. CASE mpc = "connect" /\ Head(to_main) \in Answered
      <3>1. ~is_connected
        BY <1>0, <2>4 DEF CallShape
      <3>2. ~Doomed
        BY <2>1, <2>2, <2>4, NoneTail DEF Doomed
      <3>3. InScope
        BY <1>1, <1>2, <3>1, <3>2 DEF Clean, Confused, InScope
      <3> QED BY <1>1, <1>5, <3>3, UnderWayStep DEF ExchangeInv
    <2>5. CASE \/ Head(to_main) \notin Answered /\ Head(to_main) \notin Disconnected
               \/ mpc = "disconnect" /\ Head(to_main) \in Answered
               \/ mpc = "connect" /\ Head(to_main) \in Disconnected
      <3>1. \/ Head(to_main).name = "D"
            \/ mpc = "disconnect" /\ Head(to_main).name = "I-CONNECT-DONE"
            \/ mpc = "connect" /\ Head(to_main).name = "I-DISCONNECT-DONE"
        <4>1. Head(to_main).name \in {"D", "I-CONNECT-DONE", "I-DISCONNECT-DONE"}
          BY <2>2 DEF ToMain
        <4> QED BY <2>2, <2>5, <4>1, MainMessages
      <3>2. is_connected' = is_connected /\ timeouts' = timeouts
        BY <1>7, <3>1 DEF StatusReceived
      <3> QED BY <1>4, <1>5, <3>2
    <2> QED BY <2>1, <2>3, <2>4, <2>5
  <1> QED BY <1>6, <1>7
LEMMA MatchStep ==
    ASSUME Types, ExchangeInv, AnswerMatches, Next PROVE AnswerMatches'
  <1>0. CallShape /\ CallOK
    BY TypeParts
  <1>1. CASE last' = last
    BY <1>1 DEF AnswerMatches
  <1>2. CASE RegReceived /\ last' # last
    <2>1. /\ Alive /\ mpc = "reg" /\ abort' = abort
          /\ last'.late = (timeouts > 0)
      BY <1>2 DEF RegReceived
    <2>2. CASE timeouts > 0
      BY <2>1, <2>2 DEF AnswerMatches
    <2>3. CASE ~(timeouts > 0)
      <3>1. timeouts = 0 /\ is_connected
        BY <1>0, <2>1, <2>3 DEF CallOK, CallShape
      <3>2. UnderWay /\ Alive'
        BY <2>1, <3>1 DEF ExchangeInv, InScope, Alive
      <3>3. last'.got = last'.id
        BY <1>2, <3>2, RegExchangeEnds
      <3> QED BY <3>3 DEF AnswerMatches
    <2> QED BY <2>2, <2>3
  <1>3. CASE PacketTimesOut
    BY <1>1, <1>3 DEF PacketTimesOut, AnswerMatches
  <1>4. CASE MainCalls \/ StatusReceived \/ EventReceived \/ StatusTimesOut
    BY <1>1, <1>4 DEF MainCalls, osd_hostmod_connect, osd_hostmod_disconnect,
       osd_hostmod_reg, osd_hostmod_reg_setbit, osd_hostmod_event_send,
       osd_hostmod_event_receive, osd_hostmod_free, mainVars, StatusReceived,
       EventReceived, StatusTimesOut
  <1>5. CASE IoSteps
    BY <1>1, <1>5, IoFrame DEF mainVars
  <1>6. CASE EnvSteps
    BY <1>1, <1>6, EnvFrame DEF mainVars
  <1> QED BY <1>1, <1>2, <1>3, <1>4, <1>5, <1>6, Steps DEF MainSteps, MainReturns

-----------------------------------------------------------------------------
(* The inductive invariant.                                                *)
IInv ==
    /\ Types /\ AddressInv /\ SourceInv
    /\ CallInv /\ HandlerInv /\ AssertInv /\ AddressIsCurrent
    /\ ExchangeInv /\ AnswerMatches

LEMMA InitIInv == Init => IInv
  <1> SUFFICES ASSUME Init PROVE IInv
    OBVIOUS
  <1>1. /\ to_io = <<>> /\ to_main = <<>> /\ readers = {} /\ mpc = "idle"
        /\ abort = "no" /\ ~is_connected
        /\ last = [rv |-> "none", id |-> 0, got |-> 0, late |-> FALSE]
    BY DEF Init
  <1>2. Types /\ AddressInv /\ SourceInv /\ CallInv
    BY InitTypes, InitAddress, InitCall
  <1>3. HandlerInv /\ AssertInv
    BY <1>1, EmptyQueue DEF HandlerInv, AssertInv
  <1>4. AddressIsCurrent /\ AnswerMatches
    BY <1>1 DEF AddressIsCurrent, AnswerMatches
  <1>5. Live = {}
    BY <1>1 DEF Live
  <1>6. Quiet
    BY <1>1, <1>5, EmptyQueue DEF Quiet, NoIo, NoCtrl, NoMods, NoFrom, NoMain, None
  <1>7. ExchangeInv
    BY <1>1, <1>6 DEF ExchangeInv, UnderWay
  <1> QED BY <1>2, <1>3, <1>4, <1>7 DEF IInv

LEMMA NextIInv == IInv /\ Next => IInv'
  <1> SUFFICES ASSUME IInv, Next PROVE IInv'
    OBVIOUS
  <1>1. /\ Types /\ AddressInv /\ SourceInv /\ CallInv /\ HandlerInv /\ AssertInv
        /\ AddressIsCurrent /\ ExchangeInv /\ AnswerMatches
    BY DEF IInv
  <1>2. Types'
    BY <1>1, NextTypes DEF AddressInv
  <1>3. AddressInv' /\ SourceInv'
    BY <1>1, AddressStep, SourceStep
  <1>4. CallInv' /\ AddressIsCurrent'
    BY <1>1, CallStep, CurrentStep
  <1>5. HandlerInv'
    BY <1>1, HandlerStep
  <1>6. AssertInv'
    BY <1>1, AssertStep
  <1>7. ExchangeInv'
    BY <1>1, ExchangeStep
  <1>8. AnswerMatches'
    BY <1>1, MatchStep
  <1> QED BY <1>2, <1>3, <1>4, <1>5, <1>6, <1>7, <1>8 DEF IInv

LEMMA StutterIInv == IInv /\ UNCHANGED vars => IInv'
  <1> SUFFICES ASSUME IInv, UNCHANGED vars PROVE IInv'
    OBVIOUS
  <1>1. UNCHANGED <<has_handler, is_connected, diaddr, mpc, then, op, mod, accesses,
                    last, timeouts, alltimeouts, statustimeouts, events, to_io,
                    to_main, iopc, sock, readers, sessions, abort, toctrl, fromctrl,
                    atmods, lost>>
    BY DEF vars, mainVars, ioVars, envVars, fixVars
  <1>2. Types'
    BY <1>1 DEF IInv, Types, TypeOK, CallShape
  <1>3. AddressInv' /\ SourceInv'
    BY <1>1 DEF IInv, AddressInv, ObtainHasSocket, SourceInv, MainOk, IoOk, CtrlOk,
       Obtained
  <1>4. CallInv' /\ HandlerInv' /\ AssertInv'
    BY <1>1 DEF IInv, CallInv, HandlerInv, AssertInv, Alive, Unconnected, Clean,
       Confused, Doomed, ConnectsUnderWay, DisconnectsUnderWay, OneConnect,
       TwoDisconnects
  <1>5. AddressIsCurrent' /\ AnswerMatches'
    BY <1>1 DEF IInv, AddressIsCurrent, AnswerMatches
  <1>6. ExchangeInv'
    <2>1. InScope' => InScope
      BY <1>1 DEF InScope, Alive, Unconnected, ConnectsUnderWay, OneConnect
    <2>2. UnderWay => UnderWay'
      <3>1. (NoIo => NoIo') /\ (OneIo => OneIo')
        BY <1>1 DEF NoIo, OneIo, ThisReq
      <3>2. (NoMain => NoMain') /\ (OneMain => OneMain')
        BY <1>1 DEF NoMain, OneMain, ThisPkt, ThisResp
      <3> QED BY <1>1, <3>1, <3>2, KeepEnv, Quieter
    <2> QED BY <2>1, <2>2 DEF IInv, ExchangeInv
  <1> QED BY <1>2, <1>3, <1>4, <1>5, <1>6 DEF IInv

LEMMA SpecIInv == Spec => []IInv
  <1>1. IInv /\ [Next]_vars => IInv'
    BY NextIInv, StutterIInv
  <1> QED BY InitIInv, <1>1, PTL DEF Spec

(* No assertion of the host module fails (osd_hostmod_regaccess,           *)
(* osd_hostmod_event_receive, iothread_disconnect_from_hostctrl,           *)
(* iothread_handle_inproc_request, iothread_rcv_from_hostctrl) unless a    *)
(* status wait timed out, but for an event that comes during a register    *)
(* access when there is no event handler.                                  *)
THEOREM NoAssertion == Spec => []NoAssertFails
  <1>1. IInv => NoAssertFails
    BY DEF IInv, Types, AssertInv, AddressInv, NoAssertFails
  <1> QED BY SpecIInv, <1>1, PTL

(* Between connect and disconnect the host module sends under the address  *)
(* the controller gave to its present socket, and that socket is read, in  *)
(* every run without a status timeout (osd_hostmod_connect,                *)
(* iothread_connect_to_hostctrl).                                          *)
THEOREM AddressStaysCurrent == Spec => []AddressIsCurrent
  <1>1. IInv => AddressIsCurrent
    BY DEF IInv
  <1> QED BY SpecIInv, <1>1, PTL

(* osd_hostmod_regaccess, which compares no transaction number, returns    *)
(* the answer to its own request if no access of its connection has timed  *)
(* out, whatever happened on earlier connections, and even if waits for a  *)
(* connect or a disconnect timed out.                                      *)
THEOREM AnswersMatch == Spec => []AnswerMatches
  <1>1. IInv => AnswerMatches
    BY DEF IInv
  <1> QED BY SpecIInv, <1>1, PTL
=============================================================================
