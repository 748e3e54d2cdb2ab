----------------------- MODULE EventReassemblyProofs -----------------------
(***************************************************************************)
(* For any set of sources, any number of packets and connections and any   *)
(* size of an event: who owns the packets in the reassembly list, from     *)
(* which connection the packets of an event come, and that the list walk   *)
(* implements EventStream.                                                 *)
(***************************************************************************)
EXTENDS EventReassembly, FiniteSetTheorems, TLAPS

(* Packets are in one place: the list, the walk, or the application.       *)
Objects ==
    /\ freed \subseteq 1 .. Len(src)
    /\ \A p \in 1 .. Len(src) : words[p] \in Seq(1 .. Len(src)) /\ Len(words[p]) > 0
    /\ \A i \in 1 .. Len(buf) :
          buf[i] \in 1 .. Len(src) /\ buf[i] # pkg /\ buf[i] # fwd_pkg
    /\ \A i, j \in 1 .. Len(buf) : buf[i] = buf[j] => i = j
    /\ pc = "idle" => pkg = 0 /\ fwd_pkg = 0
    /\ pc = "walk" => pkg \in 1 .. Len(src)
    /\ fwd_pkg # 0 => /\ fwd_pkg \in 1 .. Len(src) /\ fwd_pkg # pkg
                      /\ pkg \in 1 .. Len(src)
                      /\ src[fwd_pkg] = src[pkg]
    /\ \A i \in 1 .. Len(delivered) : delivered[i].words \in Seq(1 .. Len(src))

(* No event of more than two packets has come.                             *)
Short == \A i \in 1 .. Len(delivered) : Len(delivered[i].words) <= 2

(* An entry of the list is only freed while an event is put together that  *)
(* will have at least three words.                                         *)
Owned ==
    Short => \A i \in 1 .. Len(buf) :
                buf[i] \in freed =>
                    pc # "idle" /\ fwd_pkg # 0 /\ Len(words[fwd_pkg]) >= 2

(* All words of packet p came on the present connection.                   *)
Fresh(p) == \A k \in 1 .. Len(words[p]) : conn[words[p][k]] = session

(* What is of an earlier connection is of a source whose event was cut.    *)
OneConnection ==
    /\ \A i \in 1 .. Len(buf) : Fresh(buf[i]) \/ src[buf[i]] \in cut
    /\ pkg # 0 => pkg \in 1 .. Len(src) /\ Fresh(pkg)
    /\ fwd_pkg # 0 => Fresh(fwd_pkg) \/ src[pkg] \in cut

Whole(e) == \A j, k \in 1 .. Len(e) : conn[e[j]] = conn[e[k]]

EventsWhole ==
    \A i \in 1 .. Len(delivered) :
        Whole(delivered[i].words) \/ delivered[i].src \in cut

(* The same of the packets after the step.                                 *)
FreshNext(p) == \A k \in 1 .. Len(words'[p]) : conn'[words'[p][k]] = session'
WholeNext(e) == \A j, k \in 1 .. Len(e) : conn'[e[j]] = conn'[e[k]]

IInv == EvTypeOK /\ Objects /\ Owned /\ OneConnection /\ EventsWhole
-----------------------------------------------------------------------------
(* Sequences.                                                              *)

LEMMA AnyAppend ==
    ASSUME NEW S, NEW s \in Seq(S), NEW x \in S
    PROVE  /\ Append(s, x) \in Seq(S) /\ Len(Append(s, x)) = Len(s) + 1
           /\ Len(s) \in Nat /\ Append(s, x)[Len(s) + 1] = x
           /\ \A i \in 1 .. Len(s) : Append(s, x)[i] = s[i] /\ s[i] \in S
  OBVIOUS

LEMMA AnyElement ==
    ASSUME NEW S, NEW s \in Seq(S)
    PROVE  \A i \in 1 .. Len(s) : s[i] \in S
  OBVIOUS

Joined(s, t, u) == u = s \o t

LEMMA AnyConcat ==
    ASSUME NEW S, NEW s \in Seq(S), NEW t \in Seq(S), NEW u, Joined(s, t, u)
    PROVE  /\ u \in Seq(S) /\ Len(u) = Len(s) + Len(t)
           /\ Len(s) \in Nat /\ Len(t) \in Nat
           /\ \A i \in 1 .. Len(s) : u[i] = s[i]
           /\ \A i \in 1 .. Len(t) : u[Len(s) + i] = t[i]
  BY DEF Joined

LEMMA AnySubSeq ==
    ASSUME NEW S, NEW s \in Seq(S), NEW m \in 1 .. Len(s) + 1, NEW n \in m - 1 .. Len(s)
    PROVE  /\ SubSeq(s, m, n) \in Seq(S) /\ Len(SubSeq(s, m, n)) = n - m + 1
           /\ Len(s) \in Nat
           /\ \A i \in 1 .. n - m + 1 : SubSeq(s, m, n)[i] = s[m + i - 1]
  OBVIOUS

LEMMA AnyWider ==
    ASSUME NEW S, NEW T, S \subseteq T, NEW s \in Seq(S)
    PROVE  s \in Seq(T)
  OBVIOUS

(* Where the elements of s are when entry c is taken out.                  *)
Skip(c, i) == IF i < c THEN i ELSE i + 1

LEMMA RemoveFacts ==
    ASSUME NEW S, NEW s \in Seq(S), NEW c \in 1 .. Len(s)
    PROVE  /\ RemoveAt(s, c) \in Seq(S) /\ Len(RemoveAt(s, c)) = Len(s) - 1
           /\ \A i \in 1 .. Len(s) - 1 : RemoveAt(s, c)[i] = s[Skip(c, i)]
  <1>0. Len(s) \in Nat /\ c \in Nat /\ 1 <= c /\ c <= Len(s)
    OBVIOUS
  <1> DEFINE a == SubSeq(s, 1, c - 1)
             b == SubSeq(s, c + 1, Len(s))
  <1>1. /\ a \in Seq(S) /\ Len(a) = c - 1
        /\ \A i \in 1 .. c - 1 : a[i] = s[i]
    <2>1. 1 \in 1 .. Len(s) + 1 /\ c - 1 \in 1 - 1 .. Len(s)
      BY <1>0
    <2>2. /\ a \in Seq(S) /\ Len(a) = (c - 1) - 1 + 1
          /\ \A i \in 1 .. (c - 1) - 1 + 1 : a[i] = s[1 + i - 1]
      BY <2>1, AnySubSeq
    <2> HIDE DEF a
    <2> QED BY <1>0, <2>2
  <1>2. /\ b \in Seq(S) /\ Len(b) = Len(s) - c
        /\ \A i \in 1 .. Len(s) - c : b[i] = s[c + i]
    <2>1. c + 1 \in 1 .. Len(s) + 1 /\ Len(s) \in (c + 1) - 1 .. Len(s)
      BY <1>0
    <2>2. /\ b \in Seq(S) /\ Len(b) = Len(s) - (c + 1) + 1
          /\ \A i \in 1 .. Len(s) - (c + 1) + 1 : b[i] = s[(c + 1) + i - 1]
      BY <2>1, AnySubSeq
    <2> HIDE DEF b
    <2> QED BY <1>0, <2>2
  <1> DEFINE t == a \o b
  <1>3. RemoveAt(s, c) = t /\ Joined(a, b, t)
    BY DEF RemoveAt, Joined
  <1> HIDE DEF a, b, t
  <1>4. /\ t \in Seq(S) /\ Len(t) = Len(a) + Len(b)
        /\ \A i \in 1 .. Len(a) : t[i] = a[i]
        /\ \A i \in 1 .. Len(b) : t[Len(a) + i] = b[i]
    <2>1. a \in Seq(S) /\ b \in Seq(S) /\ Joined(a, b, t)
      BY <1>1, <1>2, <1>3
    <2> QED BY ONLY <2>1, AnyConcat
  <1>5. /\ t \in Seq(S) /\ Len(t) = Len(s) - 1
        /\ \A i \in 1 .. c - 1 : t[i] = s[i]
        /\ \A i \in 1 .. Len(s) - c : t[(c - 1) + i] = s[c + i]
    BY <1>0, <1>1, <1>2, <1>4
  <1>6. ASSUME NEW i \in 1 .. Len(s) - 1 PROVE t[i] = s[Skip(c, i)]
    <2>1. CASE i < c
      BY <1>0, <1>5, <2>1 DEF Skip
    <2>2. CASE ~(i < c)
      <3>1. /\ i - (c - 1) \in 1 .. Len(s) - c /\ (c - 1) + (i - (c - 1)) = i
            /\ c + (i - (c - 1)) = i + 1
        BY <1>0, <2>2
      <3> QED BY <1>5, <2>2, <3>1 DEF Skip
    <2> QED BY <2>1, <2>2
  <1> QED BY <1>3, <1>5, <1>6


LEMMA ExceptFacts ==
    ASSUME NEW S, NEW s \in Seq(S), NEW f \in 1 .. Len(s), NEW x \in S,
           NEW t, t = [s EXCEPT ![f] = x]
    PROVE  /\ t \in Seq(S) /\ Len(t) = Len(s) /\ t[f] = x
           /\ \A i \in 1 .. Len(s) : i # f => t[i] = s[i]
  OBVIOUS

-----------------------------------------------------------------------------
(* A packet arrives.                                                       *)

(* n is the packet that is received next.                                  *)
Newest(n) == n = Len(src) + 1

LEMMA ReceiveFacts ==
    ASSUME EvTypeOK, NEW s \in Source, Receive(s), NEW n, Newest(n)
    PROVE  /\ src' \in Seq(Source) /\ Len(src') = n /\ n <= MaxPackets
           /\ words' \in Seq(Seq(Packet)) /\ Len(words') = n
           /\ conn' \in Seq(1 .. MaxConnections) /\ Len(conn') = n
           /\ n \in Packet /\ n \notin 1 .. Len(src) /\ n \in 1 .. n /\ Len(src) \in Nat
           /\ 1 .. Len(src) \subseteq 1 .. n
           /\ \A p \in 1 .. Len(src) :
                 src'[p] = src[p] /\ words'[p] = words[p] /\ conn'[p] = conn[p]
           /\ \A p \in 1 .. n : p \in 1 .. Len(src) \/ p = n
           /\ src'[n] = s /\ words'[n] = <<n>> /\ conn'[n] = session
           /\ session' = session /\ cut' = cut
  <1>1. /\ pc = "idle" /\ Len(src) < MaxPackets
        /\ src' = Append(src, s) /\ words' = Append(words, <<n>>)
        /\ conn' = Append(conn, session) /\ session' = session /\ cut' = cut
        /\ n = Len(src) + 1
    BY DEF Receive, Newest
  <1>2. /\ src \in Seq(Source) /\ words \in Seq(Seq(Packet)) /\ Len(words) = Len(src)
        /\ conn \in Seq(1 .. MaxConnections) /\ Len(conn) = Len(src)
        /\ session \in 1 .. MaxConnections
    BY DEF EvTypeOK
  <1>3. Len(src) \in Nat /\ MaxPackets \in Nat
    BY <1>2, EventReassemblyAssumption
  <1>4. /\ n \in 1 .. MaxPackets /\ n \notin 1 .. Len(src) /\ n \in 1 .. n /\ n <= MaxPackets
        /\ 1 .. Len(src) \subseteq 1 .. n
        /\ \A p \in 1 .. n : p \in 1 .. Len(src) \/ p = n
    BY <1>1, <1>3
  <1>5. <<n>> \in Seq(Packet)
    BY <1>4 DEF Packet
  <1>6. /\ src' \in Seq(Source) /\ Len(src') = n /\ src'[n] = s
        /\ \A p \in 1 .. Len(src) : src'[p] = src[p]
    BY <1>1, <1>2, AnyAppend
  <1>7. /\ words' \in Seq(Seq(Packet)) /\ Len(words') = n /\ words'[n] = <<n>>
        /\ \A p \in 1 .. Len(src) : words'[p] = words[p]
    <2> DEFINE W == Seq(Packet)
               w == <<n>>
    <2>1. words \in Seq(W) /\ w \in W /\ words' = Append(words, w)
      BY <1>1, <1>2, <1>5
    <2> HIDE DEF W, w
    <2>2. /\ words' \in Seq(W) /\ Len(words') = n /\ words'[n] = w
          /\ \A p \in 1 .. Len(src) : words'[p] = words[p]
      <3>1. /\ Append(words, w) \in Seq(W) /\ Len(Append(words, w)) = Len(words) + 1
            /\ Append(words, w)[Len(words) + 1] = w
            /\ \A p \in 1 .. Len(words) : Append(words, w)[p] = words[p]
        BY ONLY <2>1, AnyAppend
      <3> QED BY <1>1, <1>2, <2>1, <3>1
    <2> QED BY <2>2 DEF W, w
  <1>8. /\ conn' \in Seq(1 .. MaxConnections) /\ Len(conn') = n /\ conn'[n] = session
        /\ \A p \in 1 .. Len(src) : conn'[p] = conn[p]
    <2> DEFINE C == 1 .. MaxConnections
    <2>1. conn \in Seq(C) /\ session \in C
      BY <1>2
    <2> HIDE DEF C
    <2>2. /\ conn' \in Seq(C) /\ Len(conn') = n /\ conn'[n] = session
          /\ \A p \in 1 .. Len(src) : conn'[p] = conn[p]
      BY <1>1, <1>2, <2>1, AnyAppend
    <2> QED BY <2>2 DEF C
  <1> QED BY <1>1, <1>3, <1>4, <1>6, <1>7, <1>8 DEF Packet

(* It leaves the packets before it and their words as they are.            *)
LEMMA ReceiveKeeps ==
    ASSUME EvTypeOK, Objects, NEW s \in Source, Receive(s), NEW n, Newest(n)
    PROVE  /\ \A e \in Seq(1 .. Len(src)) : e \in Seq(1 .. n) /\ (Whole(e) => WholeNext(e))
           /\ \A p \in 1 .. Len(src) :
                 /\ words'[p] \in Seq(1 .. n) /\ Len(words'[p]) > 0
                 /\ Fresh(p) => FreshNext(p)
           /\ words'[n] \in Seq(1 .. n) /\ Len(words'[n]) = 1 /\ FreshNext(n)
           /\ WholeNext(<<n>>) /\ <<n>> \in Seq(1 .. n) /\ Len(<<n>>) = 1
  <1>1. /\ n \in 1 .. n /\ 1 .. Len(src) \subseteq 1 .. n
        /\ \A p \in 1 .. Len(src) :
              src'[p] = src[p] /\ words'[p] = words[p] /\ conn'[p] = conn[p]
        /\ words'[n] = <<n>> /\ conn'[n] = session /\ session' = session
    BY ReceiveFacts
  <1> DEFINE P == 1 .. Len(src)
             Q == 1 .. n
  <1>2. P \subseteq Q /\ n \in Q
    BY <1>1
  <1>3. /\ \A p \in P : words'[p] = words[p] /\ conn'[p] = conn[p]
        /\ \A p \in P : words[p] \in Seq(P) /\ Len(words[p]) > 0
    BY <1>1 DEF Objects
  <1> HIDE DEF P, Q
  <1>4. \A e \in Seq(P) : e \in Seq(Q) /\ \A i \in 1 .. Len(e) : e[i] \in P
    BY <1>2, AnyWider, AnyElement
  <1>5. \A e \in Seq(P) : Whole(e) => WholeNext(e)
    BY <1>3, <1>4 DEF Whole, WholeNext
  <1>6. \A p \in P : Fresh(p) => FreshNext(p)
    BY <1>1, <1>3, <1>4 DEF Fresh, FreshNext
  <1>7. <<n>> \in Seq(Q) /\ Len(<<n>>) = 1 /\ <<n>>[1] = n
    BY <1>2
  <1>8. FreshNext(n) /\ WholeNext(<<n>>)
    BY <1>1, <1>7 DEF FreshNext, WholeNext
  <1> QED BY <1>1, <1>3, <1>4, <1>5, <1>6, <1>7, <1>8 DEF P, Q

LEMMA NewSent ==
    ASSUME EvTypeOK, NEW s \in Source, conts[s] < MaxConts,
           conts' = [conts EXCEPT ![s] = @ + 1]
    PROVE  conts' \in [Source -> 0 .. MaxConts]
  <1>1. MaxConts \in Nat /\ conts \in [Source -> 0 .. MaxConts]
    BY EventReassemblyAssumption DEF EvTypeOK
  <1>2. conts[s] + 1 \in 0 .. MaxConts
    BY <1>1
  <1> QED BY <1>1, <1>2

LEMMA NextConnection ==
    ASSUME \A i \in 1 .. Len(buf') : FreshNext(buf'[i]) \/ src'[buf'[i]] \in cut',
           pkg' # 0 => pkg' \in 1 .. Len(src') /\ FreshNext(pkg'),
           fwd_pkg' # 0 => FreshNext(fwd_pkg') \/ src'[pkg'] \in cut'
    PROVE  OneConnection'
  BY DEF OneConnection, Fresh, FreshNext

LEMMA NextEvents ==
    ASSUME \A i \in 1 .. Len(delivered') :
              WholeNext(delivered'[i].words) \/ delivered'[i].src \in cut'
    PROVE  EventsWhole'
  BY DEF EventsWhole, Whole, WholeNext

(* The packet with number n goes to the end of the list.                   *)
LEMMA ContStep ==
    ASSUME IInv, NEW s \in Source, HandleCont(s)
    PROVE  IInv'
  <1>0. EvTypeOK /\ Objects /\ Owned /\ OneConnection /\ EventsWhole
    BY DEF IInv
  <1> DEFINE n == Len(src) + 1
  <1>1. /\ Receive(s) /\ Newest(n) /\ pc = "idle" /\ buf' = Append(buf, n) /\ cursor' = 0
        /\ UNCHANGED <<freed, pc, pkg, fwd_pkg, delivered, lasts>>
        /\ conts[s] < MaxConts /\ conts' = [conts EXCEPT ![s] = @ + 1]
    BY DEF HandleCont, Receive, Newest
  <1> HIDE DEF n
  <1>2. /\ src' \in Seq(Source) /\ Len(src') = n /\ n <= MaxPackets
        /\ words' \in Seq(Seq(Packet)) /\ Len(words') = n
        /\ conn' \in Seq(1 .. MaxConnections) /\ Len(conn') = n
        /\ n \in Packet /\ n \notin 1 .. Len(src) /\ n \in 1 .. n /\ Len(src) \in Nat
        /\ 1 .. Len(src) \subseteq 1 .. n
        /\ \A p \in 1 .. Len(src) : src'[p] = src[p] /\ words'[p] = words[p]
        /\ \A p \in 1 .. n : p \in 1 .. Len(src) \/ p = n
        /\ session' = session /\ cut' = cut
    BY <1>0, <1>1, ReceiveFacts
  <1>3. /\ \A e \in Seq(1 .. Len(src)) : e \in Seq(1 .. n) /\ (Whole(e) => WholeNext(e))
        /\ \A p \in 1 .. Len(src) : /\ words'[p] \in Seq(1 .. n) /\ Len(words'[p]) > 0
                                    /\ Fresh(p) => FreshNext(p)
        /\ words'[n] \in Seq(1 .. n) /\ Len(words'[n]) = 1 /\ FreshNext(n)
    BY <1>0, <1>1, ReceiveKeeps
  <1>4. /\ buf' \in Seq(Packet) /\ Len(buf) \in Nat /\ Len(buf') = Len(buf) + 1
        /\ buf'[Len(buf')] = n
        /\ \A i \in 1 .. Len(buf) : buf'[i] = buf[i]
        /\ \A i \in 1 .. Len(buf') : i \in 1 .. Len(buf) \/ i = Len(buf')
    <2>1. buf \in Seq(Packet)
      BY <1>0 DEF EvTypeOK
    <2>2. /\ buf' \in Seq(Packet) /\ Len(buf) \in Nat /\ Len(buf') = Len(buf) + 1
          /\ buf'[Len(buf) + 1] = n
          /\ \A i \in 1 .. Len(buf) : buf'[i] = buf[i]
      BY <1>1, <1>2, <2>1, AnyAppend
    <2> QED BY <2>2
  <1>5. EvTypeOK'
    <2>1. conts' \in [Source -> 0 .. MaxConts]
      BY <1>0, <1>1, NewSent
    <2>2. cursor' \in 0 .. Len(buf')
      BY <1>1, <1>4
    <2> QED BY <1>0, <1>1, <1>2, <1>4, <2>1, <2>2 DEF EvTypeOK
  <1>6. pkg = 0 /\ fwd_pkg = 0 /\ n # 0
    BY <1>0, <1>1, <1>2 DEF Objects
  <1>7. \A i \in 1 .. Len(buf) : buf[i] \in 1 .. Len(src)
    BY <1>0 DEF Objects
  <1>8. Objects'
    <2>1. freed' \subseteq 1 .. n
      BY <1>0, <1>1, <1>2 DEF Objects
    <2>2. ASSUME NEW p \in 1 .. n PROVE words'[p] \in Seq(1 .. n) /\ Len(words'[p]) > 0
      <3>1. CASE p \in 1 .. Len(src)
        BY <1>3, <3>1
      <3>2. CASE p = n
        <4>1. words'[n] \in Seq(1 .. n) /\ Len(words'[n]) = 1
          BY <1>3
        <4> QED BY <3>2, <4>1
      <3> QED BY <1>2, <3>1, <3>2
    <2>3. ASSUME NEW i \in 1 .. Len(buf') PROVE buf'[i] \in 1 .. n /\ buf'[i] # 0
      <3>1. CASE i \in 1 .. Len(buf)
        <4>1. buf'[i] = buf[i] /\ buf[i] \in 1 .. Len(src)
          BY <1>4, <1>7, <3>1
        <4>2. 1 .. Len(src) \subseteq 1 .. n
          BY <1>2
        <4> QED BY <4>1, <4>2
      <3>2. CASE i = Len(buf')
        <4>1. buf'[i] = n /\ n \in 1 .. n
          BY <1>2, <1>4, <3>2
        <4> QED BY <1>6, <4>1
      <3> QED BY <1>4, <3>1, <3>2
    <2>4. ASSUME NEW i \in 1 .. Len(buf'), NEW j \in 1 .. Len(buf'), buf'[i] = buf'[j]
          PROVE  i = j
      <3>1. CASE i \in 1 .. Len(buf) /\ j \in 1 .. Len(buf)
        BY <1>0, <1>4, <2>4, <3>1 DEF Objects
      <3>2. \A k \in 1 .. Len(buf) : buf'[k] # n
        BY <1>2, <1>4, <1>7, ZenonT(60)
      <3> QED BY <1>4, <2>4, <3>1, <3>2
    <2>5. \A i \in 1 .. Len(delivered) : delivered[i].words \in Seq(1 .. n)
      BY <1>0, <1>3 DEF Objects
    <2> QED BY <1>1, <1>2, <1>6, <2>1, <2>2, <2>3, <2>4, <2>5 DEF Objects
  <1>9. Owned'
    <2>1. ASSUME Short' PROVE \A i \in 1 .. Len(buf') : buf'[i] \notin freed
      <3>1. Short
        BY <1>1, <2>1 DEF Short
      <3>2. \A i \in 1 .. Len(buf) : buf[i] \notin freed
        BY <1>0, <1>1, <3>1 DEF Owned
      <3>3. n \notin freed
        BY <1>0, <1>2 DEF Objects
      <3> QED BY <1>4, <3>2, <3>3
    <2> QED BY <1>1, <2>1 DEF Owned
  <1>10. OneConnection'
    <2>1. ASSUME NEW i \in 1 .. Len(buf)
          PROVE  FreshNext(buf'[i]) \/ src'[buf'[i]] \in cut'
      <3>1. buf[i] \in 1 .. Len(src) /\ (Fresh(buf[i]) \/ src[buf[i]] \in cut)
        BY <1>0, <1>7 DEF OneConnection
      <3>2. buf'[i] = buf[i]
        BY <1>4
      <3> QED BY <1>2, <1>3, <3>1, <3>2
    <2>2. \A i \in 1 .. Len(buf') : FreshNext(buf'[i]) \/ src'[buf'[i]] \in cut'
      BY <1>3, <1>4, <2>1
    <2> QED BY <1>1, <1>6, <2>2, NextConnection
  <1>11. EventsWhole'
    BY <1>0, <1>1, <1>2, <1>3, NextEvents DEF EventsWhole, Objects
  <1> QED BY <1>5, <1>8, <1>9, <1>10, <1>11 DEF IInv

(* What does not change when packet n comes while nothing is walked.       *)
LEMMA ReceiveRest ==
    ASSUME IInv, NEW s \in Source, Receive(s), NEW n, Newest(n), buf' = buf
    PROVE  /\ pc = "idle" /\ pkg = 0 /\ fwd_pkg = 0 /\ n # 0 /\ n \in 1 .. n
           /\ freed \subseteq 1 .. n /\ n \notin freed
           /\ \A p \in 1 .. n : words'[p] \in Seq(1 .. n) /\ Len(words'[p]) > 0
           /\ \A i \in 1 .. Len(buf') : buf'[i] \in 1 .. n /\ buf'[i] # 0 /\ buf'[i] # n
           /\ \A i, j \in 1 .. Len(buf') : buf'[i] = buf'[j] => i = j
           /\ \A i \in 1 .. Len(buf') : FreshNext(buf'[i]) \/ src'[buf'[i]] \in cut'
  <1>0. EvTypeOK /\ Objects /\ OneConnection
    BY DEF IInv
  <1>1. /\ n \notin 1 .. Len(src) /\ n \in 1 .. n /\ Len(src) \in Nat /\ n \in Packet
        /\ 1 .. Len(src) \subseteq 1 .. n
        /\ \A p \in 1 .. Len(src) : src'[p] = src[p]
        /\ \A p \in 1 .. n : p \in 1 .. Len(src) \/ p = n
        /\ cut' = cut
    BY <1>0, ReceiveFacts
  <1>2. /\ \A p \in 1 .. Len(src) : /\ words'[p] \in Seq(1 .. n) /\ Len(words'[p]) > 0
                                    /\ Fresh(p) => FreshNext(p)
        /\ words'[n] \in Seq(1 .. n) /\ Len(words'[n]) = 1
    BY <1>0, ReceiveKeeps
  <1>3. pc = "idle" /\ pkg = 0 /\ fwd_pkg = 0 /\ n # 0
    BY <1>0, <1>1 DEF Receive, Objects
  <1>4. freed \subseteq 1 .. n /\ n \notin freed
    BY <1>0, <1>1 DEF Objects
  <1>5. ASSUME NEW p \in 1 .. n PROVE words'[p] \in Seq(1 .. n) /\ Len(words'[p]) > 0
    <2>1. CASE p \in 1 .. Len(src)
      BY <1>2, <2>1
    <2>2. CASE p = n
      <3>1. words'[n] \in Seq(1 .. n) /\ Len(words'[n]) = 1
        BY <1>2
      <3> QED BY <2>2, <3>1
    <2> QED BY <1>1, <2>1, <2>2
  <1>6. ASSUME NEW i \in 1 .. Len(buf)
        PROVE  /\ buf[i] \in 1 .. Len(src) /\ buf[i] \in 1 .. n /\ buf[i] # 0 /\ buf[i] # n
               /\ FreshNext(buf[i]) \/ src'[buf[i]] \in cut'
    <2>1. buf[i] \in 1 .. Len(src) /\ buf[i] # pkg
      BY <1>0 DEF Objects
    <2>2. Fresh(buf[i]) \/ src[buf[i]] \in cut
      BY <1>0 DEF OneConnection
    <2> QED BY <1>1, <1>2, <1>3, <2>1, <2>2
  <1>7. \A i, j \in 1 .. Len(buf) : buf[i] = buf[j] => i = j
    BY <1>0 DEF Objects
  <1> QED BY <1>1, <1>3, <1>4, <1>5, <1>6, <1>7

(* Packet n is an event of its own.                                        *)
LEMMA OtherStep ==
    ASSUME IInv, NEW s \in Source, HandleOther(s)
    PROVE  IInv'
  <1>0. EvTypeOK /\ Objects /\ Owned /\ OneConnection /\ EventsWhole
    BY DEF IInv
  <1> DEFINE n == Len(src) + 1
             d == [src |-> s, words |-> <<n>>]
  <1>1. /\ Receive(s) /\ Newest(n) /\ pc = "idle" /\ delivered' = Append(delivered, d)
        /\ freed' = freed \cup {n}
        /\ UNCHANGED <<buf, cursor, pc, pkg, fwd_pkg, conts, lasts>>
        /\ d.src = s /\ d.words = <<n>>
    BY DEF HandleOther, Receive, Newest
  <1> HIDE DEF n
  <1>2. /\ src' \in Seq(Source) /\ Len(src') = n /\ n <= MaxPackets
        /\ words' \in Seq(Seq(Packet)) /\ Len(words') = n
        /\ conn' \in Seq(1 .. MaxConnections) /\ Len(conn') = n
        /\ n \in Packet /\ session' = session /\ cut' = cut
    BY <1>0, <1>1, ReceiveFacts
  <1>3. /\ pkg = 0 /\ fwd_pkg = 0 /\ n # 0 /\ n \in 1 .. n
        /\ freed \subseteq 1 .. n /\ n \notin freed
        /\ \A p \in 1 .. n : words'[p] \in Seq(1 .. n) /\ Len(words'[p]) > 0
        /\ \A i \in 1 .. Len(buf') : buf'[i] \in 1 .. n /\ buf'[i] # 0 /\ buf'[i] # n
        /\ \A i, j \in 1 .. Len(buf') : buf'[i] = buf'[j] => i = j
        /\ \A i \in 1 .. Len(buf') : FreshNext(buf'[i]) \/ src'[buf'[i]] \in cut'
    BY <1>1, ReceiveRest
  <1>4. /\ \A e \in Seq(1 .. Len(src)) : e \in Seq(1 .. n) /\ (Whole(e) => WholeNext(e))
        /\ WholeNext(<<n>>) /\ <<n>> \in Seq(1 .. n)
    BY <1>0, <1>1, ReceiveKeeps
  <1> DEFINE E == [src : Source, words : Seq(Packet)]
  <1>5. d \in E /\ delivered \in Seq(E)
    BY <1>0, <1>2 DEF EvTypeOK
  <1> HIDE DEF d, E
  <1>6. /\ delivered' \in Seq(E) /\ Len(delivered) \in Nat
        /\ Len(delivered') = Len(delivered) + 1
        /\ delivered'[Len(delivered')] = d
        /\ \A i \in 1 .. Len(delivered) : delivered'[i] = delivered[i]
        /\ \A i \in 1 .. Len(delivered') : i \in 1 .. Len(delivered) \/ i = Len(delivered')
    <2>1. /\ Append(delivered, d) \in Seq(E) /\ Len(delivered) \in Nat
          /\ Len(Append(delivered, d)) = Len(delivered) + 1
          /\ Append(delivered, d)[Len(delivered) + 1] = d
          /\ \A i \in 1 .. Len(delivered) : Append(delivered, d)[i] = delivered[i]
      BY ONLY <1>5, AnyAppend
    <2> QED BY <1>1, <2>1
  <1>7. EvTypeOK'
    <2>1. freed' \subseteq Packet
      BY <1>0, <1>1, <1>2 DEF EvTypeOK
    <2>2. delivered' \in Seq([src : Source, words : Seq(Packet)])
      BY <1>6 DEF E
    <2> QED BY <1>0, <1>1, <1>2, <2>1, <2>2 DEF EvTypeOK
  <1>8. Objects'
    <2>1. freed' \subseteq 1 .. n
      BY <1>1, <1>3
    <2>2. ASSUME NEW i \in 1 .. Len(delivered')
          PROVE  delivered'[i].words \in Seq(1 .. n)
      <3>1. CASE i \in 1 .. Len(delivered)
        <4>1. delivered[i].words \in Seq(1 .. Len(src))
          BY <1>0, <3>1 DEF Objects
        <4> QED BY <1>4, <1>6, <3>1, <4>1
      <3>2. CASE i = Len(delivered')
        BY <1>1, <1>4, <1>6, <3>2
      <3> QED BY <1>6, <3>1, <3>2
    <2> QED BY <1>1, <1>2, <1>3, <2>1, <2>2 DEF Objects
  <1>9. Owned'
    <2>1. ASSUME Short' PROVE \A i \in 1 .. Len(buf') : buf'[i] \notin freed'
      <3>1. Short
        BY <1>6, <2>1 DEF Short
      <3>2. \A i \in 1 .. Len(buf) : buf[i] \notin freed
        BY <1>0, <1>1, <3>1 DEF Owned
      <3> QED BY <1>1, <1>3, <3>2
    <2> QED BY <2>1 DEF Owned
  <1>10. OneConnection'
    BY <1>1, <1>3, NextConnection
  <1>11. EventsWhole'
    <2>1. ASSUME NEW i \in 1 .. Len(delivered')
          PROVE  WholeNext(delivered'[i].words) \/ delivered'[i].src \in cut'
      <3>1. CASE i \in 1 .. Len(delivered)
        <4>1. /\ delivered[i].words \in Seq(1 .. Len(src))
              /\ Whole(delivered[i].words) \/ delivered[i].src \in cut
          BY <1>0, <3>1 DEF Objects, EventsWhole
        <4> QED BY <1>2, <1>4, <1>6, <3>1, <4>1
      <3>2. CASE i = Len(delivered')
        BY <1>1, <1>4, <1>6, <3>2
      <3> QED BY <1>6, <3>1, <3>2
    <2> QED BY <2>1, NextEvents
  <1> QED BY <1>7, <1>8, <1>9, <1>10, <1>11 DEF IInv

(* Packet n completes an event: the walk begins.                           *)
LEMMA LastStep ==
    ASSUME IInv, NEW s \in Source, HandleLast(s)
    PROVE  IInv'
  <1>0. EvTypeOK /\ Objects /\ Owned /\ OneConnection /\ EventsWhole
    BY DEF IInv
  <1> DEFINE n == Len(src) + 1
  <1>1. /\ Receive(s) /\ Newest(n) /\ pc = "idle" /\ pkg' = n /\ fwd_pkg' = 0
        /\ cursor' = FirstOf(buf) /\ pc' = "walk" /\ UNCHANGED <<freed, buf, delivered>>
        /\ lasts < MaxLasts /\ lasts' = lasts + 1 /\ conts' = [conts EXCEPT ![s] = 0]
    BY DEF HandleLast, Receive, Newest
  <1> HIDE DEF n
  <1>2. /\ src' \in Seq(Source) /\ Len(src') = n /\ n <= MaxPackets
        /\ words' \in Seq(Seq(Packet)) /\ Len(words') = n
        /\ conn' \in Seq(1 .. MaxConnections) /\ Len(conn') = n
        /\ n \in Packet /\ session' = session /\ cut' = cut
    BY <1>0, <1>1, ReceiveFacts
  <1>3. /\ n # 0 /\ n \in 1 .. n
        /\ freed \subseteq 1 .. n
        /\ \A p \in 1 .. n : words'[p] \in Seq(1 .. n) /\ Len(words'[p]) > 0
        /\ \A i \in 1 .. Len(buf') : buf'[i] \in 1 .. n /\ buf'[i] # 0 /\ buf'[i] # n
        /\ \A i, j \in 1 .. Len(buf') : buf'[i] = buf'[j] => i = j
        /\ \A i \in 1 .. Len(buf') : FreshNext(buf'[i]) \/ src'[buf'[i]] \in cut'
    BY <1>1, ReceiveRest
  <1>4. /\ \A e \in Seq(1 .. Len(src)) : e \in Seq(1 .. n) /\ (Whole(e) => WholeNext(e))
        /\ FreshNext(n)
    BY <1>0, <1>1, ReceiveKeeps
  <1>5. EvTypeOK'
    <2>1. conts' \in [Source -> 0 .. MaxConts] /\ lasts' \in 0 .. MaxLasts
      <3>1. 0 \in 0 .. MaxConts /\ MaxLasts \in Nat
        BY EventReassemblyAssumption
      <3> QED BY <1>0, <1>1, <3>1 DEF EvTypeOK
    <2>2. cursor' \in 0 .. Len(buf')
      <3>1. Len(buf) \in Nat /\ (buf # <<>> => Len(buf) > 0)
        BY <1>0 DEF EvTypeOK
      <3> QED BY <1>1, <3>1 DEF FirstOf
    <2> QED BY <1>0, <1>1, <1>2, <2>1, <2>2 DEF EvTypeOK
  <1>6. \A i \in 1 .. Len(delivered) :
            /\ delivered[i].words \in Seq(1 .. n)
            /\ WholeNext(delivered[i].words) \/ delivered[i].src \in cut
    BY <1>0, <1>4 DEF Objects, EventsWhole
  <1>7. Objects'
    BY <1>1, <1>2, <1>3, <1>6 DEF Objects
  <1>8. Owned'
    <2>1. ASSUME Short' PROVE \A i \in 1 .. Len(buf') : buf'[i] \notin freed'
      <3>1. Short
        BY <1>1, <2>1 DEF Short
      <3> QED BY <1>0, <1>1, <3>1 DEF Owned
    <2> QED BY <2>1 DEF Owned
  <1>9. OneConnection'
    BY <1>1, <1>2, <1>3, <1>4, NextConnection
  <1>10. EventsWhole'
    BY <1>1, <1>2, <1>6, NextEvents
  <1> QED BY <1>5, <1>7, <1>8, <1>9, <1>10 DEF IInv

(* A new connection: the sources whose packets are in the list are cut.    *)
LEMMA ReconnectStep ==
    ASSUME IInv, Reconnect
    PROVE  IInv'
  <1>0. EvTypeOK /\ Objects /\ Owned /\ OneConnection /\ EventsWhole
    BY DEF IInv
  <1>1. /\ pc = "idle" /\ session < MaxConnections /\ session' = session + 1
        /\ conts' = [s \in Source |-> 0] /\ cut' = cut \cup {src[buf[i]] : i \in DOMAIN buf}
        /\ UNCHANGED <<src, words, freed, buf, cursor, pc, pkg, fwd_pkg, delivered, lasts, conn>>
    BY DEF Reconnect
  <1>2. pkg = 0 /\ fwd_pkg = 0
    BY <1>0, <1>1 DEF Objects
  <1>3. DOMAIN buf = 1 .. Len(buf)
    BY <1>0 DEF EvTypeOK
  <1>4. cut' \subseteq Source /\ cut \subseteq cut'
    <2>1. ASSUME NEW i \in 1 .. Len(buf) PROVE src[buf[i]] \in Source
      <3>1. buf[i] \in 1 .. Len(src) /\ src \in Seq(Source)
        BY <1>0 DEF EvTypeOK, Objects
      <3> QED BY <3>1
    <2> QED BY <1>0, <1>1, <1>3, <2>1 DEF EvTypeOK
  <1>5. EvTypeOK'
    <2>1. session' \in 1 .. MaxConnections
      BY <1>0, <1>1, EventReassemblyAssumption DEF EvTypeOK
    <2>2. conts' \in [Source -> 0 .. MaxConts]
      <3>1. 0 \in 0 .. MaxConts
        BY EventReassemblyAssumption
      <3> QED BY <1>1, <3>1
    <2> QED BY <1>0, <1>1, <1>4, <2>1, <2>2 DEF EvTypeOK
  <1>6. Objects'
    BY <1>0, <1>1 DEF Objects
  <1>7. Owned'
    BY <1>0, <1>1 DEF Owned, Short
  <1>8. OneConnection'
    <2>1. \A i \in 1 .. Len(buf') : src'[buf'[i]] \in cut'
      BY <1>1, <1>3
    <2> QED BY <1>1, <1>2, <2>1, NextConnection
  <1>9. EventsWhole'
    BY <1>0, <1>1, <1>4 DEF EventsWhole, Whole
  <1> QED BY <1>5, <1>6, <1>7, <1>8, <1>9 DEF IInv

-----------------------------------------------------------------------------
(* The walk.                                                               *)

LEMMA NextOfFacts ==
    ASSUME NEW S, NEW list \in Seq(S), NEW c \in 0 .. Len(list)
    PROVE  NextOf(list, c) \in 0 .. Len(list)
  <1>1. Len(list) \in Nat /\ (list # <<>> => Len(list) > 0)
    OBVIOUS
  <1> QED BY <1>1 DEF NextOf, FirstOf

(* The entry under the cursor.                                             *)
LEMMA EntryFacts ==
    ASSUME IInv, Walking
    PROVE  /\ pc = "walk" /\ cursor \in 1 .. Len(buf) /\ Len(buf) \in Nat
           /\ inbuf \in 1 .. Len(src) /\ inbuf # pkg /\ inbuf # fwd_pkg /\ inbuf \in Packet
           /\ pkg \in 1 .. Len(src) /\ pkg # 0
           /\ Fresh(inbuf) \/ src[inbuf] \in cut
  <1>1. EvTypeOK /\ Objects /\ OneConnection
    BY DEF IInv
  <1>2. pc = "walk" /\ cursor \in 1 .. Len(buf) /\ Len(buf) \in Nat /\ buf \in Seq(Packet)
    BY <1>1 DEF EvTypeOK, Walking
  <1>3. inbuf = buf[cursor]
    BY DEF inbuf
  <1>4. inbuf \in 1 .. Len(src) /\ inbuf # pkg /\ inbuf # fwd_pkg
    BY <1>1, <1>2, <1>3 DEF Objects
  <1>5. Fresh(inbuf) \/ src[inbuf] \in cut
    BY <1>1, <1>2, <1>3 DEF OneConnection
  <1>6. inbuf \in Packet
    BY <1>2, <1>3, AnyElement
  <1>7. pkg \in 1 .. Len(src) /\ pkg # 0
    BY <1>1, <1>2 DEF Objects
  <1> QED BY <1>2, <1>4, <1>5, <1>6, <1>7

LEMMA PassStep ==
    ASSUME IInv, ReadFreed \/ SkipOther
    PROVE  IInv'
  <1>0. EvTypeOK /\ Objects /\ Owned /\ OneConnection /\ EventsWhole
    BY DEF IInv
  <1>1. /\ pc = "walk" /\ pc' \in {"walk", "undefined"}
        /\ cursor' \in {cursor, NextOf(buf, cursor)}
        /\ UNCHANGED <<src, words, freed, buf, pkg, fwd_pkg, delivered, conts, lasts, conn,
                       session, cut>>
    BY DEF ReadFreed, SkipOther, Walking
  <1>2. EvTypeOK'
    <2>1. cursor' \in 0 .. Len(buf)
      BY <1>0, <1>1, NextOfFacts DEF EvTypeOK
    <2> QED BY <1>0, <1>1, <2>1 DEF EvTypeOK
  <1>3. Objects'
    BY <1>0, <1>1 DEF Objects
  <1>4. Owned'
    BY <1>0, <1>1 DEF Owned, Short
  <1>5. OneConnection' /\ EventsWhole'
    BY <1>0, <1>1 DEF OneConnection, EventsWhole, Fresh, Whole
  <1> QED BY <1>2, <1>3, <1>4, <1>5 DEF IInv

LEMMA TakeFirstStep ==
    ASSUME IInv, TakeFirst
    PROVE  IInv'
  <1>0. EvTypeOK /\ Objects /\ Owned /\ OneConnection /\ EventsWhole
    BY DEF IInv
  <1>1. /\ Walking /\ src[inbuf] = src[pkg] /\ fwd_pkg = 0 /\ fwd_pkg' = inbuf
        /\ buf' = RemoveAt(buf, cursor) /\ cursor' = NextOf(buf', cursor - 1)
        /\ UNCHANGED <<src, words, freed, pc, pkg, delivered, conts, lasts, conn, session, cut>>
    BY DEF TakeFirst
  <1>2. /\ pc = "walk" /\ cursor \in 1 .. Len(buf) /\ Len(buf) \in Nat
        /\ inbuf \in 1 .. Len(src) /\ inbuf # pkg /\ inbuf \in Packet
        /\ pkg \in 1 .. Len(src) /\ pkg # 0
        /\ Fresh(inbuf) \/ src[inbuf] \in cut
    BY <1>1, EntryFacts
  <1>3. /\ buf' \in Seq(Packet) /\ Len(buf') = Len(buf) - 1
        /\ \A i \in 1 .. Len(buf') : buf'[i] = buf[Skip(cursor, i)]
    <2>1. /\ RemoveAt(buf, cursor) \in Seq(Packet) /\ Len(RemoveAt(buf, cursor)) = Len(buf) - 1
          /\ \A i \in 1 .. Len(buf) - 1 : RemoveAt(buf, cursor)[i] = buf[Skip(cursor, i)]
      BY <1>0, <1>2, RemoveFacts DEF EvTypeOK
    <2> QED BY <1>1, <2>1
  <1>4. ASSUME NEW i \in 1 .. Len(buf')
        PROVE  Skip(cursor, i) \in 1 .. Len(buf) /\ Skip(cursor, i) # cursor
    BY <1>2, <1>3 DEF Skip
  <1>5. ASSUME NEW i \in 1 .. Len(buf'), NEW j \in 1 .. Len(buf'),
               Skip(cursor, i) = Skip(cursor, j)
        PROVE  i = j
    BY <1>2, <1>3, <1>5 DEF Skip
  <1>6. \A i, j \in 1 .. Len(buf) : buf[i] = buf[j] => i = j
    BY <1>0 DEF Objects
  <1>7. EvTypeOK'
    <2>1. cursor' \in 0 .. Len(buf')
      <3>1. cursor - 1 \in 0 .. Len(buf')
        BY <1>2, <1>3
      <3> QED BY <1>1, <1>3, <3>1, NextOfFacts
    <2> QED BY <1>0, <1>1, <1>2, <1>3, <2>1 DEF EvTypeOK
  <1>8. Objects'
    <2>1. ASSUME NEW i \in 1 .. Len(buf')
          PROVE  buf'[i] \in 1 .. Len(src) /\ buf'[i] # pkg /\ buf'[i] # inbuf
      <3>1. buf'[i] = buf[Skip(cursor, i)] /\ inbuf = buf[cursor]
        BY <1>3 DEF inbuf
      <3>2. buf[Skip(cursor, i)] # buf[cursor]
        BY <1>2, <1>4, <1>6
      <3>3. buf[Skip(cursor, i)] \in 1 .. Len(src) /\ buf[Skip(cursor, i)] # pkg
        BY <1>0, <1>4 DEF Objects
      <3> QED BY <3>1, <3>2, <3>3
    <2>2. ASSUME NEW i \in 1 .. Len(buf'), NEW j \in 1 .. Len(buf'), buf'[i] = buf'[j]
          PROVE  i = j
      <3>1. Skip(cursor, i) = Skip(cursor, j)
        BY <1>3, <1>4, <1>6, <2>2
      <3> QED BY <1>5, <3>1
    <2> QED BY <1>0, <1>1, <1>2, <2>1, <2>2 DEF Objects
  <1>9. Owned'
    <2>1. ASSUME Short' PROVE \A i \in 1 .. Len(buf') : buf'[i] \notin freed'
      <3>1. Short
        BY <1>1, <2>1 DEF Short
      <3>2. \A i \in 1 .. Len(buf) : buf[i] \notin freed
        BY <1>0, <1>1, <3>1 DEF Owned
      <3> QED BY <1>1, <1>3, <1>4, <3>2
    <2> QED BY <2>1 DEF Owned
  <1>10. OneConnection'
    <2>1. \A i \in 1 .. Len(buf') : Fresh(buf'[i]) \/ src[buf'[i]] \in cut
      BY <1>0, <1>3, <1>4 DEF OneConnection
    <2>2. \A p : FreshNext(p) <=> Fresh(p)
      BY <1>1 DEF Fresh, FreshNext
    <2>3. pkg \in 1 .. Len(src) /\ Fresh(pkg)
      BY <1>0, <1>2 DEF OneConnection
    <2> QED BY <1>1, <1>2, <2>1, <2>2, <2>3, NextConnection
  <1>11. EventsWhole'
    BY <1>0, <1>1 DEF EventsWhole, Whole
  <1> QED BY <1>7, <1>8, <1>9, <1>10, <1>11 DEF IInv

(* Words put together are words of either part.                            *)
FromEither(a, b, e) ==
    \A k \in 1 .. Len(e) : \/ \E i \in 1 .. Len(a) : e[k] = a[i]
                           \/ \E i \in 1 .. Len(b) : e[k] = b[i]

LEMMA JoinFacts ==
    ASSUME NEW S, NEW a \in Seq(S), NEW b \in Seq(S), NEW e, Joined(a, b, e)
    PROVE  /\ e \in Seq(S) /\ Len(e) = Len(a) + Len(b) /\ Len(a) \in Nat /\ Len(b) \in Nat
           /\ FromEither(a, b, e)
  <1>1. /\ e \in Seq(S) /\ Len(e) = Len(a) + Len(b) /\ Len(a) \in Nat /\ Len(b) \in Nat
        /\ \A i \in 1 .. Len(a) : e[i] = a[i]
        /\ \A i \in 1 .. Len(b) : e[Len(a) + i] = b[i]
    BY AnyConcat
  <1>2. ASSUME NEW k \in 1 .. Len(e)
        PROVE  \/ \E i \in 1 .. Len(a) : e[k] = a[i]
               \/ \E i \in 1 .. Len(b) : e[k] = b[i]
    <2>1. CASE k <= Len(a)
      <3>1. k \in 1 .. Len(a) /\ e[k] = a[k]
        BY <1>1, <2>1
      <3> QED BY <3>1
    <2>2. CASE ~(k <= Len(a))
      <3> DEFINE i == k - Len(a)
      <3>1. i \in 1 .. Len(b) /\ Len(a) + i = k
        BY <1>1, <2>2
      <3> HIDE DEF i
      <3>2. e[k] = b[i]
        BY <1>1, <3>1
      <3> QED BY <3>1, <3>2
    <2> QED BY <2>1, <2>2
  <1> QED BY <1>1, <1>2 DEF FromEither

LEMMA Sums ==
    ASSUME NEW x \in Nat, NEW y \in Nat, NEW z, z = x + y, x > 0, y > 0
    PROVE  z > 0 /\ z >= 2
  OBVIOUS

LEMMA LongSum ==
    ASSUME NEW x \in Nat, NEW y \in Nat, NEW z, z = x + y, x >= 2, y > 0
    PROVE  ~(z <= 2)
  OBVIOUS

LEMMA TakeNextStep ==
    ASSUME IInv, TakeNext
    PROVE  IInv'
  <1>0. EvTypeOK /\ Objects /\ Owned /\ OneConnection /\ EventsWhole
    BY DEF IInv
  <1> DEFINE e == words[fwd_pkg] \o words[inbuf]
             P == 1 .. Len(src)
  <1>1. /\ Walking /\ src[inbuf] = src[pkg] /\ fwd_pkg # 0
        /\ words' = [words EXCEPT ![fwd_pkg] = e] /\ Joined(words[fwd_pkg], words[inbuf], e)
        /\ freed' = freed \cup {inbuf} /\ cursor' = NextOf(buf, cursor)
        /\ UNCHANGED <<src, buf, pc, pkg, fwd_pkg, delivered, conts, lasts, conn, session, cut>>
    BY DEF TakeNext, Joined
  <1> HIDE DEF e
  <1>2. /\ pc = "walk" /\ inbuf \in P /\ inbuf # pkg /\ inbuf # fwd_pkg /\ inbuf \in Packet
        /\ pkg \in P /\ pkg # 0
        /\ Fresh(inbuf) \/ src[inbuf] \in cut
    BY <1>1, EntryFacts
  <1>3. /\ fwd_pkg \in P /\ fwd_pkg # pkg
        /\ words[fwd_pkg] \in Seq(P) /\ words[inbuf] \in Seq(P)
        /\ Len(words[fwd_pkg]) > 0 /\ Len(words[inbuf]) > 0
    BY <1>0, <1>1, <1>2 DEF Objects
  <1>4. words \in Seq(Seq(Packet)) /\ fwd_pkg \in 1 .. Len(words) /\ inbuf \in 1 .. Len(words)
    BY <1>0, <1>2, <1>3 DEF EvTypeOK
  <1> HIDE DEF P
  <1>5. /\ e \in Seq(P) /\ Len(e) = Len(words[fwd_pkg]) + Len(words[inbuf])
        /\ Len(words[fwd_pkg]) \in Nat /\ Len(words[inbuf]) \in Nat
        /\ FromEither(words[fwd_pkg], words[inbuf], e)
    <2>1. /\ words[fwd_pkg] \in Seq(P) /\ words[inbuf] \in Seq(P)
          /\ Joined(words[fwd_pkg], words[inbuf], e)
      BY <1>1, <1>3
    <2> QED BY ONLY <2>1, JoinFacts, ZenonT(60)
  <1>6. /\ words' \in Seq(Seq(Packet)) /\ Len(words') = Len(words) /\ words'[fwd_pkg] = e
        /\ \A p \in 1 .. Len(words) : p # fwd_pkg => words'[p] = words[p]
    <2> DEFINE W == Seq(Packet)
    <2>1. words[fwd_pkg] \in Seq(Packet) /\ words[inbuf] \in Seq(Packet)
      <3>1. words \in Seq(W)
        BY <1>4
      <3> HIDE DEF W
      <3>2. words[fwd_pkg] \in W /\ words[inbuf] \in W
        BY <1>4, <3>1, AnyElement
      <3> QED BY <3>2 DEF W
    <2>2. e \in Seq(Packet)
      BY <1>1, <2>1, JoinFacts
    <2>3. words \in Seq(W) /\ e \in W
      BY <1>4, <2>2
    <2> HIDE DEF W
    <2>4. /\ words' \in Seq(W) /\ Len(words') = Len(words) /\ words'[fwd_pkg] = e
          /\ \A p \in 1 .. Len(words) : p # fwd_pkg => words'[p] = words[p]
      BY <1>1, <1>4, <2>3, ExceptFacts
    <2> QED BY <2>4 DEF W
  <1>7. EvTypeOK'
    <2>1. cursor' \in 0 .. Len(buf)
      BY <1>0, <1>1, NextOfFacts DEF EvTypeOK
    <2> QED BY <1>0, <1>1, <1>2, <1>6, <2>1 DEF EvTypeOK
  <1>8. Len(words) = Len(src)
    BY <1>0 DEF EvTypeOK
  <1>9. Objects'
    <2>1. ASSUME NEW p \in P PROVE words'[p] \in Seq(P) /\ Len(words'[p]) > 0
      <3>1. CASE p = fwd_pkg
        <4>1. words'[p] = e /\ e \in Seq(P)
          BY <1>5, <1>6, <3>1
        <4>2. Len(e) > 0
          <5>1. /\ Len(e) = Len(words[fwd_pkg]) + Len(words[inbuf])
                /\ Len(words[fwd_pkg]) \in Nat /\ Len(words[inbuf]) \in Nat
            BY <1>5
          <5>2. Len(words[fwd_pkg]) > 0 /\ Len(words[inbuf]) > 0
            BY <1>3
          <5> QED BY ONLY <5>1, <5>2, Sums
        <4> QED BY <4>1, <4>2
      <3>2. CASE p # fwd_pkg
        <4>1. words'[p] = words[p]
          BY <1>6, <1>8, <3>2 DEF P
        <4> QED BY <1>0, <4>1 DEF Objects, P
      <3> QED BY <3>1, <3>2
    <2>2. freed' \subseteq P
      BY <1>0, <1>1, <1>2 DEF Objects, P
    <2> QED BY <1>0, <1>1, <2>1, <2>2 DEF Objects, P
  <1>10. Owned'
    <2>1. Len(words'[fwd_pkg']) >= 2
      BY <1>1, <1>3, <1>5, <1>6
    <2> QED BY <1>1, <1>2, <2>1 DEF Owned
  <1>11. ASSUME NEW p \in P, p # fwd_pkg, Fresh(p) PROVE FreshNext(p)
    BY <1>1, <1>6, <1>8, <1>11 DEF Fresh, FreshNext, P
  <1>12. ASSUME Fresh(fwd_pkg), Fresh(inbuf) PROVE FreshNext(fwd_pkg)
    <2>1. words'[fwd_pkg] = e /\ conn' = conn /\ session' = session
      BY <1>1, <1>6
    <2>2. ASSUME NEW k \in 1 .. Len(e) PROVE conn[e[k]] = session
      <3>1. CASE \E i \in 1 .. Len(words[fwd_pkg]) : e[k] = words[fwd_pkg][i]
        BY <1>12, <3>1 DEF Fresh
      <3>2. CASE \E i \in 1 .. Len(words[inbuf]) : e[k] = words[inbuf][i]
        BY <1>12, <3>2 DEF Fresh
      <3> QED BY <1>5, <3>1, <3>2 DEF FromEither
    <2> QED BY <2>1, <2>2 DEF FreshNext
  <1>13. OneConnection'
    <2>1. ASSUME NEW i \in 1 .. Len(buf) PROVE FreshNext(buf[i]) \/ src[buf[i]] \in cut
      <3>1. buf[i] \in P /\ buf[i] # fwd_pkg /\ (Fresh(buf[i]) \/ src[buf[i]] \in cut)
        BY <1>0 DEF Objects, OneConnection, P
      <3> QED BY <1>11, <3>1
    <2>2. Fresh(pkg) /\ (Fresh(fwd_pkg) \/ src[pkg] \in cut)
      BY <1>0, <1>1, <1>2 DEF OneConnection
    <2>3. FreshNext(fwd_pkg) \/ src[pkg] \in cut
      BY <1>1, <1>2, <1>12, <2>2
    <2>4. pkg \in 1 .. Len(src) /\ FreshNext(pkg)
      BY <1>1, <1>2, <1>3, <1>11, <2>2 DEF P
    <2> QED BY <1>1, <2>1, <2>3, <2>4, NextConnection
  <1>14. EventsWhole'
    BY <1>0, <1>1 DEF EventsWhole, Whole
  <1> QED BY <1>7, <1>9, <1>10, <1>13, <1>14 DEF IInv

(* The event that DeliverEvent hands over.                                 *)
Event == IF fwd_pkg = 0 THEN words[pkg] ELSE words[fwd_pkg] \o words[pkg]

LEMMA EventFacts ==
    ASSUME IInv, pc = "walk"
    PROVE  /\ Event \in Seq(Packet) /\ Event \in Seq(1 .. Len(src))
           /\ Whole(Event) \/ src[pkg] \in cut
           /\ fwd_pkg # 0 /\ Len(words[fwd_pkg]) >= 2 => ~(Len(Event) <= 2)
  <1>0. EvTypeOK /\ Objects /\ OneConnection
    BY DEF IInv
  <1> DEFINE P == 1 .. Len(src)
  <1>1. pkg \in P /\ pkg # 0 /\ words[pkg] \in Seq(P) /\ Len(words[pkg]) > 0 /\ Fresh(pkg)
    BY <1>0 DEF Objects, OneConnection
  <1>2. ASSUME NEW p \in P PROVE words[p] \in Seq(Packet)
    <2> DEFINE W == Seq(Packet)
    <2>1. words \in Seq(W) /\ p \in 1 .. Len(words)
      BY <1>0 DEF EvTypeOK
    <2> HIDE DEF W
    <2>2. words[p] \in W
      BY <2>1, AnyElement
    <2> QED BY <2>2 DEF W
  <1>3. CASE fwd_pkg = 0
    <2>1. Event = words[pkg]
      BY <1>3 DEF Event
    <2>2. Whole(words[pkg])
      BY <1>1 DEF Whole, Fresh
    <2> QED BY <1>1, <1>2, <1>3, <2>1, <2>2
  <1>4. CASE fwd_pkg # 0
    <2>1. /\ fwd_pkg \in P /\ words[fwd_pkg] \in Seq(P) /\ Len(words[fwd_pkg]) > 0
          /\ Fresh(fwd_pkg) \/ src[pkg] \in cut
      BY <1>0, <1>4 DEF Objects, OneConnection
    <2>2. Joined(words[fwd_pkg], words[pkg], Event)
      BY <1>4 DEF Event, Joined
    <2> HIDE DEF P
    <2>3. /\ Event \in Seq(P) /\ Len(Event) = Len(words[fwd_pkg]) + Len(words[pkg])
          /\ Len(words[fwd_pkg]) \in Nat /\ Len(words[pkg]) \in Nat
          /\ FromEither(words[fwd_pkg], words[pkg], Event)
      <3>1. /\ words[fwd_pkg] \in Seq(P) /\ words[pkg] \in Seq(P)
            /\ Joined(words[fwd_pkg], words[pkg], Event)
        BY <1>1, <2>1, <2>2
      <3> QED BY ONLY <3>1, JoinFacts, ZenonT(60)
    <2>4. Event \in Seq(Packet)
      <3>1. /\ words[fwd_pkg] \in Seq(Packet) /\ words[pkg] \in Seq(Packet)
            /\ Joined(words[fwd_pkg], words[pkg], Event)
        BY <1>1, <1>2, <2>1, <2>2
      <3> QED BY ONLY <3>1, JoinFacts
    <2>5. ASSUME Fresh(fwd_pkg) PROVE Whole(Event)
      <3>1. ASSUME NEW k \in 1 .. Len(Event) PROVE conn[Event[k]] = session
        <4>1. CASE \E i \in 1 .. Len(words[fwd_pkg]) : Event[k] = words[fwd_pkg][i]
          BY <2>5, <4>1 DEF Fresh
        <4>2. CASE \E i \in 1 .. Len(words[pkg]) : Event[k] = words[pkg][i]
          BY <1>1, <4>2 DEF Fresh
        <4> QED BY <2>3, <4>1, <4>2 DEF FromEither
      <3> QED BY <3>1 DEF Whole
    <2>6. ASSUME Len(words[fwd_pkg]) >= 2 PROVE ~(Len(Event) <= 2)
      <3>1. /\ Len(Event) = Len(words[fwd_pkg]) + Len(words[pkg])
            /\ Len(words[fwd_pkg]) \in Nat /\ Len(words[pkg]) \in Nat
            /\ Len(words[fwd_pkg]) >= 2 /\ Len(words[pkg]) > 0
        BY <1>1, <2>3, <2>6
      <3> QED BY ONLY <3>1, LongSum
    <2> QED BY <2>1, <2>3, <2>4, <2>5, <2>6 DEF P
  <1> QED BY <1>3, <1>4

LEMMA DeliverStep ==
    ASSUME IInv, DeliverEvent
    PROVE  IInv'
  <1>0. EvTypeOK /\ Objects /\ Owned /\ OneConnection /\ EventsWhole
    BY DEF IInv
  <1> DEFINE d == [src |-> src[pkg], words |-> Event]
             E == [src : Source, words : Seq(Packet)]
  <1>1. /\ pc = "walk" /\ pc' = "idle" /\ pkg' = 0 /\ fwd_pkg' = 0
        /\ delivered' = Append(delivered, d) /\ freed' = freed \cup ({pkg, fwd_pkg} \ {0})
        /\ UNCHANGED <<src, words, buf, cursor, conts, lasts, conn, session, cut>>
        /\ d.src = src[pkg] /\ d.words = Event
    BY DEF DeliverEvent, Event
  <1>2. /\ pkg \in 1 .. Len(src) /\ pkg # 0 /\ pkg \in Packet
        /\ fwd_pkg # 0 => fwd_pkg \in 1 .. Len(src) /\ fwd_pkg \in Packet
    <2>1. /\ pkg \in 1 .. Len(src) /\ pkg # 0
          /\ fwd_pkg # 0 => fwd_pkg \in 1 .. Len(src)
      BY <1>0, <1>1 DEF Objects
    <2>2. pkg \in Packet \cup {0} /\ fwd_pkg \in Packet \cup {0}
      BY <1>0 DEF EvTypeOK
    <2> QED BY <2>1, <2>2
  <1>3. /\ Event \in Seq(Packet) /\ Event \in Seq(1 .. Len(src))
        /\ Whole(Event) \/ src[pkg] \in cut
        /\ fwd_pkg # 0 /\ Len(words[fwd_pkg]) >= 2 => ~(Len(Event) <= 2)
    BY <1>1, EventFacts
  <1>4. d \in E /\ delivered \in Seq(E)
    <2>1. src[pkg] \in Source
      BY <1>0, <1>2, AnyElement DEF EvTypeOK
    <2> QED BY <1>0, <1>3, <2>1 DEF EvTypeOK
  <1> HIDE DEF d, E
  <1>5. /\ delivered' \in Seq(E) /\ Len(delivered) \in Nat
        /\ Len(delivered') = Len(delivered) + 1
        /\ delivered'[Len(delivered')] = d
        /\ \A i \in 1 .. Len(delivered) : delivered'[i] = delivered[i]
        /\ \A i \in 1 .. Len(delivered') : i \in 1 .. Len(delivered) \/ i = Len(delivered')
    <2>1. /\ Append(delivered, d) \in Seq(E) /\ Len(delivered) \in Nat
          /\ Len(Append(delivered, d)) = Len(delivered) + 1
          /\ Append(delivered, d)[Len(delivered) + 1] = d
          /\ \A i \in 1 .. Len(delivered) : Append(delivered, d)[i] = delivered[i]
      BY ONLY <1>4, AnyAppend
    <2> QED BY <1>1, <2>1
  <1>6. EvTypeOK'
    <2>1. freed' \subseteq Packet
      BY <1>0, <1>1, <1>2 DEF EvTypeOK
    <2>2. delivered' \in Seq([src : Source, words : Seq(Packet)])
      BY <1>5 DEF E
    <2> QED BY <1>0, <1>1, <2>1, <2>2 DEF EvTypeOK
  <1>7. Objects'
    <2>1. freed' \subseteq 1 .. Len(src)
      BY <1>0, <1>1, <1>2 DEF Objects
    <2>2. ASSUME NEW i \in 1 .. Len(delivered')
          PROVE  delivered'[i].words \in Seq(1 .. Len(src))
      <3>1. CASE i \in 1 .. Len(delivered)
        BY <1>0, <1>5, <3>1 DEF Objects
      <3>2. CASE i = Len(delivered')
        BY <1>1, <1>3, <1>5, <3>2
      <3> QED BY <1>5, <3>1, <3>2
    <2>3. \A i \in 1 .. Len(buf) : buf[i] \in 1 .. Len(src) /\ buf[i] # 0
      BY <1>0 DEF Objects
    <2> QED BY <1>0, <1>1, <2>1, <2>2, <2>3 DEF Objects
  <1>8. Owned'
    <2>1. ASSUME Short' PROVE \A i \in 1 .. Len(buf') : buf'[i] \notin freed'
      <3>1. Short
        BY <1>5, <2>1 DEF Short
      <3>2. Len(Event) <= 2
        <4>1. Len(delivered') \in 1 .. Len(delivered')
          BY <1>5
        <4> QED BY <1>1, <1>5, <2>1, <4>1 DEF Short
      <3>3. \A i \in 1 .. Len(buf) : buf[i] \notin freed
        BY <1>0, <1>3, <3>1, <3>2 DEF Owned
      <3>4. \A i \in 1 .. Len(buf) : buf[i] # pkg /\ buf[i] # fwd_pkg
        BY <1>0 DEF Objects
      <3> QED BY <1>1, <3>3, <3>4
    <2> QED BY <2>1 DEF Owned
  <1>9. OneConnection'
    <2>1. \A p : FreshNext(p) <=> Fresh(p)
      BY <1>1 DEF Fresh, FreshNext
    <2>2. \A i \in 1 .. Len(buf) : Fresh(buf[i]) \/ src[buf[i]] \in cut
      BY <1>0 DEF OneConnection
    <2> QED BY <1>1, <2>1, <2>2, NextConnection
  <1>10. EventsWhole'
    <2>1. \A e : WholeNext(e) <=> Whole(e)
      BY <1>1 DEF Whole, WholeNext
    <2>2. ASSUME NEW i \in 1 .. Len(delivered')
          PROVE  WholeNext(delivered'[i].words) \/ delivered'[i].src \in cut'
      <3>1. CASE i \in 1 .. Len(delivered)
        BY <1>0, <1>1, <1>5, <2>1, <3>1 DEF EventsWhole
      <3>2. CASE i = Len(delivered')
        BY <1>1, <1>3, <1>5, <2>1, <3>2
      <3> QED BY <1>5, <3>1, <3>2
    <2> QED BY <2>2, NextEvents
  <1> QED BY <1>6, <1>7, <1>8, <1>9, <1>10 DEF IInv

-----------------------------------------------------------------------------
(* The theorems.                                                           *)

LEMMA Inductive == IInv /\ [EvNext]_evVars => IInv'
  <1>1. ASSUME IInv, EvNext PROVE IInv'
    <2>1. ASSUME NEW s \in Source, HandleCont(s) \/ HandleOther(s) \/ HandleLast(s)
          PROVE  IInv'
      BY <1>1, <2>1, ContStep, OtherStep, LastStep
    <2> QED BY <1>1, <2>1, ReconnectStep, PassStep, TakeFirstStep, TakeNextStep, DeliverStep
        DEF EvNext
  <1>2. ASSUME IInv, UNCHANGED evVars PROVE IInv'
    <2>1. /\ UNCHANGED <<src, words, freed, buf, cursor, pc, pkg, fwd_pkg, delivered>>
          /\ UNCHANGED <<conts, lasts, conn, session, cut>>
      BY <1>2 DEF evVars
    <2>2. EvTypeOK' /\ Objects'
      BY <1>2, <2>1 DEF IInv, EvTypeOK, Objects
    <2>3. Owned'
      BY <1>2, <2>1 DEF IInv, Owned, Short
    <2>4. OneConnection' /\ EventsWhole'
      BY <1>2, <2>1 DEF IInv, OneConnection, EventsWhole, Fresh, Whole
    <2> QED BY <2>2, <2>3, <2>4 DEF IInv
  <1> QED BY <1>1, <1>2

LEMMA Initially == EvInit => IInv
  <1> SUFFICES ASSUME EvInit PROVE IInv
    OBVIOUS
  <1> USE DEF EvInit
  <1>1. Len(src) = 0 /\ Len(buf) = 0 /\ Len(delivered) = 0
    OBVIOUS
  <1>2. EvTypeOK
    <2>1. /\ 0 <= MaxPackets /\ 0 \in 0 .. MaxConts /\ 0 \in 0 .. MaxLasts
          /\ 0 \in 0 .. 0
      BY EventReassemblyAssumption
    <2>2. session \in 1 .. MaxConnections
      BY EventReassemblyAssumption
    <2> QED BY <1>1, <2>1, <2>2 DEF EvTypeOK
  <1>3. Objects /\ Owned
    BY <1>1 DEF Objects, Owned
  <1>4. OneConnection /\ EventsWhole
    BY <1>1 DEF OneConnection, EventsWhole
  <1> QED BY <1>2, <1>3, <1>4 DEF IInv

(* For events of any size and in any mixture of sources: a packet is never *)
(* in the list and freed at once while no walk is under way, unless an     *)
(* event of more than two packets has come; and what is delivered as one   *)
(* event of iothread_handle_in_eventpkg() came on one connection, unless a *)
(* disconnect had cut off an event of its source.                          *)
THEOREM ListOwnsPackets == EvSpec => []BufferOwnsPackets
  <1>1. IInv => BufferOwnsPackets
    <2> SUFFICES ASSUME IInv PROVE BufferOwnsPackets
      OBVIOUS
    <2>1. EvTypeOK /\ Objects /\ Owned /\ EventsWhole
      BY DEF IInv
    <2>2. DOMAIN delivered = 1 .. Len(delivered) /\ DOMAIN buf = 1 .. Len(buf)
      BY <2>1 DEF EvTypeOK
    <2>3. (pc = "idle" /\ \A i \in DOMAIN delivered : Len(delivered[i].words) <= 2) =>
              \A i \in DOMAIN buf : buf[i] \notin freed
      BY <2>1, <2>2 DEF Owned, Short
    <2>4. ASSUME NEW i \in DOMAIN delivered
          PROVE  \/ \A w, v \in Range(delivered[i].words) : conn[w] = conn[v]
                 \/ delivered[i].src \in cut
      <3> DEFINE e == delivered[i].words
      <3>1. e \in Seq(1 .. Len(src)) /\ (Whole(e) \/ delivered[i].src \in cut)
        BY <2>1, <2>2 DEF Objects, EventsWhole
      <3>2. DOMAIN e = 1 .. Len(e)
        BY <3>1
      <3> HIDE DEF e
      <3>3. Whole(e) => \A w, v \in Range(e) : conn[w] = conn[v]
        BY <3>2 DEF Whole, Range
      <3> QED BY <3>1, <3>3 DEF e
    <2> QED BY <2>1, <2>3, <2>4 DEF BufferOwnsPackets
  <1> QED BY <1>1, Initially, Inductive, PTL DEF EvSpec

-----------------------------------------------------------------------------
(* What the walk has passed.                                               *)

(* The list is in the order in which its packets were received.            *)
Increasing == \A i, j \in 1 .. Len(buf) : i < j => buf[i] < buf[j]

OneWord ==
    /\ \A i \in 1 .. Len(buf) : words[buf[i]] = <<buf[i]>>
    /\ pkg # 0 => words[pkg] = <<pkg>>

(* Before the cursor there is nothing left of the source that is walked    *)
(* for.                                                                    *)
Walked ==
    pc = "walk" =>
        \A i \in 1 .. Len(buf) :
            (cursor = 0 \/ i < cursor) /\ src[buf[i]] = src[pkg] => buf[i] \in freed

WalkInv == Increasing /\ OneWord /\ Walked

(* The packets in the list before and after a packet is received.          *)
LEMMA ReceiveList ==
    ASSUME IInv, WalkInv, NEW s \in Source, Receive(s), NEW n, Newest(n)
    PROVE  /\ n \in Nat /\ n # 0 /\ src'[n] = s /\ words'[n] = <<n>> /\ n \in Packet
           /\ pc = "idle" /\ pkg = 0 /\ fwd_pkg = 0 /\ n \notin freed
           /\ \A i \in 1 .. Len(buf) :
                 /\ buf[i] \in 1 .. Len(src) /\ buf[i] \in Nat /\ buf[i] < n /\ buf[i] # n
                 /\ src'[buf[i]] = src[buf[i]] /\ words'[buf[i]] = <<buf[i]>>
  <1>0. EvTypeOK /\ Objects /\ OneWord
    BY DEF IInv, WalkInv
  <1>1. /\ n \notin 1 .. Len(src) /\ n \in 1 .. n /\ Len(src) \in Nat /\ n \in Packet
        /\ \A p \in 1 .. Len(src) : src'[p] = src[p] /\ words'[p] = words[p]
        /\ src'[n] = s /\ words'[n] = <<n>>
    BY <1>0, ReceiveFacts
  <1>2. n = Len(src) + 1
    BY DEF Newest
  <1>3. ASSUME NEW i \in 1 .. Len(buf)
        PROVE  /\ buf[i] \in 1 .. Len(src) /\ buf[i] \in Nat /\ buf[i] < n /\ buf[i] # n
               /\ src'[buf[i]] = src[buf[i]] /\ words'[buf[i]] = <<buf[i]>>
    <2>1. buf[i] \in 1 .. Len(src) /\ words[buf[i]] = <<buf[i]>>
      BY <1>0 DEF Objects, OneWord
    <2>2. buf[i] \in Nat /\ buf[i] < n /\ buf[i] # n
      BY <1>1, <1>2, <2>1
    <2> QED BY <1>1, <2>1, <2>2
  <1>4. pc = "idle" /\ pkg = 0 /\ fwd_pkg = 0 /\ n # 0 /\ n \in Nat /\ n \notin freed
    BY <1>0, <1>1, <1>2 DEF Receive, Objects
  <1> QED BY <1>1, <1>3, <1>4

LEMMA BufferAppended ==
    ASSUME EvTypeOK, NEW n \in Packet, buf' = Append(buf, n)
    PROVE  /\ Len(buf) \in Nat /\ Len(buf') = Len(buf) + 1 /\ buf'[Len(buf')] = n
           /\ \A i \in 1 .. Len(buf) : buf'[i] = buf[i]
           /\ \A i \in 1 .. Len(buf') : i \in 1 .. Len(buf) \/ i = Len(buf')
  <1>1. buf \in Seq(Packet)
    BY DEF EvTypeOK
  <1>2. /\ Len(buf) \in Nat /\ Len(buf') = Len(buf) + 1 /\ buf'[Len(buf) + 1] = n
        /\ \A i \in 1 .. Len(buf) : buf'[i] = buf[i]
    BY <1>1, AnyAppend
  <1> QED BY <1>2

LEMMA WalkReceive ==
    ASSUME IInv, WalkInv, NEW s \in Source, HandleCont(s) \/ HandleOther(s) \/ HandleLast(s)
    PROVE  WalkInv'
  <1> DEFINE n == Len(src) + 1
  <1>0. Receive(s) /\ Newest(n) /\ EvTypeOK
    BY DEF HandleCont, HandleOther, HandleLast, Newest, IInv
  <1>n. n = Len(src) + 1
    OBVIOUS
  <1> HIDE DEF n
  <1>1. /\ n \in Nat /\ n # 0 /\ words'[n] = <<n>> /\ n \in Packet
        /\ pc = "idle" /\ pkg = 0
        /\ \A i \in 1 .. Len(buf) :
              buf[i] \in Nat /\ buf[i] < n /\ words'[buf[i]] = <<buf[i]>>
    BY <1>0, ReceiveList
  <1>2. Increasing
    BY DEF WalkInv
  <1>3. CASE HandleCont(s)
    <2>1. buf' = Append(buf, n) /\ pc' = "idle" /\ pkg' = 0
      BY <1>1, <1>3, <1>n DEF HandleCont
    <2>2. /\ Len(buf) \in Nat /\ Len(buf') = Len(buf) + 1 /\ buf'[Len(buf')] = n
          /\ \A i \in 1 .. Len(buf) : buf'[i] = buf[i]
          /\ \A i \in 1 .. Len(buf') : i \in 1 .. Len(buf) \/ i = Len(buf')
      BY <1>0, <1>1, <2>1, BufferAppended
    <2>3. Increasing'
      <3>1. ASSUME NEW i \in 1 .. Len(buf'), NEW j \in 1 .. Len(buf'), i < j
            PROVE  buf'[i] < buf'[j]
        <4>1. i \in 1 .. Len(buf)
          BY <2>2, <3>1
        <4>2. CASE j \in 1 .. Len(buf)
          BY <1>2, <2>2, <3>1, <4>1, <4>2 DEF Increasing
        <4>3. CASE j = Len(buf')
          BY <1>1, <2>2, <4>1, <4>3
        <4> QED BY <2>2, <4>2, <4>3
      <3> QED BY <3>1 DEF Increasing
    <2>4. OneWord'
      <3>1. ASSUME NEW i \in 1 .. Len(buf') PROVE words'[buf'[i]] = <<buf'[i]>>
        <4>1. CASE i \in 1 .. Len(buf)
          BY <1>1, <2>2, <4>1
        <4>2. CASE i = Len(buf')
          BY <1>1, <2>2, <4>2
        <4> QED BY <2>2, <4>1, <4>2
      <3> QED BY <2>1, <3>1 DEF OneWord
    <2> QED BY <2>1, <2>3, <2>4 DEF WalkInv, Walked
  <1>4. CASE HandleOther(s)
    <2>1. buf' = buf /\ pc' = "idle" /\ pkg' = 0
      BY <1>1, <1>4 DEF HandleOther
    <2> QED BY <1>1, <1>2, <2>1 DEF WalkInv, Increasing, OneWord, Walked
  <1>5. CASE HandleLast(s)
    <2>1. buf' = buf /\ pkg' = n /\ cursor' = FirstOf(buf)
      BY <1>5, <1>n DEF HandleLast
    <2>2. Walked'
      <3>1. ASSUME NEW i \in 1 .. Len(buf) PROVE ~(cursor' = 0 \/ i < cursor')
        BY <2>1 DEF FirstOf
      <3> QED BY <2>1, <3>1 DEF Walked
    <2>3. OneWord'
      BY <1>1, <2>1 DEF OneWord
    <2> QED BY <1>2, <2>1, <2>2, <2>3 DEF WalkInv, Increasing
  <1> QED BY <1>3, <1>4, <1>5

LEMMA WalkPass ==
    ASSUME IInv, WalkInv, Reconnect \/ ReadFreed \/ SkipOther \/ DeliverEvent
    PROVE  WalkInv'
  <1>1. UNCHANGED <<buf, words, src>> /\ pkg' \in {0, pkg}
    BY DEF Reconnect, ReadFreed, SkipOther, DeliverEvent
  <1>2. Increasing' /\ OneWord'
    BY <1>1 DEF WalkInv, Increasing, OneWord
  <1>3. CASE Reconnect \/ ReadFreed \/ DeliverEvent
    <2>1. pc' # "walk"
      BY <1>3 DEF Reconnect, ReadFreed, DeliverEvent
    <2> QED BY <1>2, <2>1 DEF WalkInv, Walked
  <1>4. CASE SkipOther
    <2>1. /\ cursor \in 1 .. Len(buf) /\ Len(buf) \in Nat /\ pc = "walk"
      BY <1>4, EntryFacts DEF SkipOther
    <2>2. /\ cursor' = NextOf(buf, cursor) /\ freed' = freed /\ pkg' = pkg
          /\ src[buf[cursor]] # src[pkg]
      BY <1>4 DEF SkipOther, inbuf
    <2>3. ASSUME NEW i \in 1 .. Len(buf), cursor' = 0 \/ i < cursor',
                 src[buf[i]] = src[pkg]
          PROVE  buf[i] \in freed
      <3>1. i # cursor
        BY <2>2, <2>3
      <3>2. i < cursor
        BY <2>1, <2>2, <2>3, <3>1 DEF NextOf
      <3> QED BY <2>1, <2>3, <3>2 DEF WalkInv, Walked
    <2>4. Walked'
      BY <1>1, <2>2, <2>3 DEF Walked
    <2> QED BY <1>2, <2>4 DEF WalkInv
  <1> QED BY <1>3, <1>4

LEMMA WalkTake ==
    ASSUME IInv, WalkInv, TakeFirst
    PROVE  WalkInv'
  <1>1. /\ pc = "walk" /\ cursor \in 1 .. Len(buf) /\ Len(buf) \in Nat /\ Walking
    BY EntryFacts DEF TakeFirst
  <1>2. /\ buf' = RemoveAt(buf, cursor) /\ cursor' = NextOf(buf', cursor - 1)
        /\ UNCHANGED <<src, words, freed, pc, pkg>>
    BY DEF TakeFirst
  <1>3. /\ Len(buf') = Len(buf) - 1
        /\ \A i \in 1 .. Len(buf') : buf'[i] = buf[Skip(cursor, i)]
    <2>1. /\ Len(RemoveAt(buf, cursor)) = Len(buf) - 1
          /\ \A i \in 1 .. Len(buf) - 1 : RemoveAt(buf, cursor)[i] = buf[Skip(cursor, i)]
      BY <1>1, RemoveFacts DEF IInv, EvTypeOK
    <2> QED BY <1>2, <2>1
  <1>4. \A i \in 1 .. Len(buf') : Skip(cursor, i) \in 1 .. Len(buf)
    BY <1>1, <1>3 DEF Skip
  <1>5. Increasing'
    <2>1. ASSUME NEW i \in 1 .. Len(buf'), NEW j \in 1 .. Len(buf'), i < j
          PROVE  buf'[i] < buf'[j]
      <3>1. Skip(cursor, i) < Skip(cursor, j)
        BY <1>1, <1>3, <2>1 DEF Skip
      <3>2. buf[Skip(cursor, i)] < buf[Skip(cursor, j)]
        BY <1>4, <3>1 DEF WalkInv, Increasing
      <3> QED BY <1>3, <3>2
    <2> QED BY <2>1 DEF Increasing
  <1>6. OneWord'
    BY <1>2, <1>3, <1>4 DEF WalkInv, OneWord
  <1>7. ASSUME NEW i \in 1 .. Len(buf'), cursor' = 0 \/ i < cursor', src[buf'[i]] = src[pkg]
        PROVE  buf'[i] \in freed
    <2>1. i < cursor
      <3>1. Len(buf') \in Nat /\ (buf' = <<>> => Len(buf') = 0)
        BY <1>1, <1>3
      <3> QED BY <1>1, <1>2, <1>3, <1>7, <3>1 DEF NextOf, FirstOf
    <2>2. Skip(cursor, i) = i /\ i \in 1 .. Len(buf)
      BY <1>4, <2>1 DEF Skip
    <2> QED BY <1>1, <1>3, <1>7, <2>1, <2>2 DEF WalkInv, Walked
  <1>8. Walked'
    BY <1>2, <1>7 DEF Walked
  <1> QED BY <1>5, <1>6, <1>8 DEF WalkInv

LEMMA WalkTakeNext ==
    ASSUME IInv, WalkInv, TakeNext
    PROVE  WalkInv'
  <1>1. /\ pc = "walk" /\ cursor \in 1 .. Len(buf) /\ Len(buf) \in Nat
        /\ inbuf \in 1 .. Len(src) /\ inbuf # fwd_pkg /\ inbuf = buf[cursor]
    BY EntryFacts DEF TakeNext, inbuf
  <1>2. /\ words' = [words EXCEPT ![fwd_pkg] = words[fwd_pkg] \o words[inbuf]]
        /\ freed' = freed \cup {buf[cursor]} /\ cursor' = NextOf(buf, cursor)
        /\ fwd_pkg # 0 /\ UNCHANGED <<src, buf, pc, pkg>>
    BY DEF TakeNext, inbuf
  <1>3. Increasing'
    BY <1>2 DEF WalkInv, Increasing
  <1>4. OneWord'
    <2>1. \A p : p # fwd_pkg /\ p \in DOMAIN words => words'[p] = words[p]
      BY <1>2
    <2>2. DOMAIN words = 1 .. Len(src)
      BY DEF IInv, EvTypeOK
    <2>3. /\ pkg # fwd_pkg /\ pkg \in 1 .. Len(src)
          /\ \A i \in 1 .. Len(buf) : buf[i] # fwd_pkg /\ buf[i] \in 1 .. Len(src)
      BY <1>1, <1>2 DEF IInv, Objects
    <2> QED BY <1>2, <2>1, <2>2, <2>3 DEF WalkInv, OneWord
  <1>5. ASSUME NEW i \in 1 .. Len(buf), cursor' = 0 \/ i < cursor', src[buf[i]] = src[pkg]
        PROVE  buf[i] \in freed'
    <2>1. CASE i = cursor
      BY <1>2, <2>1
    <2>2. CASE i # cursor
      <3>1. i < cursor
        BY <1>1, <1>2, <1>5, <2>2 DEF NextOf
      <3> QED BY <1>1, <1>2, <1>5, <3>1 DEF WalkInv, Walked
    <2> QED BY <2>1, <2>2
  <1>6. Walked'
    BY <1>2, <1>5 DEF Walked
  <1> QED BY <1>3, <1>4, <1>6 DEF WalkInv

LEMMA WalkInductive == IInv /\ WalkInv /\ [EvNext]_evVars => WalkInv'
  <1>1. ASSUME IInv, WalkInv, EvNext PROVE WalkInv'
    BY <1>1, WalkReceive, WalkPass, WalkTake, WalkTakeNext DEF EvNext
  <1>2. ASSUME WalkInv, UNCHANGED evVars PROVE WalkInv'
    BY <1>2 DEF evVars, WalkInv, Increasing, OneWord, Walked
  <1> QED BY <1>1, <1>2

LEMMA WalkInitially == EvInit => WalkInv
  <1>1. EvInit => Len(buf) = 0 /\ pkg = 0 /\ pc = "idle"
    BY DEF EvInit
  <1> QED BY <1>1 DEF WalkInv, Increasing, OneWord, Walked

-----------------------------------------------------------------------------
(* Sets of numbers in increasing order.                                    *)

LEMMA AnyAssociative ==
    ASSUME NEW S, NEW a \in Seq(S), NEW b \in Seq(S), NEW c \in Seq(S)
    PROVE  (a \o b) \o c = a \o (b \o c)
  OBVIOUS

LEMMA SortedIsSeq ==
    ASSUME NEW L, IsFiniteSet(L)
    PROVE  \E S : Sorted(L) \in Seq(S) /\ Len(Sorted(L)) = Cardinality(L)
  <1>1. Cardinality(L) \in Nat
    BY FS_CardinalityType
  <1> DEFINE N == Cardinality(L)
             F(i) == Only({p \in L : Rank(L, p) = i})
             T == {F(i) : i \in 1 .. N}
             s == [i \in 1 .. N |-> F(i)]
  <1>2. Sorted(L) = s
    BY DEF Sorted
  <1> HIDE DEF N, F
  <1>3. s \in Seq(T) /\ Len(s) = N
    BY <1>1 DEF N
  <1> QED BY <1>2, <1>3 DEF N

LEMMA SortedElement ==
    ASSUME NEW L, NEW i \in 1 .. Cardinality(L)
    PROVE  Sorted(L)[i] = Only({p \in L : Rank(L, p) = i})
  BY DEF Sorted

LEMMA SortedEmpty == Sorted({}) = <<>>
  <1>1. Cardinality({}) = 0
    BY FS_EmptySet
  <1> QED BY <1>1 DEF Sorted

LEMMA OnlyOne == \A x : Only({x}) = x
  BY DEF Only

LEMMA RankIsSmall ==
    ASSUME NEW L, IsFiniteSet(L), NEW p
    PROVE  Rank(L, p) \in Nat /\ Rank(L, p) <= Cardinality(L) /\ Cardinality(L) \in Nat
  <1>1. {q \in L : q <= p} \in SUBSET L
    OBVIOUS
  <1>2. /\ IsFiniteSet({q \in L : q <= p})
        /\ Cardinality({q \in L : q <= p}) <= Cardinality(L)
    BY <1>1, FS_Subset
  <1> QED BY <1>2, FS_CardinalityType DEF Rank

LEMMA RankIsPositive ==
    ASSUME NEW L, IsFiniteSet(L), L \subseteq Nat, NEW p \in L
    PROVE  Rank(L, p) >= 1
  <1> DEFINE K == {q \in L : q <= p}
  <1>1. K \in SUBSET L /\ p \in K
    OBVIOUS
  <1> HIDE DEF K
  <1>2. IsFiniteSet(K) /\ K # {}
    BY <1>1, FS_Subset
  <1>3. Cardinality(K) \in Nat /\ Cardinality(K) # 0
    BY <1>2, FS_EmptySet, FS_CardinalityType
  <1> QED BY <1>3 DEF Rank, K

(* A number above all others comes last.                                   *)
LEMMA SortedAbove ==
    ASSUME NEW L, IsFiniteSet(L), L \subseteq Nat, NEW n \in Nat, \A q \in L : q < n
    PROVE  Sorted(L \cup {n}) = Append(Sorted(L), n)
  <1> DEFINE M == L \cup {n}
             N == Cardinality(L)
  <1>1. IsFiniteSet(M) /\ Cardinality(M) = N + 1 /\ N \in Nat
    <2>1. n \notin L
      OBVIOUS
    <2> QED BY <2>1, FS_AddElement, FS_CardinalityType
  <1>2. ASSUME NEW p \in L PROVE Rank(M, p) = Rank(L, p)
    <2>1. {q \in M : q <= p} = {q \in L : q <= p}
      OBVIOUS
    <2> QED BY <2>1 DEF Rank
  <1>3. Rank(M, n) = N + 1
    <2>0. \A q \in M : q <= n
      OBVIOUS
    <2>1. {q \in M : q <= n} = M
      BY <2>0
    <2> QED BY <1>1, <2>1 DEF Rank
  <1>4. \A p \in L : Rank(L, p) \in Nat /\ Rank(L, p) <= N
    BY RankIsSmall
  <1>m. M = L \cup {n}
    OBVIOUS
  <1> HIDE DEF M, N
  <1>5. ASSUME NEW i \in 1 .. N
        PROVE  {p \in M : Rank(M, p) = i} = {p \in L : Rank(L, p) = i}
    <2>1. i # N + 1
      BY <1>1
    <2> QED BY <1>m, <1>2, <1>3, <2>1
  <1>6. {p \in M : Rank(M, p) = N + 1} = {n}
    <2>1. \A p \in L : Rank(M, p) # N + 1
      BY <1>1, <1>2, <1>4
    <2> QED BY <1>m, <1>3, <2>1
  <1>7. ASSUME NEW i \in 1 .. N PROVE Sorted(M)[i] = Sorted(L)[i]
    <2>1. i \in 1 .. Cardinality(M)
      BY <1>1
    <2>2. i \in 1 .. Cardinality(L)
      BY DEF N
    <2> QED BY <1>5, <2>1, <2>2, SortedElement, ZenonT(60)
  <1>8. Sorted(M)[N + 1] = n
    <2>1. N + 1 \in 1 .. Cardinality(M)
      BY <1>1
    <2>2. Sorted(M)[N + 1] = Only({p \in M : Rank(M, p) = N + 1})
      BY <2>1, SortedElement
    <2> QED BY <1>6, <2>2, OnlyOne
  <1>9. PICK S : Sorted(M) \in Seq(S) /\ Len(Sorted(M)) = N + 1
    BY <1>1, SortedIsSeq
  <1>10. PICK T : Sorted(L) \in Seq(T) /\ Len(Sorted(L)) = N
    BY SortedIsSeq DEF N
  <1> DEFINE a == Sorted(M)
             b == Sorted(L)
  <1> HIDE DEF a, b
  <1>11. /\ a \in Seq(S) /\ Len(a) = N + 1 /\ b \in Seq(T) /\ Len(b) = N
         /\ \A i \in 1 .. N : a[i] = b[i] 
         /\ a[N + 1] = n
    BY <1>7, <1>8, <1>9, <1>10 DEF a, b
  <1>12. a = Append(b, n)
    BY <1>1, <1>11
  <1> QED BY <1>12 DEF a, b, M

(* The smallest number comes first.                                        *)
LEMMA SortedLeast ==
    ASSUME NEW L, IsFiniteSet(L), L \subseteq Nat, NEW m \in L, \A q \in L : m <= q
    PROVE  Sorted(L) = <<m>> \o Sorted(L \ {m})
  <1> DEFINE K == L \ {m}
             N == Cardinality(K)
  <1>1. IsFiniteSet(K) /\ Cardinality(L) = N + 1 /\ N \in Nat
    <2>1. IsFiniteSet(K) /\ N = Cardinality(L) - 1
      BY FS_RemoveElement
    <2>2. Cardinality(L) \in Nat /\ N \in Nat
      BY <2>1, FS_CardinalityType
    <2> QED BY <2>1, <2>2
  <1>2. ASSUME NEW p \in K PROVE Rank(L, p) = Rank(K, p) + 1
    <2> DEFINE R == {q \in K : q <= p}
    <2>1. {q \in L : q <= p} = R \cup {m}
      OBVIOUS
    <2>2. R \in SUBSET K /\ m \notin R
      OBVIOUS
    <2> HIDE DEF R
    <2>3. IsFiniteSet(R)
      BY <1>1, <2>2, FS_Subset
    <2>4. Cardinality(R \cup {m}) = Cardinality(R) + 1
      BY <2>2, <2>3, FS_AddElement
    <2> QED BY <2>1, <2>4 DEF Rank, R
  <1>3. Rank(L, m) = 1
    <2>0. \A q \in L : q <= m <=> q = m
      OBVIOUS
    <2>1. {q \in L : q <= m} = {m}
      BY <2>0
    <2> QED BY <2>1, FS_Singleton DEF Rank
  <1>4. \A p \in K : Rank(K, p) >= 1 /\ Rank(K, p) \in Nat
    BY <1>1, RankIsPositive, RankIsSmall
  <1>m. L = K \cup {m}
    OBVIOUS
  <1> HIDE DEF K, N
  <1>5. ASSUME NEW i \in 1 .. N
        PROVE  {p \in L : Rank(L, p) = i + 1} = {p \in K : Rank(K, p) = i}
    <2>1. Rank(L, m) # i + 1
      BY <1>1, <1>3
    <2>2. \A p \in K : Rank(L, p) = i + 1 <=> Rank(K, p) = i
      BY <1>1, <1>2, <1>4
    <2> QED BY <1>m, <2>1, <2>2
  <1>6. {p \in L : Rank(L, p) = 1} = {m}
    <2>1. \A p \in K : Rank(L, p) # 1
      BY <1>2, <1>4
    <2> QED BY <1>m, <1>3, <2>1
  <1>7. ASSUME NEW i \in 1 .. N PROVE Sorted(L)[i + 1] = Sorted(K)[i]
    <2>1. i + 1 \in 1 .. Cardinality(L)
      BY <1>1
    <2>2. i \in 1 .. Cardinality(K)
      BY DEF N
    <2> QED BY <1>5, <2>1, <2>2, SortedElement, ZenonT(60)
  <1>8. Sorted(L)[1] = m
    <2>1. 1 \in 1 .. Cardinality(L)
      BY <1>1
    <2>2. Sorted(L)[1] = Only({p \in L : Rank(L, p) = 1})
      BY <2>1, SortedElement
    <2> QED BY <1>6, <2>2, OnlyOne
  <1>9. PICK S : Sorted(L) \in Seq(S) /\ Len(Sorted(L)) = N + 1
    BY <1>1, SortedIsSeq
  <1>10. PICK T : Sorted(K) \in Seq(T) /\ Len(Sorted(K)) = N
    BY <1>1, SortedIsSeq DEF N
  <1> DEFINE a == Sorted(L)
             b == Sorted(K)
             c == <<m>> \o b
  <1> HIDE DEF a, b
  <1>11. /\ a \in Seq(S) /\ Len(a) = N + 1 /\ b \in Seq(T) /\ Len(b) = N
         /\ \A i \in 1 .. N : a[i + 1] = b[i]
         /\ a[1] = m
    BY <1>7, <1>8, <1>9, <1>10 DEF a, b
  <1>12. /\ c \in Seq(T \cup {m}) /\ Len(c) = N + 1 /\ c[1] = m
         /\ \A i \in 1 .. N : c[i + 1] = b[i]
    BY <1>1, <1>11
  <1> HIDE DEF c
  <1>13. a = c
    <2>1. ASSUME NEW i \in 1 .. N + 1 PROVE a[i] = c[i]
      <3>1. CASE i = 1
        BY <1>11, <1>12, <3>1
      <3>2. CASE i # 1
        <4>1. i - 1 \in 1 .. N /\ (i - 1) + 1 = i
          BY <1>1, <3>2
        <4> QED BY <1>11, <1>12, <4>1
      <3> QED BY <3>1, <3>2
    <2> QED BY <1>11, <1>12, <2>1
  <1> QED BY <1>13 DEF a, b, c, K

-----------------------------------------------------------------------------
(* The list as a set of packets.                                           *)

LiveNext(s) == {p \in Range(buf') : src'[p] = s /\ p \notin freed'}
PendingNext(s) ==
    IF fwd_pkg' # 0 /\ src'[fwd_pkg'] = s THEN words'[fwd_pkg'] \o Sorted(LiveNext(s))
                                          ELSE Sorted(LiveNext(s))

(* p is in list b.                                                         *)
Listed(b, p) == \E i \in 1 .. Len(b) : b[i] = p

LEMMA RangeOfList ==
    ASSUME NEW S, NEW b \in Seq(S)
    PROVE  \A p : p \in Range(b) <=> Listed(b, p)
  <1>1. DOMAIN b = 1 .. Len(b)
    OBVIOUS
  <1> QED BY <1>1 DEF Range, Listed

LEMMA LiveMember ==
    ASSUME IInv
    PROVE  \A s, p : p \in Live(s) <=> Listed(buf, p) /\ src[p] = s /\ p \notin freed
  <1>1. buf \in Seq(Packet)
    BY DEF IInv, EvTypeOK
  <1>2. \A p : p \in Range(buf) <=> Listed(buf, p)
    BY <1>1, RangeOfList
  <1> QED BY <1>2 DEF Live

LEMMA LiveNextMember ==
    ASSUME IInv'
    PROVE  \A s, p : p \in LiveNext(s) <=> Listed(buf', p) /\ src'[p] = s /\ p \notin freed'
  <1>1. buf' \in Seq(Packet)
    BY DEF IInv, EvTypeOK
  <1>2. \A p : p \in Range(buf') <=> Listed(buf', p)
    BY <1>1, RangeOfList
  <1> QED BY <1>2 DEF LiveNext

LEMMA LiveIsFinite ==
    ASSUME IInv, NEW s
    PROVE  IsFiniteSet(Live(s)) /\ Live(s) \subseteq Nat /\ Live(s) \subseteq 1 .. Len(src)
  <1>1. ASSUME NEW p \in Live(s) PROVE p \in 1 .. Len(src)
    <2>1. PICK i \in 1 .. Len(buf) : buf[i] = p
      BY LiveMember DEF Listed
    <2> QED BY <2>1 DEF IInv, Objects
  <1>2. Len(src) \in Nat
    BY DEF IInv, EvTypeOK
  <1>3. IsFiniteSet(1 .. Len(src)) /\ 1 .. Len(src) \subseteq Nat
    BY <1>2, FS_Interval
  <1> QED BY <1>1, <1>3, FS_Subset

(* What has been put together and a set of packets, put together.          *)
LEMMA SameLive ==
    ASSUME NEW s, LiveNext(s) = Live(s), fwd_pkg' = fwd_pkg,
           fwd_pkg # 0 => src'[fwd_pkg] = src[fwd_pkg] /\ words'[fwd_pkg] = words[fwd_pkg]
    PROVE  PendingNext(s) = WordsPending(s)
  BY DEF PendingNext, WordsPending

(* Packet n of source s is put into the list.                              *)
LEMMA PendingCont ==
    ASSUME IInv, WalkInv, NEW s \in Source, HandleCont(s), NEW n, Newest(n)
    PROVE  /\ n \in Packet /\ delivered' = delivered
           /\ PendingNext(s) = Append(WordsPending(s), n)
           /\ \A t \in Source : t # s => PendingNext(t) = WordsPending(t)
  <1>1. /\ Receive(s) /\ buf' = Append(buf, n) /\ freed' = freed
        /\ fwd_pkg' = fwd_pkg /\ delivered' = delivered
    BY DEF HandleCont, Newest
  <1>2. /\ n \in Nat /\ src'[n] = s /\ n \in Packet /\ fwd_pkg = 0 /\ n \notin freed
        /\ \A i \in 1 .. Len(buf) :
              buf[i] \in Nat /\ buf[i] < n /\ buf[i] # n /\ src'[buf[i]] = src[buf[i]]
    BY <1>1, ReceiveList
  <1>3. IInv'
    BY ContStep
  <1>4. \A p : Listed(buf', p) <=> Listed(buf, p) \/ p = n
    <2>1. EvTypeOK
      BY DEF IInv
    <2>2. /\ Len(buf) \in Nat /\ Len(buf') = Len(buf) + 1 /\ buf'[Len(buf')] = n
          /\ \A i \in 1 .. Len(buf) : buf'[i] = buf[i]
          /\ \A i \in 1 .. Len(buf') : i \in 1 .. Len(buf) \/ i = Len(buf')
      BY <1>1, <1>2, <2>1, BufferAppended
    <2>3. Len(buf') \in 1 .. Len(buf') /\ 1 .. Len(buf) \subseteq 1 .. Len(buf')
      BY <2>2
    <2> QED BY <2>2, <2>3 DEF Listed
  <1>5. \A p : Listed(buf, p) => p # n /\ p \in Nat /\ p < n /\ src'[p] = src[p]
    BY <1>2 DEF Listed
  <1>6. LiveNext(s) = Live(s) \cup {n}
    BY <1>1, <1>2, <1>3, <1>4, <1>5, LiveMember, LiveNextMember
  <1>7. ASSUME NEW t, t # s PROVE LiveNext(t) = Live(t)
    <2>1. ASSUME NEW p PROVE p \in LiveNext(t) <=> p \in Live(t)
      <3>1. p \in LiveNext(t) <=> Listed(buf', p) /\ src'[p] = t /\ p \notin freed
        BY <1>1, <1>3, LiveNextMember
      <3>2. p \in Live(t) <=> Listed(buf, p) /\ src[p] = t /\ p \notin freed
        BY LiveMember
      <3>3. ~(p = n /\ src'[p] = t)
        BY <1>2, <1>7
      <3> QED BY <1>4, <1>5, <3>1, <3>2, <3>3
    <2>2. \A p : p \in LiveNext(t) <=> p \in Live(t)
      BY <2>1
    <2> QED BY ONLY <2>2 DEF Live, LiveNext
  <1>8. Sorted(Live(s) \cup {n}) = Append(Sorted(Live(s)), n)
    <2>1. \A q \in Live(s) : q < n
      BY <1>5, LiveMember
    <2> QED BY <1>2, <2>1, LiveIsFinite, SortedAbove
  <1>9. PendingNext(s) = Append(WordsPending(s), n)
    BY <1>1, <1>2, <1>6, <1>8 DEF PendingNext, WordsPending
  <1>10. \A t : t # s => PendingNext(t) = WordsPending(t)
    BY <1>1, <1>2, <1>7, SameLive
  <1> QED BY <1>1, <1>2, <1>9, <1>10

(* A packet comes that does not go into the list.                          *)
LEMMA PendingReceive ==
    ASSUME IInv, WalkInv, NEW s \in Source, HandleOther(s) \/ HandleLast(s),
           NEW n, Newest(n)
    PROVE  n \in Packet /\ \A t \in Source : PendingNext(t) = WordsPending(t)
  <1>1. /\ Receive(s) /\ buf' = buf /\ fwd_pkg' \in {0, fwd_pkg}
        /\ freed' \in {freed, freed \cup {n}}
    BY DEF HandleOther, HandleLast, Newest
  <1>2. /\ n \in Packet /\ fwd_pkg = 0
        /\ \A i \in 1 .. Len(buf) : buf[i] # n /\ src'[buf[i]] = src[buf[i]]
    BY <1>1, ReceiveList
  <1>3. IInv'
    BY OtherStep, LastStep
  <1>4. \A p : Listed(buf, p) => p # n /\ src'[p] = src[p]
    BY <1>2 DEF Listed
  <1>5. \A t : LiveNext(t) = Live(t)
    BY <1>1, <1>3, <1>4, LiveMember, LiveNextMember
  <1> QED BY <1>1, <1>2, <1>5, SameLive

(* The entry under the cursor is the oldest of its source that is live.    *)
LEMMA EntryIsFirst ==
    ASSUME IInv, WalkInv, Walking, inbuf \notin freed, src[inbuf] = src[pkg]
    PROVE  /\ inbuf \in Live(src[pkg]) /\ \A q \in Live(src[pkg]) : inbuf <= q
           /\ words[inbuf] = <<inbuf>>
           /\ \A t : t # src[pkg] => inbuf \notin Live(t)
  <1>1. pc = "walk" /\ cursor \in 1 .. Len(buf) /\ cursor # 0 /\ inbuf = buf[cursor]
    BY EntryFacts DEF Walking, inbuf
  <1>2. inbuf \in Live(src[pkg])
    BY <1>1, LiveMember DEF Listed
  <1>3. ASSUME NEW q \in Live(src[pkg]) PROVE inbuf <= q
    <2>1. PICK i \in 1 .. Len(buf) : buf[i] = q /\ src[q] = src[pkg] /\ q \notin freed
      BY LiveMember DEF Listed
    <2>2. ~(i < cursor)
      BY <1>1, <2>1 DEF WalkInv, Walked
    <2>3. i = cursor \/ cursor < i
      BY <1>1, <2>2 DEF IInv, EvTypeOK
    <2>4. inbuf \in Nat /\ q \in Nat
      BY <1>2, LiveIsFinite
    <2>5. CASE cursor < i
      BY <1>1, <2>1, <2>4, <2>5 DEF WalkInv, Increasing
    <2> QED BY <1>1, <2>1, <2>3, <2>4, <2>5
  <1>4. words[inbuf] = <<inbuf>>
    BY <1>1 DEF WalkInv, OneWord
  <1>5. \A t : t # src[pkg] => inbuf \notin Live(t)
    BY LiveMember
  <1> QED BY <1>2, <1>3, <1>4, <1>5

(* It is taken out of the list, or freed.                                  *)
LEMMA LiveTaken ==
    ASSUME IInv, WalkInv, TakeFirst \/ TakeNext
    PROVE  \A t : LiveNext(t) = Live(t) \ {inbuf}
  <1>1. IInv'
    BY TakeFirstStep, TakeNextStep
  <1>2. /\ src' = src /\ Walking /\ inbuf = buf[cursor] /\ inbuf \notin freed
    BY DEF TakeFirst, TakeNext, inbuf
  <1>3. cursor \in 1 .. Len(buf) /\ Len(buf) \in Nat
    BY <1>2, EntryFacts
  <1>4. ASSUME NEW p
        PROVE  Listed(buf', p) /\ p \notin freed' <=>
                   Listed(buf, p) /\ p \notin freed /\ p # inbuf
    <2>1. CASE TakeFirst
      <3>1. buf' = RemoveAt(buf, cursor) /\ freed' = freed
        BY <2>1 DEF TakeFirst
      <3>2. /\ Len(RemoveAt(buf, cursor)) = Len(buf) - 1
            /\ \A i \in 1 .. Len(buf) - 1 : RemoveAt(buf, cursor)[i] = buf[Skip(cursor, i)]
        BY <1>3, RemoveFacts DEF IInv, EvTypeOK
      <3>3. \A i, j \in 1 .. Len(buf) : buf[i] = buf[j] => i = j
        BY DEF IInv, Objects
      <3>4. ASSUME Listed(buf', p) PROVE Listed(buf, p) /\ p # inbuf
        <4>1. PICK i \in 1 .. Len(buf) - 1 : p = buf[Skip(cursor, i)]
          BY <3>1, <3>2, <3>4 DEF Listed
        <4>2. Skip(cursor, i) \in 1 .. Len(buf) /\ Skip(cursor, i) # cursor
          BY <1>3 DEF Skip
        <4> QED BY <1>2, <1>3, <3>3, <4>1, <4>2 DEF Listed
      <3>5. ASSUME Listed(buf, p), p # inbuf PROVE Listed(buf', p)
        <4>1. PICK j \in 1 .. Len(buf) : p = buf[j]
          BY <3>5 DEF Listed
        <4>2. j # cursor
          BY <1>2, <3>5, <4>1
        <4> DEFINE i == IF j < cursor THEN j ELSE j - 1
        <4>3. i \in 1 .. Len(buf) - 1 /\ Skip(cursor, i) = j
          BY <1>3, <4>2 DEF Skip
        <4> HIDE DEF i
        <4>4. buf'[i] = p /\ i \in 1 .. Len(buf')
          BY <3>1, <3>2, <4>1, <4>3
        <4> QED BY <4>4 DEF Listed
      <3> QED BY <3>1, <3>4, <3>5
    <2>2. CASE TakeNext
      BY <2>2 DEF TakeNext
    <2> QED BY <2>1, <2>2
  <1>5. ASSUME NEW t, NEW p PROVE p \in LiveNext(t) <=> p \in Live(t) \ {inbuf}
    <2>1. p \in LiveNext(t) <=> Listed(buf', p) /\ src[p] = t /\ p \notin freed'
      BY <1>1, <1>2, LiveNextMember
    <2>2. p \in Live(t) <=> Listed(buf, p) /\ src[p] = t /\ p \notin freed
      BY LiveMember
    <2> QED BY <1>4, <2>1, <2>2
  <1>6. \A t, p : p \in LiveNext(t) <=> p \in Live(t) \ {inbuf}
    BY <1>5
  <1> QED BY ONLY <1>6 DEF Live, LiveNext

(* The words move from the list into the event.                            *)
LEMMA PendingTake ==
    ASSUME IInv, WalkInv, TakeFirst \/ TakeNext
    PROVE  \A t : PendingNext(t) = WordsPending(t)
  <1> DEFINE s == src[pkg]
             L == Live(s)
             K == L \ {inbuf}
  <1>1. Walking /\ inbuf \notin freed /\ src[inbuf] = s /\ src' = src
    BY DEF TakeFirst, TakeNext
  <1>2. /\ inbuf \in L /\ \A q \in L : inbuf <= q
        /\ words[inbuf] = <<inbuf>>
        /\ \A t : t # s => inbuf \notin Live(t)
    BY <1>1, EntryIsFirst
  <1>3. \A t : LiveNext(t) = Live(t) \ {inbuf}
    BY LiveTaken
  <1>4. /\ Sorted(L) = <<inbuf>> \o Sorted(K)
    BY <1>2, LiveIsFinite, SortedLeast
  <1>5. \A t : t # s => LiveNext(t) = Live(t)
    BY <1>2, <1>3
  <1>6. LiveNext(s) = K
    BY <1>3
  <1> HIDE DEF s, L, K
  <1>7. CASE TakeFirst
    <2>1. /\ fwd_pkg = 0 /\ fwd_pkg' = inbuf /\ words' = words /\ src[inbuf] = s /\ inbuf # 0
      <3>1. inbuf \in Packet
        BY <1>1, EntryFacts
      <3> QED BY <1>1, <1>7, <3>1 DEF TakeFirst, Packet
    <2>2. PendingNext(s) = WordsPending(s)
      BY <1>1, <1>2, <1>4, <1>6, <2>1 DEF PendingNext, WordsPending, L
    <2>3. \A t : t # s => PendingNext(t) = WordsPending(t)
      BY <1>1, <1>5, <2>1 DEF PendingNext, WordsPending
    <2> QED BY <2>2, <2>3
  <1>8. CASE TakeNext
    <2>1. /\ fwd_pkg # 0 /\ fwd_pkg' = fwd_pkg
          /\ words' = [words EXCEPT ![fwd_pkg] = words[fwd_pkg] \o words[inbuf]]
      BY <1>8 DEF TakeNext
    <2>2. /\ fwd_pkg \in 1 .. Len(src) /\ src[fwd_pkg] = s
          /\ words[fwd_pkg] \in Seq(1 .. Len(src))
      BY <2>1 DEF IInv, Objects, s
    <2>3. fwd_pkg \in DOMAIN words
      BY <2>2 DEF IInv, EvTypeOK
    <2>4. words'[fwd_pkg] = words[fwd_pkg] \o <<inbuf>>
      BY <1>2, <2>1, <2>3
    <2>5. IsFiniteSet(K)
      <3>1. IsFiniteSet(L)
        BY LiveIsFinite DEF L
      <3> QED BY <3>1, FS_RemoveElement DEF K
    <2>6. (words[fwd_pkg] \o <<inbuf>>) \o Sorted(K) = words[fwd_pkg] \o (<<inbuf>> \o Sorted(K))
      <3>1. PICK S : Sorted(K) \in Seq(S)
        BY <2>5, SortedIsSeq
      <3> DEFINE a == words[fwd_pkg]
                 b == <<inbuf>>
                 c == Sorted(K)
                 T == (1 .. Len(src)) \cup {inbuf} \cup S
      <3>2. a \in Seq(T) /\ b \in Seq(T) /\ c \in Seq(T)
        <4>1. 1 .. Len(src) \subseteq T /\ S \subseteq T /\ inbuf \in T
          OBVIOUS
        <4>2. a \in Seq(1 .. Len(src)) /\ c \in Seq(S)
          BY <2>2, <3>1
        <4>3. b \in Seq(T)
          BY <4>1
        <4> HIDE DEF T
        <4> QED BY <4>1, <4>2, <4>3, AnyWider
      <3> HIDE DEF a, b, c, T
      <3>3. (a \o b) \o c = a \o (b \o c)
        BY ONLY <3>2, AnyAssociative
      <3> QED BY <3>3 DEF a, b, c
    <2>7. PendingNext(s) = WordsPending(s)
      BY <1>1, <1>4, <1>6, <2>1, <2>2, <2>4, <2>6 DEF PendingNext, WordsPending, L
    <2>8. \A t : t # s => PendingNext(t) = WordsPending(t)
      BY <1>1, <1>5, <2>1, <2>2 DEF PendingNext, WordsPending
    <2> QED BY <2>7, <2>8
  <1> QED BY <1>7, <1>8

(* The last packet is appended to what was put together.                   *)
LEMMA PendingDeliver ==
    ASSUME IInv, WalkInv, DeliverEvent
    PROVE  /\ pkg \in Packet /\ src[pkg] \in Source
           /\ delivered' = Append(delivered,
                  [src |-> src[pkg], words |-> Append(WordsPending(src[pkg]), pkg)])
           /\ PendingNext(src[pkg]) = <<>>
           /\ \A t : t # src[pkg] => PendingNext(t) = WordsPending(t)
  <1> DEFINE s == src[pkg]
  <1>1. /\ pc = "walk" /\ cursor = 0 /\ fwd_pkg' = 0 /\ buf' = buf /\ src' = src
        /\ freed' = freed \cup ({pkg, fwd_pkg} \ {0})
        /\ delivered' = Append(delivered, [src |-> s, words |-> Event])
    BY DEF DeliverEvent, Event
  <1>2. pkg \in 1 .. Len(src) /\ pkg # 0 /\ pkg \in Packet
    BY <1>1, SMTT(40) DEF IInv, Objects, EvTypeOK
  <1>3. s \in Source
    BY <1>2, AnyElement DEF IInv, EvTypeOK
  <1>4. words[pkg] = <<pkg>>
    BY <1>2 DEF WalkInv, OneWord
  <1>5. Live(s) = {}
    <2>1. ASSUME NEW p \in Live(s) PROVE FALSE
      <3>1. PICK i \in 1 .. Len(buf) : buf[i] = p /\ src[p] = s /\ p \notin freed
        BY LiveMember DEF Listed
      <3> QED BY <1>1, <3>1 DEF WalkInv, Walked
    <2> QED BY <2>1
  <1>6. IInv'
    BY DeliverStep
  <1>7. ASSUME NEW t PROVE LiveNext(t) = Live(t)
    <2>1. \A p : Listed(buf, p) => p # pkg /\ p # fwd_pkg
      BY DEF Listed, IInv, Objects
    <2>2. ASSUME NEW p PROVE p \in LiveNext(t) <=> p \in Live(t)
      <3>1. p \in LiveNext(t) <=> Listed(buf, p) /\ src[p] = t /\ p \notin freed'
        BY <1>1, <1>6, LiveNextMember
      <3>2. p \in Live(t) <=> Listed(buf, p) /\ src[p] = t /\ p \notin freed
        BY LiveMember
      <3> QED BY <1>1, <2>1, <3>1, <3>2
    <2>3. \A p : p \in LiveNext(t) <=> p \in Live(t)
      BY <2>2
    <2> QED BY ONLY <2>3 DEF Live, LiveNext
  <1>8. \A t : PendingNext(t) = Sorted(Live(t))
    BY <1>1, <1>7 DEF PendingNext
  <1>9. PendingNext(s) = <<>>
    BY <1>5, <1>8, SortedEmpty
  <1>10. \A t : t # s => PendingNext(t) = WordsPending(t)
    <2>1. fwd_pkg # 0 => src[fwd_pkg] = s
      BY DEF IInv, Objects
    <2> QED BY <1>8, <2>1 DEF WordsPending
  <1>11. Event = Append(WordsPending(s), pkg)
    <2>1. CASE fwd_pkg = 0
      <3>1. Event = <<pkg>> /\ WordsPending(s) = <<>>
        BY <1>4, <1>5, <2>1, SortedEmpty DEF Event, WordsPending
      <3> QED BY <3>1
    <2>2. CASE fwd_pkg # 0
      <3>1. src[fwd_pkg] = s /\ words[fwd_pkg] \in Seq(1 .. Len(src))
        BY <2>2 DEF IInv, Objects
      <3> DEFINE w == words[fwd_pkg]
                 P == 1 .. Len(src)
      <3>2. Event = w \o <<pkg>> /\ WordsPending(s) = w \o <<>>
        BY <1>4, <1>5, <2>2, <3>1, SortedEmpty DEF Event, WordsPending
      <3>3. w \in Seq(P) /\ pkg \in P
        BY <1>2, <3>1
      <3> HIDE DEF w, P
      <3>4. w \o <<pkg>> = Append(w, pkg) /\ w \o <<>> = w
        BY ONLY <3>3
      <3> QED BY <3>2, <3>4
    <2> QED BY <2>1, <2>2
  <1> QED BY <1>1, <1>2, <1>3, <1>9, <1>10, <1>11

-----------------------------------------------------------------------------
(* The refinement.                                                         *)

pendingOf == [s \in Source |-> WordsPending(s)]

LEMMA PendingOfNext == pendingOf' = [s \in Source |-> PendingNext(s)]
  BY DEF pendingOf, WordsPending, PendingNext, Live, LiveNext

LEMMA NothingMoves ==
    ASSUME \A t \in Source : PendingNext(t) = WordsPending(t)
    PROVE  pendingOf' = pendingOf
  BY PendingOfNext DEF pendingOf

LEMMA OneMoves ==
    ASSUME NEW s \in Source, NEW w, PendingNext(s) = w,
           \A t \in Source : t # s => PendingNext(t) = WordsPending(t)
    PROVE  pendingOf' = [pendingOf EXCEPT ![s] = w]
  BY PendingOfNext DEF pendingOf

(* A step of the list walk is a step of the abstract stream or none.       *)
AbstractStep ==
    \/ \E s \in Source, w \in Packet :
          \/ /\ pendingOf' = [pendingOf EXCEPT ![s] = Append(@, w)]
             /\ delivered' = delivered
          \/ /\ delivered' = Append(delivered,
                                    [src |-> s, words |-> Append(pendingOf[s], w)])
             /\ pendingOf' = [pendingOf EXCEPT ![s] = <<>>]
          \/ /\ delivered' = Append(delivered, [src |-> s, words |-> <<w>>])
             /\ pendingOf' = pendingOf
    \/ pendingOf' = pendingOf /\ delivered' = delivered

LEMMA StepIsAbstract ==
    ASSUME IInv, WalkInv, EvNext
    PROVE  AbstractStep
  <1> DEFINE n == Len(src) + 1
  <1>n. Newest(n) /\ n = Len(src) + 1
    BY DEF Newest
  <1> HIDE DEF n
  <1>1. ASSUME NEW s \in Source, HandleCont(s) PROVE AbstractStep
    <2>1. /\ n \in Packet /\ delivered' = delivered
          /\ PendingNext(s) = Append(WordsPending(s), n)
          /\ \A t \in Source : t # s => PendingNext(t) = WordsPending(t)
      BY <1>1, <1>n, PendingCont
    <2>2. pendingOf' = [pendingOf EXCEPT ![s] = Append(WordsPending(s), n)]
      BY <2>1, OneMoves
    <2>3. pendingOf' = [pendingOf EXCEPT ![s] = Append(@, n)]
      BY <2>2 DEF pendingOf
    <2> QED BY <2>1, <2>3 DEF AbstractStep
  <1>2. ASSUME NEW s \in Source, HandleOther(s) PROVE AbstractStep
    <2>1. n \in Packet /\ \A t \in Source : PendingNext(t) = WordsPending(t)
      BY <1>2, <1>n, PendingReceive
    <2>2. delivered' = Append(delivered, [src |-> s, words |-> <<n>>])
      BY <1>2, <1>n DEF HandleOther
    <2> QED BY <2>1, <2>2, NothingMoves DEF AbstractStep
  <1>3. ASSUME NEW s \in Source, HandleLast(s) PROVE AbstractStep
    <2>1. \A t \in Source : PendingNext(t) = WordsPending(t)
      BY <1>3, <1>n, PendingReceive
    <2>2. delivered' = delivered
      BY <1>3 DEF HandleLast
    <2> QED BY <2>1, <2>2, NothingMoves DEF AbstractStep
  <1>4. CASE Reconnect \/ ReadFreed \/ SkipOther
    <2>1. UNCHANGED <<src, words, freed, buf, fwd_pkg, delivered>>
      BY <1>4 DEF Reconnect, ReadFreed, SkipOther
    <2>2. \A t : LiveNext(t) = Live(t)
      BY <2>1 DEF LiveNext, Live
    <2>3. \A t \in Source : PendingNext(t) = WordsPending(t)
      BY <2>1, <2>2, SameLive
    <2> QED BY <2>1, <2>3, NothingMoves DEF AbstractStep
  <1>5. CASE TakeFirst \/ TakeNext
    <2>1. delivered' = delivered
      BY <1>5 DEF TakeFirst, TakeNext
    <2> QED BY <1>5, <2>1, PendingTake, NothingMoves DEF AbstractStep
  <1>6. CASE DeliverEvent
    <2> DEFINE s == src[pkg]
    <2>1. /\ pkg \in Packet /\ s \in Source
          /\ delivered' = Append(delivered,
                              [src |-> s, words |-> Append(WordsPending(s), pkg)])
          /\ PendingNext(s) = <<>>
          /\ \A t : t # s => PendingNext(t) = WordsPending(t)
      BY <1>6, PendingDeliver
    <2> HIDE DEF s
    <2>2. pendingOf' = [pendingOf EXCEPT ![s] = <<>>]
      BY <2>1, OneMoves
    <2>3. pendingOf[s] = WordsPending(s)
      BY <2>1 DEF pendingOf
    <2> QED BY <2>1, <2>2, <2>3 DEF AbstractStep
  <1> QED BY <1>1, <1>2, <1>3, <1>4, <1>5, <1>6 DEF EvNext

(* The list walk of iothread_handle_in_eventpkg() implements EventStream   *)
(* for any sources, in whatever order their packets arrive, and for events *)
(* of any number of packets: every event that is delivered consists of the *)
(* words its source has sent since its last event, complete, in order and  *)
(* unmixed.                                                                *)
THEOREM ReassemblyRefines == EvSpec => Reassembles
  <1>1. EvInit => Abstract!Init
    <2> SUFFICES ASSUME EvInit PROVE Abstract!Init
      OBVIOUS
    <2>1. fwd_pkg = 0 /\ delivered = <<>> /\ buf = <<>>
      BY DEF EvInit
    <2>2. \A s : Live(s) = {}
      BY <2>1 DEF Live, Range
    <2>3. \A s : WordsPending(s) = <<>>
      BY <2>1, <2>2, SortedEmpty DEF WordsPending
    <2> QED BY <2>1, <2>3 DEF Abstract!Init
  <1>2. ASSUME IInv, WalkInv, [EvNext]_evVars
        PROVE  [Abstract!Next]_<<pendingOf, delivered>>
    <2>1. AbstractStep
      <3>1. CASE EvNext
        BY <1>2, <3>1, StepIsAbstract
      <3>2. CASE UNCHANGED evVars
        <4>1. UNCHANGED <<src, words, freed, buf, fwd_pkg, delivered>>
          BY <3>2 DEF evVars
        <4>2. \A t : LiveNext(t) = Live(t)
          BY <4>1 DEF LiveNext, Live
        <4>3. \A t \in Source : PendingNext(t) = WordsPending(t)
          BY <4>1, <4>2, SameLive
        <4> QED BY <4>1, <4>3, NothingMoves DEF AbstractStep
      <3> QED BY <1>2, <3>1, <3>2
    <2> QED BY <2>1 DEF AbstractStep, Abstract!Next, Abstract!Continue,
           Abstract!Complete, Abstract!Single, pendingOf
  <1> QED BY <1>1, <1>2, Initially, Inductive, WalkInitially, WalkInductive, PTL
      DEF EvSpec, Reassembles, Abstract!Spec, pendingOf
=============================================================================
