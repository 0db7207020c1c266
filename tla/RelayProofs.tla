---------------------------- MODULE RelayProofs ----------------------------
(***************************************************************************)
(* What holds of Relay for every set of nodes, sockets and payloads, every *)
(* cache size and any number of broadcasts and restarts.                   *)
(***************************************************************************)
EXTENDS Relay, SequenceTheorems, FiniteSetTheorems, FunctionTheorems, TLAPS

\* An element of a sequence's range is the value at one of its positions.
LEMMA InToSet ==
  ASSUME NEW S, NEW q \in Seq(S)
  PROVE  /\ \A x : x \in ToSet(q) <=> \E i \in 1..Len(q) : q[i] = x
         /\ \A i \in 1..Len(q) : q[i] \in S
         /\ Len(q) \in Nat
BY DEF ToSet

\* Taking the entry at position i out of a sequence keeps its type, adds no
\* element and moves what follows it one position forward.
LEMMA RemoveAtType ==
  ASSUME NEW S, NEW d \in Seq(S), NEW i \in 1..Len(d)
  PROVE  /\ RemoveAt(d, i) \in Seq(S)
         /\ ToSet(RemoveAt(d, i)) \subseteq ToSet(d)
         /\ Len(RemoveAt(d, i)) = Len(d) - 1
         /\ \A j \in 1..(Len(d) - 1) :
              RemoveAt(d, i)[j] = IF j < i THEN d[j] ELSE d[j + 1]
<1> DEFINE a == SubSeq(d, 1, i-1)
           b == SubSeq(d, i+1, Len(d))
<1>1. /\ Len(d) \in Nat /\ i \in Int /\ i-1 \in Int /\ i+1 \in Int
      /\ \A j \in 1..Len(d) : d[j] \in S
  BY InToSet
<1>2. /\ a \in Seq(S) /\ Len(a) = i-1
      /\ \A j \in 1..(i-1) : a[j] = d[j]
  <2>1. \A j \in 1..(i-1) : d[j] \in S
    BY <1>1
  <2>2. /\ a \in Seq(S)
        /\ Len(a) = IF 1 <= i-1 THEN (i-1)-1+1 ELSE 0
        /\ \A j \in 1..((i-1)-1+1) : a[j] = d[1+j-1]
    BY <1>1, <2>1, SubSeqProperties
  <2> QED
    BY <1>1, <2>2
<1>3. /\ b \in Seq(S) /\ Len(b) = Len(d) - i
      /\ \A j \in 1..(Len(d)-i) : b[j] = d[i+j]
  <2>1. \A j \in (i+1)..Len(d) : d[j] \in S
    BY <1>1
  <2>2. /\ b \in Seq(S)
        /\ Len(b) = IF i+1 <= Len(d) THEN Len(d)-(i+1)+1 ELSE 0
        /\ \A j \in 1..(Len(d)-(i+1)+1) : b[j] = d[(i+1)+j-1]
    BY <1>1, <2>1, SubSeqProperties
  <2> QED
    BY <1>1, <2>2
<1> HIDE DEF a, b
<1> DEFINE c == a \o b
<1>4. /\ c \in Seq(S)
      /\ Len(c) = Len(a) + Len(b)
      /\ \A j \in 1..(Len(a)+Len(b)) : c[j] = IF j <= Len(a) THEN a[j] ELSE b[j - Len(a)]
  BY <1>2, <1>3, ConcatProperties
<1>5. RemoveAt(d, i) = c
  BY DEF RemoveAt, a, b, c
<1> HIDE DEF c
<1>6. ASSUME NEW j \in 1..Len(c)
      PROVE  \E k \in 1..Len(d) : c[j] = d[k]
  <2>1. CASE j <= i-1
    <3>1. j \in 1..(i-1) /\ j \in 1..Len(d) /\ j <= Len(a) /\ j \in 1..(Len(a)+Len(b))
      BY <1>1, <1>2, <1>3, <1>4, <2>1
    <3>2. c[j] = a[j] /\ a[j] = d[j]
      BY <1>2, <1>4, <3>1
    <3> QED
      BY <3>1, <3>2
  <2>2. CASE j > i-1
    <3>1. j - (i-1) \in 1..(Len(d)-i) /\ c[j] = b[j-(i-1)]
      BY <1>1, <1>2, <1>3, <1>4, <2>2
    <3>2. b[j-(i-1)] = d[i + (j-(i-1))] /\ i + (j-(i-1)) \in 1..Len(d)
      BY <1>1, <1>3, <3>1
    <3> QED
      BY <3>1, <3>2
  <2> QED
    BY <1>1, <2>1, <2>2
<1>7. ToSet(c) \subseteq ToSet(d)
  <2>1. \A x \in ToSet(c) : \E j \in 1..Len(c) : c[j] = x
    BY <1>4, InToSet
  <2>2. \A k \in 1..Len(d) : d[k] \in ToSet(d)
    BY InToSet
  <2> QED
    BY <1>6, <2>1, <2>2
<1>8. Len(c) = Len(d) - 1
  BY <1>1, <1>2, <1>3, <1>4
<1>9. ASSUME NEW j \in 1..(Len(d) - 1)
      PROVE  c[j] = IF j < i THEN d[j] ELSE d[j + 1]
  <2>1. CASE j < i
    <3>1. j \in 1..(i-1) /\ j <= Len(a) /\ j \in 1..(Len(a)+Len(b))
      BY <1>1, <1>2, <1>3, <2>1
    <3> QED
      BY <1>2, <1>4, <2>1, <3>1
  <2>2. CASE ~(j < i)
    <3>1. /\ j - (i-1) \in 1..(Len(d)-i) /\ j \in 1..(Len(a)+Len(b)) /\ ~(j <= Len(a))
          /\ j - Len(a) = j - (i-1) /\ i + (j-(i-1)) = j + 1
      BY <1>1, <1>2, <1>3, <2>2
    <3>2. c[j] = b[j-(i-1)] /\ b[j-(i-1)] = d[i + (j-(i-1))]
      BY <1>3, <1>4, <3>1
    <3> QED
      BY <2>2, <3>1, <3>2
  <2> QED
    BY <2>1, <2>2
<1> QED
  BY <1>4, <1>5, <1>7, <1>8, <1>9, Zenon

\* Keeping the newest MaxKnown entries keeps the type and adds no element.
LEMMA NewestOfType ==
  ASSUME NEW d \in Seq(Payload)
  PROVE  /\ NewestOf(d) \in Seq(Payload)
         /\ ToSet(NewestOf(d)) \subseteq ToSet(d)
<1> DEFINE m == Len(d) - MaxKnown + 1
           c == SubSeq(d, m, Len(d))
<1>1. /\ Len(d) \in Nat /\ MaxKnown \in Nat \ {0}
      /\ \A j \in 1..Len(d) : d[j] \in Payload
  BY InToSet, CacheAssumption
<1>2. CASE Len(d) > MaxKnown
  <2>1. /\ m \in Int /\ Len(d) \in Int /\ m >= 1
        /\ \A j \in m..Len(d) : d[j] \in Payload
    BY <1>1, <1>2
  <2>2. /\ c \in Seq(Payload)
        /\ Len(c) = IF m <= Len(d) THEN Len(d)-m+1 ELSE 0
        /\ \A j \in 1..(Len(d)-m+1) : c[j] = d[m+j-1]
    <3> HIDE DEF m
    <3> QED BY <2>1, SubSeqProperties
  <2>3. ASSUME NEW j \in 1..Len(c) PROVE \E k \in 1..Len(d) : c[j] = d[k]
    <3> HIDE DEF c
    <3>1. c[j] = d[m+j-1] /\ m+j-1 \in 1..Len(d)
      BY <1>1, <2>1, <2>2
    <3> QED BY <3>1
  <2>4. NewestOf(d) = c
    BY <1>2 DEF NewestOf
  <2> HIDE DEF c
  <2> QED
    BY <2>2, <2>3, <2>4, InToSet
<1>3. CASE ~(Len(d) > MaxKnown)
  BY <1>3 DEF NewestOf
<1> QED
  BY <1>2, <1>3

\* Recording an antigen yields a store of antigens, and nothing enters it but
\* the antigen recorded.
LEMMA RememberType ==
  ASSUME NEW d \in Seq(Payload), NEW p \in Payload
  PROVE  /\ Remember(d, p) \in Seq(Payload)
         /\ ToSet(Remember(d, p)) \subseteq ToSet(d) \cup {p}
<1> DEFINE e == Pop(d, KeyOf[p])
           f == Append(e, p)
<1>1. e \in Seq(Payload) /\ ToSet(e) \subseteq ToSet(d)
  <2>1. CASE \E i \in DOMAIN d : KeyOf[d[i]] = KeyOf[p]
    <3> DEFINE i == CHOOSE i \in DOMAIN d : KeyOf[d[i]] = KeyOf[p]
    <3>1. i \in 1..Len(d)
      BY <2>1
    <3>2. e = RemoveAt(d, i)
      BY <2>1 DEF Pop
    <3> HIDE DEF i, e
    <3> QED
      BY <3>1, <3>2, RemoveAtType
  <2>2. CASE ~ \E i \in DOMAIN d : KeyOf[d[i]] = KeyOf[p]
    BY <2>2 DEF Pop
  <2> QED
    BY <2>1, <2>2
<1> HIDE DEF e
<1>2. /\ f \in Seq(Payload) /\ Len(f) = Len(e) + 1
      /\ \A i \in 1..Len(e) : f[i] = e[i]
      /\ f[Len(e) + 1] = p
  BY <1>1, AppendProperties
<1> HIDE DEF f
<1>3. ToSet(f) \subseteq ToSet(e) \cup {p}
  <2>1. ASSUME NEW i \in 1..Len(f) PROVE f[i] \in ToSet(e) \cup {p}
    BY <1>1, <1>2, InToSet
  <2> QED
    BY <1>2, <2>1, InToSet
<1>4. NewestOf(f) \in Seq(Payload) /\ ToSet(NewestOf(f)) \subseteq ToSet(f)
  BY <1>2, NewestOfType
<1>5. Remember(d, p) = NewestOf(f)
  BY DEF Remember, e, f
<1> QED
  BY <1>1, <1>3, <1>4, <1>5

\* A non-empty sequence has the elements of its head and its tail.
LEMMA HeadTailSet ==
  ASSUME NEW S, NEW q \in Seq(S), q # <<>>
  PROVE  /\ Head(q) \in S /\ Tail(q) \in Seq(S)
         /\ ToSet(q) \subseteq {Head(q)} \cup ToSet(Tail(q))
         /\ Len(q) # 1 => Tail(q) # <<>>
<1> DEFINE t == Tail(q)
<1>1. /\ Head(q) = q[1] /\ Head(q) \in S /\ t \in Seq(S)
      /\ Len(t) = Len(q) - 1 /\ Len(q) \in Nat /\ Len(q) # 0
      /\ \A j \in 1..Len(t) : t[j] = q[j+1]
  BY HeadTailProperties
<1> HIDE DEF t
<1>2. ASSUME NEW i \in 1..Len(q)
      PROVE  q[i] \in {q[1]} \cup ToSet(t)
  <2>1. CASE i = 1
    BY <2>1
  <2>2. CASE i # 1
    <3>1. i-1 \in 1..Len(t) /\ t[i-1] = q[i]
      BY <1>1, <2>2
    <3> QED
      BY <1>1, <3>1, InToSet
  <2> QED
    BY <2>1, <2>2
<1>3. ToSet(q) \subseteq {q[1]} \cup ToSet(t)
  BY <1>2, InToSet
<1>4. Len(q) # 1 => t # <<>>
  BY <1>1
<1> QED
  BY <1>1, <1>3, <1>4 DEF t

-----------------------------------------------------------------------------
(* Every handler step keeps its variables well typed.                      *)

(* A relay that has just started is well typed.                            *)
LEMMA TypeInit == Init => TypeOK
BY NullAssumption, BoundAssumption DEF Init, TypeOK

\* A dispatch either finds nobody else registered and leaves the handler where
\* it is, or starts a fan-out that waits on one of the others.
LEMMA DispatchType ==
  ASSUME TypeOK, NEW s \in Sess, NEW p \in Payload, Dispatch(s, p)
  PROVE  /\ pc' \in [Sess -> {"closed", "hello", "acked", "sync", "recv", "fan"}]
         /\ msg' \in [Sess -> Payload \cup {NoPayload}]
         /\ targets' \in [Sess -> SUBSET Node]
         /\ peer' \in [Sess -> Sess \cup {NoSess}]
         /\ \A t \in Sess : pc'[t] = "fan" => msg'[t] = p \/ (pc[t] = "fan" /\ msg'[t] = msg[t])
         /\ \A t \in Sess : pc'[t] # "fan" => pc[t] # "fan" /\ peer'[t] = peer[t]
<1> DEFINE others == {m \in Node : connections[m] # NoSess /\ m # who[s]}
<1>1. CASE others = {}
  BY <1>1 DEF Dispatch, TypeOK
<1>2. CASE others # {}
  <2>1. PICK n \in others : /\ pc' = [pc EXCEPT ![s] = "fan"]
                            /\ msg' = [msg EXCEPT ![s] = p]
                            /\ targets' = [targets EXCEPT ![s] = others \ {n}]
                            /\ peer' = [peer EXCEPT ![s] = connections[n]]
    BY <1>2 DEF Dispatch
  <2>2. connections[n] \in Sess /\ others \ {n} \in SUBSET Node
    BY DEF TypeOK
  <2> HIDE DEF others
  <2>3. pc[s] = "recv"
    BY DEF Dispatch
  <2> QED
    BY <2>1, <2>2, <2>3 DEF TypeOK
<1> QED
  BY <1>1, <1>2

(* The end of a handler writes values of the right kind.                   *)
LEMMA EndsType ==
  ASSUME TypeOK, NEW s \in Sess, HandlerEnds(s)
  PROVE  /\ pc' = [pc EXCEPT ![s] = "closed"]
         /\ who' = [who EXCEPT ![s] = NoNode]
         /\ open' \subseteq Sess
         /\ connections' \in [Node -> Sess \cup {NoSess}]
         /\ has' \in [Sess -> SUBSET Payload]
BY DEF TypeOK, HandlerEnds, Unregister

(* No step of the relay, its clients or the network breaks the typing.     *)
LEMMA TypeStep == TypeOK /\ [Next]_vars => TypeOK'
<1> SUFFICES ASSUME TypeOK, [Next]_vars PROVE TypeOK'
  OBVIOUS
<1> USE DEF TypeOK, handlers, fanout, history
<1>1. ASSUME NEW s \in Sess, Accept(s) PROVE TypeOK'
  BY <1>1 DEF Accept
<1>2. ASSUME NEW s \in Sess, Drop(s) PROVE TypeOK'
  BY <1>2 DEF Drop
<1>3. ASSUME NEW s \in Sess, NEW n \in Node, Authenticate(s, n) PROVE TypeOK'
  BY <1>3 DEF Authenticate
<1>4. ASSUME NEW s \in Sess, NEW p \in Payload, Dispatch(s, p) PROVE TypeOK'
  <2>1. known' \in Seq(Payload) /\ published' \in Seq(Payload)
    BY <1>4, RememberType DEF Dispatch
  <2>2. has' \in [Sess -> SUBSET Payload] /\ unechoed' \subseteq Sess \X Payload
    BY <1>4 DEF Dispatch
  <2>3. /\ pc' \in [Sess -> {"closed", "hello", "acked", "sync", "recv", "fan"}]
        /\ msg' \in [Sess -> Payload \cup {NoPayload}]
        /\ targets' \in [Sess -> SUBSET Node]
        /\ peer' \in [Sess -> Sess \cup {NoSess}]
        /\ \A t \in Sess : pc'[t] = "fan" => msg'[t] \in Payload
    BY <1>4, DispatchType
  <2>4. \A t \in Sess : /\ pc'[t] \in {"acked", "sync", "recv", "fan"} => who'[t] \in Node
                        /\ pc'[t] = "sync" => todo'[t] # <<>>
    BY <1>4 DEF Dispatch
  <2> QED
    BY <1>4, <2>1, <2>2, <2>3, <2>4 DEF Dispatch
<1>5. CASE Restart
  BY <1>5 DEF Restart
<1>6. ASSUME NEW s \in Sess, Reject(s) PROVE TypeOK'
  BY <1>6, EndsType DEF Reject
<1>7. ASSUME NEW s \in Sess, Register(s) PROVE TypeOK'
  BY <1>7 DEF Register
<1>8. ASSUME NEW s \in Sess, Replay(s) PROVE TypeOK'
  <2>1. /\ Head(todo[s]) \in Payload /\ Tail(todo[s]) \in Seq(Payload)
        /\ Len(todo[s]) # 1 => Tail(todo[s]) # <<>>
    BY <1>8, HeadTailSet DEF Replay
  <2> QED
    BY <1>8, <2>1 DEF Replay
<1>9. ASSUME NEW s \in Sess, ReplayClosed(s) PROVE TypeOK'
  BY <1>9 DEF ReplayClosed
<1>10. ASSUME NEW s \in Sess, FanOutSent(s) PROVE TypeOK'
  BY <1>10 DEF FanOutSent
<1>11. ASSUME NEW s \in Sess, FanOutClosed(s) PROVE TypeOK'
  BY <1>11 DEF FanOutClosed
<1>12. ASSUME NEW s \in Sess, FanOutDone(s) PROVE TypeOK'
  BY <1>12 DEF FanOutDone
<1>13. ASSUME NEW s \in Sess, Disconnect(s) PROVE TypeOK'
  BY <1>13, EndsType DEF Disconnect
<1>14. ASSUME NEW s \in Sess, NEW n \in Node, FanOut(s, n) PROVE TypeOK'
  BY <1>14 DEF FanOut
<1>15. ASSUME NEW s \in Sess, NEW n \in Node, FanOutAborted(s, n) PROVE TypeOK'
  <2>1. skipped' \subseteq Sess \X Payload
    <3>1. msg[s] \in Payload /\ \A m \in targets[s] : connections[m] \in Sess \cup {NoSess}
      BY <1>15 DEF FanOutAborted
    <3>2. ASSUME NEW m \in targets[s], <<connections[m], msg[s]>>[1] \notin {s, NoSess}
          PROVE  <<connections[m], msg[s]>> \in Sess \X Payload
      BY <3>1, <3>2
    <3>3. \A x \in skipped' : x \in skipped \/
            \E m \in targets[s] : x = <<connections[m], msg[s]>> /\ x[1] \notin {s, NoSess}
      BY <1>15 DEF FanOutAborted
    <3>4. ASSUME NEW x \in skipped' PROVE x \in Sess \X Payload
      <4>1. CASE x \in skipped
        BY <4>1
      <4>2. CASE \E m \in targets[s] : x = <<connections[m], msg[s]>> /\ x[1] \notin {s, NoSess}
        BY <4>2, <3>1
      <4> QED
        BY <3>3, <4>1, <4>2
    <3> QED
      BY <3>4
  <2>2. /\ pc' = [pc EXCEPT ![s] = "closed"]
        /\ who' = [who EXCEPT ![s] = NoNode]
        /\ open' \subseteq Sess
        /\ connections' \in [Node -> Sess \cup {NoSess}]
        /\ has' \in [Sess -> SUBSET Payload]
    BY <1>15, EndsType DEF FanOutAborted
  <2>3. /\ msg' = [msg EXCEPT ![s] = NoPayload]
        /\ targets' = [targets EXCEPT ![s] = {}]
        /\ unechoed' \subseteq Sess \X Payload
        /\ UNCHANGED <<known, todo, peer, restarts, published>>
    BY <1>15 DEF FanOutAborted
  <2> QED
    BY <2>1, <2>2, <2>3
<1>16. CASE UNCHANGED vars
  BY <1>16 DEF vars
<1> QED
  BY <1>1, <1>2, <1>3, <1>4, <1>5, <1>6, <1>7, <1>8, <1>9, <1>10, <1>11, <1>12,
     <1>13, <1>14, <1>15, <1>16 DEF Next, HandlerStep

\* Every variable of the relay stays well typed, whatever the instance.
THEOREM TypeCorrect == Spec => []TypeOK
<1> QED
  BY TypeInit, TypeStep, PTL DEF Spec

-----------------------------------------------------------------------------
(* Registrations.                                                          *)

\* A registration lasts exactly as long as its handler.
LEMMA RegistrationStep ==
  TypeOK /\ NoStaleRegistration /\ [Next]_vars => NoStaleRegistration'
<1> SUFFICES ASSUME TypeOK, NoStaleRegistration, [Next]_vars
             PROVE  NoStaleRegistration'
  OBVIOUS
<1> USE NullAssumption DEF TypeOK, NoStaleRegistration, Live, handlers, fanout, history
<1>1. ASSUME NEW s \in Sess, Accept(s) PROVE NoStaleRegistration'
  BY <1>1 DEF Accept
<1>2. ASSUME NEW s \in Sess, Drop(s) PROVE NoStaleRegistration'
  BY <1>2 DEF Drop
<1>3. ASSUME NEW s \in Sess, NEW n \in Node, Authenticate(s, n)
      PROVE  NoStaleRegistration'
  BY <1>3 DEF Authenticate
<1>4. ASSUME NEW s \in Sess, NEW p \in Payload, Dispatch(s, p)
      PROVE  NoStaleRegistration'
  BY <1>4 DEF Dispatch
<1>5. CASE Restart
  BY <1>5 DEF Restart
<1>6. ASSUME NEW s \in Sess, HandlerEnds(s) PROVE NoStaleRegistration'
  BY <1>6 DEF HandlerEnds, Unregister
<1>7. ASSUME NEW s \in Sess, Register(s) PROVE NoStaleRegistration'
  BY <1>7 DEF Register
<1>8. ASSUME NEW s \in Sess,
             Replay(s) \/ ReplayClosed(s) \/ FanOutSent(s) \/ FanOutClosed(s)
               \/ FanOutDone(s) \/ \E n \in Node : FanOut(s, n)
      PROVE  NoStaleRegistration'
  BY <1>8 DEF Replay, ReplayClosed, FanOutSent, FanOutClosed, FanOutDone, FanOut
<1>9. CASE UNCHANGED vars
  BY <1>9 DEF vars
<1> QED
  BY <1>1, <1>2, <1>3, <1>4, <1>5, <1>6, <1>7, <1>8, <1>9
  DEF Next, HandlerStep, Reject, Disconnect, FanOutAborted

\* The fan-out list never names a handler that has ended: a registered socket
\* belongs to its node and its handler is still running.
THEOREM RegistrationsAreLive == Spec => []NoStaleRegistration
<1>1. Init => NoStaleRegistration
  BY NullAssumption DEF Init, NoStaleRegistration
<1> QED
  BY <1>1, RegistrationStep, TypeCorrect, PTL DEF Spec

\* A node id loses its socket only to a newer login or to its handler's end.
THEOREM RegistrationIsHeld == Spec => RegistrationHeld
<1> DEFINE Held == \A n \in Node :
              LET s == connections[n]
                  t == connections'[n]
              IN s # NoSess /\ t # s =>
                   \/ pc'[s] = "closed"
                   \/ t # NoSess /\ pc[t] = "acked" /\ who[t] = n
<1>1. TypeOK /\ [Next]_vars => [Held]_vars
  <2> SUFFICES ASSUME TypeOK, Next PROVE Held
    OBVIOUS
  <2> USE NullAssumption DEF TypeOK, handlers, fanout, history
  <2>1. ASSUME NEW s \in Sess, HandlerEnds(s) PROVE Held
    BY <2>1 DEF HandlerEnds, Unregister
  <2>2. ASSUME NEW s \in Sess, Register(s) PROVE Held
    BY <2>2 DEF Register
  <2>3. CASE Restart
    BY <2>3 DEF Restart
  <2>4. CASE UNCHANGED connections
    BY <2>4
  <2> QED
    BY <2>1, <2>2, <2>3, <2>4
    DEF Next, HandlerStep, Accept, Drop, Authenticate, Dispatch, Reject, Replay,
        ReplayClosed, FanOutSent, FanOutClosed, FanOutDone, FanOut, Disconnect,
        FanOutAborted
<1> QED
  BY <1>1, TypeCorrect, PTL DEF Spec, RegistrationHeld

-----------------------------------------------------------------------------
(* The join race: no registered socket is left with a hole.  NoBlindSpot   *)
(* is inductive together with TypeOK and NoStaleRegistration: the ending   *)
(* of a handler is harmless because it leaves no registration behind.      *)

\* What the relay leaves out for good.
Holes == skipped \cup unechoed

RInv == TypeOK /\ NoStaleRegistration /\ NoBlindSpot

(* No step opens a hole under a registered socket: whoever joins has a      *)
(* replay before it, whoever is registered is a target of every fan-out.   *)
LEMMA BlindSpotStep == RInv /\ [Next]_vars => NoBlindSpot'
<1> SUFFICES ASSUME RInv, [Next]_vars,
                    NEW n \in Node, NEW s, s = connections'[n], s \in open',
                    NEW p \in ToSet(known')
             PROVE  Covered(n, s, p)' \/ <<s, p>> \in Holes'
  BY DEF NoBlindSpot, Holes
<1>0. TypeOK /\ TypeOK' /\ NoStaleRegistration /\ NoBlindSpot /\ s \in Sess
  BY TypeStep DEF RInv, TypeOK
<1> USE NullAssumption DEF handlers, fanout, history
\* What held before the step, for a socket that was registered already.
<1>a. connections[n] = s /\ s \in open /\ p \in ToSet(known)
        => Covered(n, s, p) \/ <<s, p>> \in Holes
  BY <1>0 DEF NoBlindSpot, Holes
<1>1. ASSUME NEW h \in Sess, Accept(h)
      PROVE  Covered(n, s, p)' \/ <<s, p>> \in Holes'
  <2>1. connections[n] = s /\ s # h /\ s \in open /\ p \in ToSet(known)
    BY <1>0, <1>1 DEF Accept, NoStaleRegistration, Live
  <2>2. InFlight(n, s, p) => InFlight(n, s, p)'
    BY <1>0, <1>1 DEF Accept, InFlight, TypeOK
  <2>3. has' = has /\ todo' = todo /\ Holes' = Holes
    BY <1>1 DEF Accept, Holes
  <2>4. Covered(n, s, p) => Covered(n, s, p)'
    BY <2>2, <2>3 DEF Covered
  <2> QED
    BY <1>a, <2>1, <2>3, <2>4
<1>2. ASSUME NEW h \in Sess, Drop(h)
      PROVE  Covered(n, s, p)' \/ <<s, p>> \in Holes'
  <2>1. connections[n] = s /\ s \in open /\ p \in ToSet(known)
    BY <1>2 DEF Drop
  <2>2. InFlight(n, s, p) => InFlight(n, s, p)'
    BY <1>2 DEF Drop, InFlight
  <2> QED
    BY <1>a, <1>2, <2>1, <2>2 DEF Drop, Covered, Holes
<1>3. ASSUME NEW h \in Sess, NEW m \in Node, Authenticate(h, m)
      PROVE  Covered(n, s, p)' \/ <<s, p>> \in Holes'
  <2>1. connections[n] = s /\ s \in open /\ p \in ToSet(known)
    BY <1>3 DEF Authenticate
  <2>2. InFlight(n, s, p) => InFlight(n, s, p)'
    BY <1>0, <1>3 DEF Authenticate, InFlight, TypeOK
  <2> QED
    BY <1>a, <1>3, <2>1, <2>2 DEF Authenticate, Covered, Holes
<1>4. ASSUME NEW h \in Sess, NEW q \in Payload, Dispatch(h, q)
      PROVE  Covered(n, s, p)' \/ <<s, p>> \in Holes'
  <2>1. connections[n] = s /\ s \in open /\ p \in ToSet(known) \cup {q} /\ s # NoSess
    BY <1>0, <1>4, RememberType DEF Dispatch, TypeOK
  <2>2. has[s] \subseteq has'[s] /\ q \in has'[h]
    BY <1>0, <1>4 DEF Dispatch, TypeOK
  <2>3. CASE p = q
    <3>1. CASE n = who[h] /\ s = h
      BY <2>2, <2>3, <3>1 DEF Covered
    <3>2. CASE n = who[h] /\ s # h
      <4>1. <<s, q>> \in unechoed'
        BY <1>4, <2>1, <3>2 DEF Dispatch
      <4> QED
        BY <2>3, <4>1 DEF Holes
    <3>3. CASE n # who[h]
      <4>1. PICK m \in Node : /\ pc'[h] = "fan" /\ msg'[h] = q
                              /\ n \in targets'[h] \/ m = n
                              /\ peer'[h] = connections[m]
        BY <1>0, <1>4, <2>1, <3>3 DEF Dispatch, TypeOK
      <4>2. n \in targets'[h] \/ peer'[h] = s
        BY <2>1, <4>1
      <4> QED
        BY <2>3, <4>1, <4>2 DEF Covered, InFlight
    <3> QED
      BY <3>1, <3>2, <3>3
  <2>4. CASE p \in ToSet(known)
    <3>1. InFlight(n, s, p) => InFlight(n, s, p)'
      BY <1>0, <1>4 DEF Dispatch, InFlight, TypeOK
    <3>2. <<s, p>> \in Holes => <<s, p>> \in Holes'
      BY <1>4 DEF Dispatch, Holes
    <3> QED
      BY <1>a, <1>4, <2>1, <2>2, <2>4, <3>1, <3>2 DEF Dispatch, Covered
  <2> QED
    BY <2>1, <2>3, <2>4
<1>5. CASE Restart
  BY <1>0, <1>5 DEF Restart
<1>6. ASSUME NEW h \in Sess, Reject(h)
      PROVE  Covered(n, s, p)' \/ <<s, p>> \in Holes'
  <2>1. connections[n] = s /\ s # h /\ s \in open /\ p \in ToSet(known)
    BY <1>0, <1>6 DEF Reject, HandlerEnds, Unregister, NoStaleRegistration, Live
  <2>2. InFlight(n, s, p) => InFlight(n, s, p)'
    BY <1>0, <1>6 DEF Reject, HandlerEnds, InFlight, TypeOK
  <2>3. has'[s] = has[s]
    BY <1>0, <1>6, <2>1 DEF Reject, HandlerEnds, TypeOK
  <2> QED
    BY <1>a, <1>6, <2>1, <2>2, <2>3 DEF Reject, Covered, Holes
<1>7. ASSUME NEW h \in Sess, Register(h)
      PROVE  Covered(n, s, p)' \/ <<s, p>> \in Holes'
  <2>1. CASE n = who[h]
    <3>1. s = h /\ todo'[s] = known /\ known' = known
      BY <1>0, <1>7, <2>1 DEF Register, TypeOK
    <3> QED
      BY <3>1 DEF Covered
  <2>2. CASE n # who[h]
    <3>1. connections[n] = s /\ s # h /\ s \in open /\ p \in ToSet(known)
      BY <1>0, <1>7, <2>2 DEF Register, NoStaleRegistration, Live, TypeOK
    <3>2. InFlight(n, s, p) => InFlight(n, s, p)'
      BY <1>0, <1>7 DEF Register, InFlight, TypeOK
    <3>3. todo'[s] = todo[s]
      BY <1>0, <1>7, <3>1 DEF Register, TypeOK
    <3> QED
      BY <1>a, <1>7, <3>1, <3>2, <3>3 DEF Register, Covered, Holes
  <2> QED
    BY <2>1, <2>2
<1>8. ASSUME NEW h \in Sess, Replay(h)
      PROVE  Covered(n, s, p)' \/ <<s, p>> \in Holes'
  <2>1. connections[n] = s /\ s \in open /\ p \in ToSet(known)
    BY <1>8 DEF Replay
  <2>2. InFlight(n, s, p) => InFlight(n, s, p)'
    BY <1>0, <1>8 DEF Replay, InFlight, TypeOK
  <2>3. has[s] \subseteq has'[s] /\ ToSet(todo[s]) \subseteq ToSet(todo'[s]) \cup has'[s]
    <3>1. CASE s = h
      <4>1. todo[h] \in Seq(Payload) /\ todo[h] # <<>>
        BY <1>0, <1>8 DEF Replay, TypeOK
      <4>2. ToSet(todo[h]) \subseteq {Head(todo[h])} \cup ToSet(Tail(todo[h]))
        BY <4>1, HeadTailSet
      <4>3. todo'[h] = Tail(todo[h]) /\ has'[h] = has[h] \cup {Head(todo[h])}
        BY <1>0, <1>8 DEF Replay, TypeOK
      <4> QED
        BY <3>1, <4>2, <4>3
    <3>2. CASE s # h
      BY <1>0, <1>8, <3>2 DEF Replay, TypeOK
    <3> QED
      BY <3>1, <3>2
  <2> QED
    BY <1>a, <1>8, <2>1, <2>2, <2>3 DEF Replay, Covered, Holes
<1>9. ASSUME NEW h \in Sess, ReplayClosed(h)
      PROVE  Covered(n, s, p)' \/ <<s, p>> \in Holes'
  <2>1. connections[n] = s /\ s # h /\ s \in open /\ p \in ToSet(known)
    BY <1>9 DEF ReplayClosed
  <2>2. InFlight(n, s, p) => InFlight(n, s, p)'
    BY <1>0, <1>9 DEF ReplayClosed, InFlight, TypeOK
  <2>3. todo'[s] = todo[s]
    BY <1>0, <1>9, <2>1 DEF ReplayClosed, TypeOK
  <2> QED
    BY <1>a, <1>9, <2>1, <2>2, <2>3 DEF ReplayClosed, Covered, Holes
<1>10. ASSUME NEW h \in Sess, FanOutSent(h)
       PROVE  Covered(n, s, p)' \/ <<s, p>> \in Holes'
  <2>1. connections[n] = s /\ s \in open /\ p \in ToSet(known)
    BY <1>10 DEF FanOutSent
  <2>2. has[s] \subseteq has'[s]
    BY <1>0, <1>10 DEF FanOutSent, TypeOK
  <2>3. InFlight(n, s, p) => InFlight(n, s, p)' \/ p \in has'[s]
    BY <1>0, <1>10 DEF FanOutSent, InFlight, TypeOK
  <2> QED
    BY <1>a, <1>10, <2>1, <2>2, <2>3 DEF FanOutSent, Covered, Holes
<1>11. ASSUME NEW h \in Sess, FanOutClosed(h)
       PROVE  Covered(n, s, p)' \/ <<s, p>> \in Holes'
  <2>1. connections[n] = s /\ s \in open /\ p \in ToSet(known) /\ peer[h] # s
    BY <1>11 DEF FanOutClosed
  <2>2. InFlight(n, s, p) => InFlight(n, s, p)'
    BY <1>0, <1>11, <2>1 DEF FanOutClosed, InFlight, TypeOK
  <2> QED
    BY <1>a, <1>11, <2>1, <2>2 DEF FanOutClosed, Covered, Holes
<1>12. ASSUME NEW h \in Sess, FanOutDone(h)
       PROVE  Covered(n, s, p)' \/ <<s, p>> \in Holes'
  <2>1. connections[n] = s /\ s \in open /\ p \in ToSet(known)
    BY <1>12 DEF FanOutDone
  <2>2. InFlight(n, s, p) => InFlight(n, s, p)'
    BY <1>0, <1>12 DEF FanOutDone, InFlight, TypeOK
  <2> QED
    BY <1>a, <1>12, <2>1, <2>2 DEF FanOutDone, Covered, Holes
<1>13. ASSUME NEW h \in Sess, Disconnect(h)
       PROVE  Covered(n, s, p)' \/ <<s, p>> \in Holes'
  <2>1. connections[n] = s /\ s # h /\ s \in open /\ p \in ToSet(known)
    BY <1>0, <1>13 DEF Disconnect, HandlerEnds, Unregister
  <2>2. InFlight(n, s, p) => InFlight(n, s, p)'
    BY <1>0, <1>13 DEF Disconnect, HandlerEnds, InFlight, TypeOK
  <2>3. has'[s] = has[s] /\ (<<s, p>> \in Holes => <<s, p>> \in Holes')
    BY <1>0, <1>13, <2>1 DEF Disconnect, HandlerEnds, TypeOK, Holes
  <2> QED
    BY <1>a, <1>13, <2>1, <2>2, <2>3 DEF Disconnect, Covered
<1>14. ASSUME NEW h \in Sess, NEW m \in Node, FanOut(h, m)
       PROVE  Covered(n, s, p)' \/ <<s, p>> \in Holes'
  <2>1. connections[n] = s /\ s \in open /\ p \in ToSet(known)
    BY <1>14 DEF FanOut
  <2>2. InFlight(n, s, p) => InFlight(n, s, p)'
    BY <1>0, <1>14, <2>1 DEF FanOut, InFlight, TypeOK
  <2> QED
    BY <1>a, <1>14, <2>1, <2>2 DEF FanOut, Covered, Holes
<1>15. ASSUME NEW h \in Sess, NEW m \in Node, FanOutAborted(h, m)
       PROVE  Covered(n, s, p)' \/ <<s, p>> \in Holes'
  <2>1. connections[n] = s /\ s # h /\ s \in open /\ p \in ToSet(known) /\ s # NoSess
    <3>1. connections[n] = s /\ s \in open /\ s # h
      BY <1>0, <1>15 DEF FanOutAborted, HandlerEnds, Unregister
    <3> QED
      BY <1>0, <1>15, <3>1 DEF FanOutAborted
  <2>2. CASE n \in targets[h] /\ msg[h] = p
    <3>1. <<s, p>> \in {<<connections[k], msg[h]>> : k \in targets[h]}
      BY <2>1, <2>2
    <3>2. <<s, p>>[1] \notin {h, NoSess}
      BY <2>1
    <3> QED
      BY <1>15, <3>1, <3>2 DEF FanOutAborted, Holes
  <2>3. CASE ~(n \in targets[h] /\ msg[h] = p)
    <3>1. ASSUME InFlight(n, s, p) PROVE InFlight(n, s, p)'
      <4>1. PICK k \in Sess : pc[k] = "fan" /\ msg[k] = p /\ (n \in targets[k] \/ peer[k] = s)
        BY <3>1 DEF InFlight
      <4>2. k # h
        BY <1>15, <2>1, <2>3, <4>1 DEF FanOutAborted
      <4>3. pc'[k] = pc[k] /\ msg'[k] = msg[k] /\ targets'[k] = targets[k] /\ peer' = peer
        BY <1>0, <1>15, <4>2 DEF FanOutAborted, HandlerEnds, TypeOK
      <4> QED
        BY <4>1, <4>3 DEF InFlight
    <3>2. has'[s] = has[s] /\ todo' = todo
      BY <1>0, <1>15, <2>1 DEF FanOutAborted, HandlerEnds, TypeOK
    <3>3. <<s, p>> \in Holes => <<s, p>> \in Holes'
      BY <1>15, <2>1 DEF FanOutAborted, Holes
    <3> QED
      BY <1>a, <2>1, <3>1, <3>2, <3>3 DEF Covered
  <2> QED
    BY <2>2, <2>3
<1>16. CASE UNCHANGED vars
  <2>1. connections[n] = s /\ s \in open /\ p \in ToSet(known)
    BY <1>16 DEF vars
  <2>2. InFlight(n, s, p) => InFlight(n, s, p)'
    BY <1>16 DEF vars, InFlight
  <2> QED
    BY <1>a, <1>16, <2>1, <2>2 DEF vars, Covered, Holes
<1> QED
  BY <1>1, <1>2, <1>3, <1>4, <1>5, <1>6, <1>7, <1>8, <1>9, <1>10, <1>11, <1>12,
     <1>13, <1>14, <1>15, <1>16 DEF Next, HandlerStep

\* No registered, open socket misses an antigen the relay remembers, except
\* through an aborted fan-out or a frame from an older socket of its own node
\* id: whatever the order of joins, broadcasts,
\* evictions, drops, double logins and restarts.
THEOREM NoBlindSpotHolds == Spec => []NoBlindSpot
<1>1. Init => RInv
  BY TypeInit, NullAssumption DEF Init, RInv, NoStaleRegistration, NoBlindSpot, ToSet
<1>2. RInv /\ [Next]_vars => RInv'
  BY TypeStep, RegistrationStep, BlindSpotStep DEF RInv
<1>3. RInv => NoBlindSpot
  BY DEF RInv
<1> QED
  BY <1>1, <1>2, <1>3, PTL DEF Spec

-----------------------------------------------------------------------------
(* The refinement.  The debts of the hub are computed from the loops of    *)
(* the handlers; what they hold was broadcast, and a handler that is not   *)
(* fanning out waits on no socket.                                         *)

\* The newest entry survives the trim.
LEMMA RememberHas ==
  ASSUME NEW d \in Seq(Payload), NEW p \in Payload
  PROVE  p \in ToSet(Remember(d, p))
<1> DEFINE e == Pop(d, KeyOf[p])
           f == Append(e, p)
           m == Len(f) - MaxKnown + 1
<1>1. e \in Seq(Payload)
  <2>1. CASE \E i \in DOMAIN d : KeyOf[d[i]] = KeyOf[p]
    <3> DEFINE i == CHOOSE i \in DOMAIN d : KeyOf[d[i]] = KeyOf[p]
    <3>1. i \in 1..Len(d) /\ e = RemoveAt(d, i)
      BY <2>1 DEF Pop
    <3> HIDE DEF i, e
    <3> QED
      BY <3>1, RemoveAtType
  <2> QED
    BY <2>1 DEF Pop
<1> HIDE DEF e
<1>2. /\ f \in Seq(Payload) /\ Len(f) = Len(e) + 1 /\ Len(e) \in Nat
      /\ f[Len(f)] = p
  BY <1>1, AppendProperties
<1> HIDE DEF f
<1>3. CASE Len(f) > MaxKnown
  <2> DEFINE c == SubSeq(f, m, Len(f))
  <2>1. /\ m \in Int /\ Len(f) \in Int /\ m >= 1 /\ m <= Len(f)
        /\ \A j \in m..Len(f) : f[j] \in Payload
    BY <1>2, <1>3, InToSet, CacheAssumption
  <2> HIDE DEF m
  <2>2. /\ c \in Seq(Payload) /\ Len(c) = Len(f) - m + 1
        /\ \A j \in 1..(Len(f)-m+1) : c[j] = f[m+j-1]
    BY <2>1, SubSeqProperties
  <2> HIDE DEF c
  <2>3. Len(c) \in 1..Len(c) /\ Len(c) \in 1..(Len(f)-m+1) /\ m + Len(c) - 1 = Len(f)
    BY <2>1, <2>2
  <2>4. c[Len(c)] = p
    BY <1>2, <2>2, <2>3
  <2>5. NewestOf(f) = c
    BY <1>3 DEF NewestOf, c, m
  <2> QED
    BY <2>2, <2>3, <2>4, <2>5, InToSet DEF Remember, e, f
<1>4. CASE ~(Len(f) > MaxKnown)
  <2>1. Len(f) \in 1..Len(f)
    BY <1>2
  <2>2. NewestOf(f) = f
    BY <1>4 DEF NewestOf
  <2> QED
    BY <1>2, <2>1, <2>2, InToSet DEF Remember, e, f
<1> QED
  BY <1>3, <1>4

\* The set of an extended sequence.
LEMMA AppendSet ==
  ASSUME NEW S, NEW q \in Seq(S), NEW x \in S
  PROVE  ToSet(Append(q, x)) = ToSet(q) \cup {x}
<1> DEFINE r == Append(q, x)
<1>1. /\ r \in Seq(S) /\ Len(r) = Len(q) + 1 /\ Len(q) \in Nat
      /\ \A i \in 1..Len(q) : r[i] = q[i]
      /\ r[Len(q) + 1] = x
  BY AppendProperties
<1> HIDE DEF r
<1>2. ASSUME NEW i \in 1..Len(r) PROVE r[i] \in ToSet(q) \cup {x}
  BY <1>1, InToSet
<1>3. ASSUME NEW i \in 1..Len(q) PROVE q[i] \in ToSet(r)
  BY <1>1, InToSet
<1>4. x \in ToSet(r)
  BY <1>1, InToSet
<1>5. ToSet(r) = ToSet(q) \cup {x}
  BY <1>1, <1>2, <1>3, <1>4, InToSet
<1> QED
  BY <1>5 DEF r

\* A replay that sends the head of its list still owes the tail and no more.
LEMMA HeadTailDebt ==
  ASSUME NEW S, NEW q \in Seq(S), q # <<>>
  PROVE  /\ ToSet(q) = {Head(q)} \cup ToSet(Tail(q))
         /\ Len(q) = 1 => ToSet(Tail(q)) = {}
<1> DEFINE t == Tail(q)
<1>1. /\ Head(q) = q[1] /\ t \in Seq(S)
      /\ Len(t) = Len(q) - 1 /\ Len(q) \in Nat /\ Len(q) # 0
      /\ \A j \in 1..Len(t) : t[j] = q[j+1]
  BY HeadTailProperties
<1>2. ToSet(q) \subseteq {Head(q)} \cup ToSet(t)
  BY HeadTailSet
<1> HIDE DEF t
<1>3. ASSUME NEW j \in 1..Len(t) PROVE t[j] \in ToSet(q)
  <2>1. j+1 \in 1..Len(q) /\ t[j] = q[j+1]
    BY <1>1
  <2> QED
    BY <2>1, InToSet
<1>4. q[1] \in ToSet(q)
  BY <1>1, InToSet
<1>5. ASSUME Len(q) = 1 PROVE ToSet(t) = {}
  <2>1. Len(t) = 0
    BY <1>1, <1>5
  <2>2. \A i \in 1..Len(t) : FALSE
    BY <2>1
  <2>3. \A x : x \notin ToSet(t)
    BY <1>1, <2>2, InToSet
  <2> QED
    BY <2>3
<1>6. ToSet(q) = {Head(q)} \cup ToSet(t)
  BY <1>1, <1>2, <1>3, <1>4, InToSet
<1> QED
  BY <1>5, <1>6 DEF t

HInv ==
  /\ \A h \in Sess : pc[h] # "fan" => peer[h] = NoSess
  /\ ToSet(known) \subseteq ToSet(published)
  /\ \A h \in Sess : pc[h] = "fan" => msg[h] \in ToSet(published)
  /\ \A h \in Sess : ToSet(todo[h]) \subseteq ToSet(published)

\* Nothing is remembered, replayed or fanned out that was not broadcast.
LEMMA HInvStep == TypeOK /\ HInv /\ [Next]_vars => HInv'
<1> SUFFICES ASSUME TypeOK, HInv, [Next]_vars PROVE HInv'
  OBVIOUS
<1> USE NullAssumption DEF TypeOK, HInv, handlers, fanout, history
<1>1. ASSUME NEW h \in Sess,
             Accept(h) \/ Drop(h) \/ Reject(h) \/ Disconnect(h)
               \/ \E n \in Node : Authenticate(h, n)
      PROVE  HInv'
  <2>1. CASE Accept(h) \/ Drop(h)
    BY <2>1 DEF Accept, Drop
  <2>2. CASE Reject(h) \/ Disconnect(h)
    BY <2>2 DEF Reject, Disconnect, HandlerEnds
  <2>3. CASE \E n \in Node : Authenticate(h, n)
    BY <2>3 DEF Authenticate
  <2> QED
    BY <1>1, <2>1, <2>2, <2>3
<1>1a. ASSUME NEW h \in Sess, FanOutSent(h) \/ FanOutClosed(h) \/ FanOutDone(h) PROVE HInv'
  <2>1. CASE FanOutSent(h)
    BY <2>1 DEF FanOutSent
  <2>2. CASE FanOutClosed(h)
    BY <2>2 DEF FanOutClosed
  <2>3. CASE FanOutDone(h)
    BY <2>3 DEF FanOutDone
  <2> QED
    BY <1>1a, <2>1, <2>2, <2>3
<1>1b. ASSUME NEW h \in Sess, NEW n \in Node, FanOut(h, n) PROVE HInv'
  BY <1>1b DEF FanOut
<1>1c. ASSUME NEW h \in Sess, NEW n \in Node, FanOutAborted(h, n) PROVE HInv'
  BY <1>1c DEF FanOutAborted, HandlerEnds
<1>2. ASSUME NEW h \in Sess, Register(h) PROVE HInv'
  BY <1>2 DEF Register
<1>3. ASSUME NEW h \in Sess, Replay(h) PROVE HInv'
  <2>1. ToSet(Tail(todo[h])) \subseteq ToSet(todo[h])
    BY <1>3, HeadTailDebt DEF Replay
  <2> QED
    BY <1>3, <2>1 DEF Replay
<1>4. ASSUME NEW h \in Sess, ReplayClosed(h) PROVE HInv'
  <2>1. ToSet(<<>>) = {}
    BY DEF ToSet
  <2> QED
    BY <1>4, <2>1 DEF ReplayClosed
<1>5. ASSUME NEW h \in Sess, NEW p \in Payload, Dispatch(h, p) PROVE HInv'
  <2>1. ToSet(published') = ToSet(published) \cup {p}
    BY <1>5, AppendSet DEF Dispatch
  <2>2. ToSet(known') \subseteq ToSet(known) \cup {p}
    BY <1>5, RememberType DEF Dispatch
  <2>3. \A t \in Sess : /\ pc'[t] # "fan" => peer'[t] = NoSess
                        /\ pc'[t] = "fan" => msg'[t] \in ToSet(published')
    BY <1>5, <2>1, DispatchType
  <2>4. \A t \in Sess : ToSet(todo'[t]) \subseteq ToSet(published')
    BY <1>5, <2>1 DEF Dispatch
  <2> QED
    BY <2>1, <2>2, <2>3, <2>4
<1>6. CASE Restart
  <2>1. ToSet(<<>>) = {}
    BY DEF ToSet
  <2> QED
    BY <1>6, <2>1 DEF Restart
<1>7. CASE UNCHANGED vars
  BY <1>7 DEF vars
<1> QED
  BY <1>1, <1>1a, <1>1b, <1>1c, <1>2, <1>3, <1>4, <1>5, <1>6, <1>7 DEF Next, HandlerStep

\* The two kinds of debt: what a replay has left, and the fan-outs that concern
\* a socket.
ReplayDebt(t) == IF pc[t] = "sync" THEN ToSet(todo[t]) ELSE {}
Concerns(h, t) ==
  pc[h] = "fan" /\ (peer[h] = t \/ \E n \in targets[h] : connections[n] = t)

\* A socket is owed its replay and the antigens of the fan-outs that concern it.
LEMMA OwedBy ==
  ASSUME NEW t
  PROVE  \A q : q \in Owed(t) <=>
           q \in ReplayDebt(t) \/ \E h \in Sess : Concerns(h, t) /\ q = msg[h]
BY DEF Owed, ReplayDebt, Concerns

\* Every step of a handler, a client or the network is a step of the hub, or
\* none at all.
LEMMA HubStep ==
  TypeOK /\ NoStaleRegistration /\ HInv /\ HInv' /\ [Next]_vars
    => [Hub!Next]_(Hub!hub)
<1> SUFFICES ASSUME TypeOK, NoStaleRegistration, HInv, HInv', [Next]_vars
             PROVE  Hub!Next \/ UNCHANGED Hub!hub
  OBVIOUS
<1> USE NullAssumption DEF handlers, fanout, history
<1>p. \A x \in ToSet(published) : x \in Payload
  <2>1. published \in Seq(Payload)
    BY DEF TypeOK
  <2>2. /\ \A x : x \in ToSet(published) <=> \E i \in 1..Len(published) : published[i] = x
        /\ \A i \in 1..Len(published) : published[i] \in Payload
    BY <2>1, InToSet
  <2> QED
    BY <2>2
<1>o. /\ \A t \in Sess : \A q : q \in Owed(t) <=>
           q \in ReplayDebt(t) \/ \E h \in Sess : Concerns(h, t) /\ q = msg[h]
      /\ \A t \in Sess : \A q : q \in Owed(t)' <=>
           q \in ReplayDebt(t)' \/ \E h \in Sess : Concerns(h, t)' /\ q = msg'[h]
  <2>1. \A t \in Sess : \A q : q \in Owed(t) <=>
           q \in ReplayDebt(t) \/ \E h \in Sess : Concerns(h, t) /\ q = msg[h]
    BY OwedBy
  <2>2. (\A t \in Sess : \A q : q \in Owed(t) <=>
           q \in ReplayDebt(t) \/ \E h \in Sess : Concerns(h, t) /\ q = msg[h])'
    BY DEF Owed, ReplayDebt, Concerns
  <2> QED
    BY <2>1, <2>2
\* A socket whose loops did not change is owed what it was, and less when they
\* only lost something.
<1>less. ASSUME NEW t \in Sess, ReplayDebt(t)' \subseteq ReplayDebt(t),
                \A h \in Sess : Concerns(h, t)' => Concerns(h, t) /\ msg'[h] = msg[h]
         PROVE  \A q \in Owed(t)' : q \in Owed(t)
  BY <1>o, <1>less
<1>same. ASSUME NEW t \in Sess, ReplayDebt(t)' = ReplayDebt(t),
                \A h \in Sess : /\ Concerns(h, t)' <=> Concerns(h, t)
                                /\ Concerns(h, t) => msg'[h] = msg[h]
         PROVE  Owed(t)' = Owed(t)
  <2>1. \A q : q \in Owed(t)' <=> q \in Owed(t)
    BY <1>o, <1>same
  <2> QED
    BY <2>1
<1>1. ASSUME NEW s \in Sess, Accept(s) PROVE Hub!Up(s)
  <2>1. \A t \in Sess : Owed(t)' = Owed(t)
    <3>1. ASSUME NEW t \in Sess PROVE ReplayDebt(t)' = ReplayDebt(t)
      BY <1>1 DEF Accept, ReplayDebt, TypeOK
    <3>2. ASSUME NEW t \in Sess, NEW h \in Sess
          PROVE  (Concerns(h, t)' <=> Concerns(h, t)) /\ (Concerns(h, t) => msg'[h] = msg[h])
      BY <1>1 DEF Accept, Concerns, TypeOK
    <3> QED
      BY <3>1, <3>2, <1>same
  <2>2. \A n \in Node : connections[n] # s
    BY <1>1 DEF Accept, NoStaleRegistration, Live
  <2> QED
    BY <1>1, <2>1, <2>2 DEF Accept, Hub!Up
<1>2. ASSUME NEW s \in Sess, Drop(s) PROVE Hub!Down(s)
  <2>1. \A t \in Sess : Owed(t)' = Owed(t)
    <3>1. ASSUME NEW t \in Sess PROVE ReplayDebt(t)' = ReplayDebt(t)
      BY <1>2 DEF Drop, ReplayDebt, TypeOK
    <3>2. ASSUME NEW t \in Sess, NEW h \in Sess
          PROVE  (Concerns(h, t)' <=> Concerns(h, t)) /\ (Concerns(h, t) => msg'[h] = msg[h])
      BY <1>2 DEF Drop, Concerns, TypeOK
    <3> QED
      BY <3>1, <3>2, <1>same
  <2> QED
    BY <1>2, <2>1 DEF Drop, Hub!Down
<1>3. ASSUME NEW s \in Sess, NEW n \in Node, Authenticate(s, n)
      PROVE  UNCHANGED Hub!hub
  <2>1. \A t \in Sess : Owed(t)' = Owed(t)
    <3>1. ASSUME NEW t \in Sess PROVE ReplayDebt(t)' = ReplayDebt(t)
      BY <1>3 DEF Authenticate, ReplayDebt, TypeOK
    <3>2. ASSUME NEW t \in Sess, NEW h \in Sess
          PROVE  (Concerns(h, t)' <=> Concerns(h, t)) /\ (Concerns(h, t) => msg'[h] = msg[h])
      BY <1>3 DEF Authenticate, Concerns, TypeOK
    <3> QED
      BY <3>1, <3>2, <1>same
  <2> QED
    BY <1>3, <2>1 DEF Authenticate, Hub!hub
<1>4. ASSUME NEW s \in Sess, NEW p \in Payload, Dispatch(s, p)
      PROVE  Hub!Publish(who[s], s, p) /\ who[s] \in Node /\ p \in ToSet(published')
  <2>1. who[s] \in Node /\ pc[s] = "recv" /\ peer[s] = NoSess
    BY <1>4 DEF Dispatch, TypeOK, HInv
  <2>2. ToSet(published)' = ToSet(published) \cup {p}
    BY <1>4, AppendSet DEF Dispatch, TypeOK
  <2>3. p \in ToSet(known)' /\ ToSet(known)' \subseteq ToSet(known) \cup {p}
    BY <1>4, RememberType, RememberHas DEF Dispatch, TypeOK
  <2>4. ASSUME NEW t \in Sess
        PROVE  Owed(t)' = IF \E m \in Node \ {who[s]} : connections[m] = t
                          THEN Owed(t) \cup {p} ELSE Owed(t)
    <3>1. /\ connections' = connections /\ todo' = todo
          /\ \A h \in Sess \ {s} : /\ pc'[h] = pc[h] /\ msg'[h] = msg[h]
                                   /\ targets'[h] = targets[h] /\ peer'[h] = peer[h]
      BY <1>4 DEF Dispatch, TypeOK
    <3>2. /\ Concerns(s, t)' <=> \E m \in Node \ {who[s]} : connections[m] = t
          /\ Concerns(s, t)' => msg'[s] = p
      <4> DEFINE others == {m \in Node : connections[m] # NoSess /\ m # who[s]}
      <4>1. CASE others = {}
        BY <1>4, <2>1, <4>1 DEF Dispatch, Concerns
      <4>2. CASE others # {}
        <5>1. PICK n \in others : /\ pc' = [pc EXCEPT ![s] = "fan"]
                                  /\ msg' = [msg EXCEPT ![s] = p]
                                  /\ targets' = [targets EXCEPT ![s] = others \ {n}]
                                  /\ peer' = [peer EXCEPT ![s] = connections[n]]
          BY <1>4, <4>2 DEF Dispatch
        <5>2. pc'[s] = "fan" /\ msg'[s] = p /\ targets'[s] = others \ {n} /\ peer'[s] = connections[n]
          BY <5>1 DEF TypeOK
        <5>3. (peer'[s] = t \/ \E m \in targets'[s] : connections[m] = t)
                <=> \E m \in Node \ {who[s]} : connections[m] = t
          BY <5>2
        <5> QED
          BY <3>1, <5>2, <5>3 DEF Concerns
      <4> QED
        BY <4>1, <4>2
    <3>3. ReplayDebt(t)' = ReplayDebt(t) /\ ~Concerns(s, t)
      <4>1. pc'[t] = "sync" <=> pc[t] = "sync"
        BY <1>4, <2>1 DEF Dispatch, TypeOK
      <4> QED
        BY <2>1, <3>1, <4>1 DEF ReplayDebt, Concerns
    <3>4. ASSUME NEW h \in Sess \ {s}
          PROVE  (Concerns(h, t)' <=> Concerns(h, t)) /\ msg'[h] = msg[h]
      BY <3>1 DEF Concerns
    <3>5. \A q : q \in Owed(t)' <=>
                  q \in Owed(t) \/ (q = p /\ \E m \in Node \ {who[s]} : connections[m] = t)
      BY <1>o, <3>2, <3>3, <3>4
    <3>6. CASE \E m \in Node \ {who[s]} : connections[m] = t
      <4>1. Owed(t)' = Owed(t) \cup {p}
        BY <3>5, <3>6
      <4> QED
        BY <3>6, <4>1
    <3>7. CASE ~ \E m \in Node \ {who[s]} : connections[m] = t
      <4>1. Owed(t)' = Owed(t)
        BY <3>5, <3>7
      <4> QED
        BY <3>7, <4>1
    <3> QED
      BY <3>6, <3>7
  <2>5. /\ has' = [has EXCEPT ![s] = @ \cup {p}]
        /\ skipped' \cup unechoed'
             = skipped \cup unechoed \cup {<<t, p>> : t \in {connections[who[s]]} \ {s, NoSess}}
        /\ UNCHANGED <<connections, open>>
    BY <1>4 DEF Dispatch
  <2> QED
    BY <2>1, <2>2, <2>3, <2>4, <2>5 DEF Hub!Publish
<1>5. CASE Restart
  <2>1. ToSet(<<>>) = {}
    BY DEF ToSet
  <2>2. \A t \in Sess : Owed(t)' = {}
    BY <1>5, <1>o DEF Restart, ReplayDebt, Concerns
  <2>3. Hub!Reset
    BY <1>5, <2>1, <2>2 DEF Restart, Hub!Reset
  <2> QED
    BY <2>3 DEF Hub!Next
<1>6. ASSUME NEW s \in Sess, Reject(s) PROVE Hub!Leave(s)
  <2>a. \A n \in Node : connections[n] # s
    BY <1>6 DEF Reject, NoStaleRegistration, Live
  <2>1. connections' = connections /\ \A n \in Node : connections[n] # s
    BY <1>6, <2>a DEF Reject, HandlerEnds, Unregister, TypeOK
  <2>2. \A t \in Sess : Owed(t)' = Owed(t)
    <3>1. ASSUME NEW t \in Sess PROVE ReplayDebt(t)' = ReplayDebt(t)
      BY <1>6, <2>1 DEF Reject, HandlerEnds, ReplayDebt, TypeOK
    <3>2. ASSUME NEW t \in Sess, NEW h \in Sess
          PROVE  (Concerns(h, t)' <=> Concerns(h, t)) /\ (Concerns(h, t) => msg'[h] = msg[h])
      BY <1>6, <2>1 DEF Reject, HandlerEnds, Concerns, TypeOK
    <3> QED
      BY <3>1, <3>2, <1>same
  <2> QED
    BY <1>6, <2>1, <2>2 DEF Reject, HandlerEnds, Hub!Leave, TypeOK
<1>7. ASSUME NEW s \in Sess, Register(s) PROVE Hub!Join(who[s], s) /\ who[s] \in Node
  <2>1. who[s] \in Node /\ ToSet(<<>>) = {}
    BY <1>7 DEF Register, TypeOK, ToSet
  <2>2. \A q \in ToSet(known) : q \in Owed(s)'
    BY <1>7, <1>o, <2>1 DEF Register, ReplayDebt, TypeOK
  <2>3. \A q \in Owed(s)' : q \in ToSet(published)
    BY <1>7, <1>o DEF Register, HInv, ReplayDebt, Concerns, TypeOK
  <2>4. ASSUME NEW t \in Sess \ {s} PROVE \A q \in Owed(t)' : q \in Owed(t)
    <3>1. ReplayDebt(t)' = ReplayDebt(t)
      BY <1>7 DEF Register, ReplayDebt, TypeOK
    <3>2. ASSUME NEW h \in Sess PROVE Concerns(h, t)' => Concerns(h, t) /\ msg'[h] = msg[h]
      BY <1>7 DEF Register, Concerns, TypeOK
    <3> QED
      BY <3>1, <3>2, <1>less
  <2>5. ASSUME NEW t \in Sess \ {s, connections[who[s]]} PROVE Owed(t)' = Owed(t)
    <3>1. ReplayDebt(t)' = ReplayDebt(t)
      BY <1>7 DEF Register, ReplayDebt, TypeOK
    <3>2. ASSUME NEW h \in Sess
          PROVE  (Concerns(h, t)' <=> Concerns(h, t)) /\ (Concerns(h, t) => msg'[h] = msg[h])
      BY <1>7, <2>1 DEF Register, Concerns, TypeOK
    <3> QED
      BY <3>1, <3>2, <1>same
  <2>6. /\ connections' = [connections EXCEPT ![who[s]] = s]
        /\ UNCHANGED <<open, known, has, skipped, unechoed, published>>
    BY <1>7 DEF Register
  <2>7. \A m \in Node \ {who[s]} : connections[m] # s
    BY DEF NoStaleRegistration
  <2> QED
    BY <2>1, <2>2, <2>3, <2>4, <2>5, <2>6, <2>7 DEF Hub!Join, Hub!OwesTheSameExcept
<1>8. ASSUME NEW s \in Sess, Replay(s)
      PROVE  Hub!Deliver(s, Head(todo[s])) /\ Head(todo[s]) \in ToSet(published)
  <2>1. /\ ToSet(todo[s]) = {Head(todo[s])} \cup ToSet(Tail(todo[s]))
        /\ Len(todo[s]) = 1 => ToSet(Tail(todo[s])) = {}
    BY <1>8, HeadTailDebt DEF Replay, TypeOK
  <2>2. Head(todo[s]) \in ToSet(published) /\ Head(todo[s]) \in Owed(s)
    BY <1>8, <1>o, <2>1 DEF Replay, HInv, ReplayDebt
  <2>3. Owed(s)' = Owed(s) \/ Owed(s)' = Owed(s) \ {Head(todo[s])}
    <3>1. /\ ReplayDebt(s) = {Head(todo[s])} \cup ToSet(Tail(todo[s]))
          /\ ReplayDebt(s)' = ToSet(Tail(todo[s]))
      BY <1>8, <2>1 DEF Replay, ReplayDebt, TypeOK
    <3>2. ASSUME NEW h \in Sess
          PROVE  (Concerns(h, s)' <=> Concerns(h, s)) /\ msg'[h] = msg[h]
      BY <1>8 DEF Replay, Concerns, TypeOK
    <3>3. \A q : q \in Owed(s) => q = Head(todo[s]) \/ q \in Owed(s)'
      BY <1>o, <3>1, <3>2
    <3>4. \A q : q \in Owed(s)' => q \in Owed(s)
      BY <1>o, <3>1, <3>2
    <3> QED
      BY <3>3, <3>4
  <2>4. \A t \in Sess \ {s} : Owed(t)' = Owed(t)
    <3>1. ASSUME NEW t \in Sess \ {s} PROVE ReplayDebt(t)' = ReplayDebt(t)
      BY <1>8 DEF Replay, ReplayDebt, TypeOK
    <3>2. ASSUME NEW t \in Sess \ {s}, NEW h \in Sess
          PROVE  (Concerns(h, t)' <=> Concerns(h, t)) /\ (Concerns(h, t) => msg'[h] = msg[h])
      BY <1>8 DEF Replay, Concerns, TypeOK
    <3> QED
      BY <3>1, <3>2, <1>same
  <2> QED
    BY <1>8, <2>2, <2>3, <2>4 DEF Replay, Hub!Deliver, Hub!OwesTheSameExcept
<1>9. ASSUME NEW s \in Sess, ReplayClosed(s) PROVE Hub!Forget(s)
  <2>1. \A q \in Owed(s)' : q \in Owed(s)
    <3>1. ReplayDebt(s)' \subseteq ReplayDebt(s)
      BY <1>9 DEF ReplayClosed, ReplayDebt, TypeOK
    <3>2. ASSUME NEW h \in Sess
          PROVE  Concerns(h, s)' => Concerns(h, s) /\ msg'[h] = msg[h]
      BY <1>9 DEF ReplayClosed, Concerns, TypeOK
    <3> QED
      BY <3>1, <3>2, <1>less
  <2>2. \A t \in Sess \ {s} : Owed(t)' = Owed(t)
    <3>1. ASSUME NEW t \in Sess \ {s} PROVE ReplayDebt(t)' = ReplayDebt(t)
      BY <1>9 DEF ReplayClosed, ReplayDebt, TypeOK
    <3>2. ASSUME NEW t \in Sess \ {s}, NEW h \in Sess
          PROVE  (Concerns(h, t)' <=> Concerns(h, t)) /\ (Concerns(h, t) => msg'[h] = msg[h])
      BY <1>9 DEF ReplayClosed, Concerns, TypeOK
    <3> QED
      BY <3>1, <3>2, <1>same
  <2> QED
    BY <1>9, <2>1, <2>2 DEF ReplayClosed, Hub!Forget, Hub!OwesTheSameExcept
<1>10. ASSUME NEW s \in Sess, FanOutSent(s), NEW k, k = peer[s], NEW p, p = msg[s]
       PROVE  Hub!Deliver(k, p) /\ k \in Sess /\ p \in ToSet(published)
  <2>1. k \in Sess /\ k \in open /\ p \in ToSet(published) /\ p \in Owed(k)
    <3>1. k \in Sess /\ k \in open /\ Concerns(s, k)
      BY <1>10 DEF FanOutSent, TypeOK, Concerns
    <3> QED
      BY <1>10, <1>o, <3>1 DEF HInv, Concerns
  <2>2. /\ \A q \in Owed(k)' : q \in Owed(k)
        /\ \A q \in Owed(k) : q = p \/ q \in Owed(k)'
    <3>1. ReplayDebt(k)' = ReplayDebt(k)
      BY <1>10 DEF FanOutSent, ReplayDebt
    <3>2. ASSUME NEW h \in Sess
          PROVE  /\ Concerns(h, k)' => Concerns(h, k)
                 /\ Concerns(h, k) /\ h # s => Concerns(h, k)'
                 /\ msg'[h] = msg[h]
      BY <1>10 DEF FanOutSent, Concerns, TypeOK
    <3> QED
      BY <1>10, <1>o, <2>1, <3>1, <3>2
  <2>3. \A t \in Sess \ {k} : Owed(t)' = Owed(t)
    <3>1. ASSUME NEW t \in Sess \ {k} PROVE ReplayDebt(t)' = ReplayDebt(t)
      BY <1>10 DEF FanOutSent, ReplayDebt, TypeOK
    <3>2. ASSUME NEW t \in Sess \ {k}, NEW h \in Sess
          PROVE  (Concerns(h, t)' <=> Concerns(h, t)) /\ (Concerns(h, t) => msg'[h] = msg[h])
      BY <1>10 DEF FanOutSent, Concerns, TypeOK
    <3> QED
      BY <3>1, <3>2, <1>same
  <2>4. Owed(k)' = Owed(k) \/ Owed(k)' = Owed(k) \ {p}
    BY <2>2
  <2>5. has' = [has EXCEPT ![k] = @ \cup {p}] /\ UNCHANGED <<connections, open, known, skipped, unechoed, published>>
    BY <1>10 DEF FanOutSent
  <2> QED
    BY <2>1, <2>3, <2>4, <2>5 DEF Hub!Deliver, Hub!OwesTheSameExcept
<1>11. ASSUME NEW s \in Sess, FanOutClosed(s), NEW k, k = peer[s]
       PROVE  Hub!Forget(k) /\ k \in Sess
  <2>1. k \in Sess \ open
    BY <1>11 DEF FanOutClosed
  <2>2. \A q \in Owed(k)' : q \in Owed(k)
    <3>1. ReplayDebt(k)' = ReplayDebt(k)
      BY <1>11 DEF FanOutClosed, ReplayDebt
    <3>2. ASSUME NEW h \in Sess PROVE Concerns(h, k)' => Concerns(h, k) /\ msg'[h] = msg[h]
      BY <1>11 DEF FanOutClosed, Concerns, TypeOK
    <3> QED
      BY <2>1, <3>1, <3>2, <1>less
  <2>3. \A t \in Sess \ {k} : Owed(t)' = Owed(t)
    <3>1. ASSUME NEW t \in Sess \ {k} PROVE ReplayDebt(t)' = ReplayDebt(t)
      BY <1>11 DEF FanOutClosed, ReplayDebt, TypeOK
    <3>2. ASSUME NEW t \in Sess \ {k}, NEW h \in Sess
          PROVE  (Concerns(h, t)' <=> Concerns(h, t)) /\ (Concerns(h, t) => msg'[h] = msg[h])
      BY <1>11 DEF FanOutClosed, Concerns, TypeOK
    <3> QED
      BY <3>1, <3>2, <1>same
  <2> QED
    BY <1>11, <2>1, <2>2, <2>3 DEF FanOutClosed, Hub!Forget, Hub!OwesTheSameExcept
<1>12. ASSUME NEW s \in Sess, FanOutDone(s) PROVE UNCHANGED Hub!hub
  <2>1. \A t \in Sess : Owed(t)' = Owed(t)
    <3>1. ASSUME NEW t \in Sess PROVE ReplayDebt(t)' = ReplayDebt(t)
      BY <1>12 DEF FanOutDone, ReplayDebt, TypeOK
    <3>2. ASSUME NEW t \in Sess, NEW h \in Sess
          PROVE  (Concerns(h, t)' <=> Concerns(h, t)) /\ (Concerns(h, t) => msg'[h] = msg[h])
      BY <1>12 DEF FanOutDone, Concerns, TypeOK
    <3> QED
      BY <3>1, <3>2, <1>same
  <2> QED
    BY <1>12, <2>1 DEF FanOutDone, Hub!hub
<1>13. ASSUME NEW s \in Sess, Disconnect(s) PROVE Hub!Leave(s)
  <2>1. connections' = [n \in Node |-> IF connections[n] = s THEN NoSess ELSE connections[n]]
    BY <1>13 DEF Disconnect, HandlerEnds, Unregister, NoStaleRegistration
  <2>2. \A t \in Sess \ {s} : Owed(t)' = Owed(t)
    <3>1. ASSUME NEW t \in Sess \ {s} PROVE ReplayDebt(t)' = ReplayDebt(t)
      BY <1>13 DEF Disconnect, HandlerEnds, ReplayDebt, TypeOK
    <3>2. ASSUME NEW t \in Sess \ {s}, NEW h \in Sess
          PROVE  (Concerns(h, t)' <=> Concerns(h, t)) /\ (Concerns(h, t) => msg'[h] = msg[h])
      BY <1>13, <2>1 DEF Disconnect, HandlerEnds, Concerns, TypeOK
    <3> QED
      BY <3>1, <3>2, <1>same
  <2>3. \A q \in Owed(s)' : q \in Owed(s)
    <3>1. ReplayDebt(s)' \subseteq ReplayDebt(s)
      BY <1>13 DEF Disconnect, HandlerEnds, ReplayDebt, TypeOK
    <3>2. ASSUME NEW h \in Sess PROVE Concerns(h, s)' => Concerns(h, s) /\ msg'[h] = msg[h]
      BY <1>13, <2>1 DEF Disconnect, HandlerEnds, Concerns, TypeOK
    <3> QED
      BY <3>1, <3>2, <1>less
  <2> QED
    BY <1>13, <2>1, <2>2, <2>3 DEF Disconnect, HandlerEnds, Hub!Leave, TypeOK
<1>14. ASSUME NEW s \in Sess, NEW n \in Node, FanOut(s, n) PROVE UNCHANGED Hub!hub
  <2>1. \A t \in Sess : Owed(t)' = Owed(t)
    <3>1. /\ pc[s] = "fan" /\ peer[s] = NoSess /\ n \in targets[s] /\ connections[n] # NoSess
          /\ targets'[s] = targets[s] \ {n} /\ peer'[s] = connections[n]
          /\ \A h \in Sess \ {s} : targets'[h] = targets[h] /\ peer'[h] = peer[h]
          /\ UNCHANGED <<pc, todo, msg, connections>>
      BY <1>14 DEF FanOut, TypeOK
    <3>2. ASSUME NEW t \in Sess, NEW h \in Sess
          PROVE  (peer'[h] = t \/ \E m \in targets'[h] : connections'[m] = t)
                   <=> (peer[h] = t \/ \E m \in targets[h] : connections[m] = t)
      BY <3>1
    <3>3. ASSUME NEW t \in Sess, NEW h \in Sess
          PROVE  (Concerns(h, t)' <=> Concerns(h, t)) /\ (Concerns(h, t) => msg'[h] = msg[h])
      BY <3>1, <3>2 DEF Concerns
    <3>4. ASSUME NEW t \in Sess PROVE ReplayDebt(t)' = ReplayDebt(t)
      BY <3>1 DEF ReplayDebt
    <3> QED
      BY <3>3, <3>4, <1>same
  <2> QED
    BY <1>14, <2>1 DEF FanOut, Hub!hub
<1>15. ASSUME NEW s \in Sess, NEW n \in Node, FanOutAborted(s, n) PROVE Hub!Leave(s)
  <2>1. connections' = [m \in Node |-> IF connections[m] = s THEN NoSess ELSE connections[m]]
    BY <1>15 DEF FanOutAborted, HandlerEnds, Unregister, NoStaleRegistration
  <2>2. /\ pc'[s] = "closed" /\ pc[s] = "fan" /\ peer[s] = NoSess
        /\ \A h \in Sess \ {s} : pc'[h] = pc[h] /\ msg'[h] = msg[h] /\ targets'[h] = targets[h]
        /\ UNCHANGED <<todo, peer, known, published>>
        /\ open' = open \ {s} /\ has' = [has EXCEPT ![s] = {}]
    BY <1>15 DEF FanOutAborted, HandlerEnds, TypeOK
  <2>a. ASSUME NEW t \in Sess
        PROVE  /\ ReplayDebt(t)' = ReplayDebt(t)
               /\ \A h \in Sess : Concerns(h, t)' => Concerns(h, t) /\ msg'[h] = msg[h]
               /\ t # s => \A h \in Sess \ {s} : Concerns(h, t)' <=> Concerns(h, t)
    <3>1. ReplayDebt(t)' = ReplayDebt(t)
      BY <2>2 DEF ReplayDebt
    <3>2. \A m \in Node : connections'[m] = t /\ t # NoSess => connections[m] = t
      BY <2>1
    <3>3. t # s => \A m \in Node : connections'[m] = t <=> connections[m] = t
      BY <2>1
    <3>4. \A h \in Sess : targets[h] \subseteq Node
      BY DEF TypeOK
    <3> QED
      BY <2>2, <3>1, <3>2, <3>3, <3>4 DEF Concerns
  <2>3. ASSUME NEW t \in Sess PROVE \A q \in Owed(t)' : q \in Owed(t)
    BY <2>a, <1>less
  <2>4. ASSUME NEW t \in Sess \ {s}, NEW q \in Owed(t), q \notin Owed(t)'
        PROVE  <<t, q>> \in skipped'
    <3>1. q \notin ReplayDebt(t)
      BY <1>o, <2>a, <2>4
    <3>2. PICK h \in Sess : Concerns(h, t) /\ q = msg[h]
      BY <1>o, <3>1
    <3>3. h = s
      BY <1>o, <2>a, <2>2, <2>4, <3>2
    <3>4. PICK m \in targets[s] : connections[m] = t /\ q = msg[s]
      BY <2>2, <3>2, <3>3 DEF Concerns
    <3>5. <<t, q>> \in {<<connections[k], msg[s]>> : k \in targets[s]}
      BY <3>4
    <3>6. <<t, q>>[1] \notin {s, NoSess}
      OBVIOUS
    <3> QED
      BY <1>15, <3>5, <3>6 DEF FanOutAborted
  <2>5. \A x \in skipped \cup unechoed : x \in skipped' \cup unechoed' \/ x[1] = s
    BY <1>15 DEF FanOutAborted, TypeOK
  <2>6. ASSUME NEW x \in skipped', x \notin skipped PROVE x[2] \in Owed(x[1])
    <3>1. PICK m \in targets[s] : x = <<connections[m], msg[s]>> /\ x[1] \notin {s, NoSess}
      BY <1>15, <2>6 DEF FanOutAborted
    <3>2. connections[m] \in Sess /\ m \in Node
      BY <3>1 DEF TypeOK
    <3>3. msg[s] \in Owed(connections[m])
      BY <1>o, <2>2, <3>1, <3>2 DEF Concerns
    <3> QED
      BY <3>1, <3>3
  <2>7. \A x \in skipped' \cup unechoed' :
          x \in skipped \cup unechoed \/ (x[2] \in Owed(x[1]) /\ x[1] \in Sess)
    BY <1>15, <2>6 DEF FanOutAborted, TypeOK
  <2> QED
    BY <2>1, <2>2, <2>3, <2>4, <2>5, <2>7 DEF Hub!Leave
<1>16. CASE UNCHANGED vars
  <2>1. \A t \in Sess : Owed(t)' = Owed(t)
    <3>1. ASSUME NEW t \in Sess PROVE ReplayDebt(t)' = ReplayDebt(t)
      BY <1>16 DEF vars, ReplayDebt, TypeOK
    <3>2. ASSUME NEW t \in Sess, NEW h \in Sess
          PROVE  (Concerns(h, t)' <=> Concerns(h, t)) /\ (Concerns(h, t) => msg'[h] = msg[h])
      BY <1>16 DEF vars, Concerns, TypeOK
    <3> QED
      BY <3>1, <3>2, <1>same
  <2> QED
    BY <1>16, <2>1 DEF vars, Hub!hub
<1> QED
  BY <1>1, <1>2, <1>3, <1>4, <1>5, <1>6, <1>7, <1>8, <1>9, <1>10, <1>11, <1>12,
     <1>13, <1>14, <1>15, <1>16 DEF Next, HandlerStep, Hub!Next

\* The relay implements the hub, for any number of nodes, sockets, broadcasts
\* and restarts: every step of its interleaved handlers is a step of the hub
\* on the debts they hold, or none at all.
THEOREM RelayImplementsHub == Spec => ImplementsHub
<1>1. Init => Hub!Init
  <2>1. ToSet(<<>>) = {}
    BY DEF ToSet
  <2>2. ASSUME Init PROVE \A t \in Sess : Owed(t) = {}
    BY <2>1, <2>2 DEF Init, Owed
  <2> QED
    BY <2>1, <2>2 DEF Init, Hub!Init
<1>2. Init => HInv
  BY DEF Init, HInv, ToSet
<1>3. Spec => []HInv
  BY <1>2, HInvStep, TypeCorrect, PTL DEF Spec
<1> QED
  BY <1>1, <1>3, HubStep, TypeCorrect, RegistrationsAreLive, PTL
  DEF Spec, ImplementsHub, Hub!Spec

-----------------------------------------------------------------------------
(* What the hub promises follows from the hub's own steps: what is proved   *)
(* of it here uses none of the relay's handlers.                            *)

\* Every node sits alone on its socket; inboxes and what nodes have are kept
\* per socket.
HubInv ==
  /\ Hub!Promise
  /\ connections \in [Node -> Sess \cup {NoSess}]
  /\ \A m, n \in Node : m # n => connections[m] # connections[n] \/ connections[m] = NoSess
  /\ open \subseteq Sess /\ DOMAIN has = Sess

\* No step of the hub breaks its promise.
LEMMA HubPromiseStep == HubInv /\ [Hub!Next]_(Hub!hub) => HubInv'
<1> SUFFICES ASSUME HubInv, [Hub!Next]_(Hub!hub) PROVE HubInv'
  OBVIOUS
<1> USE NullAssumption DEF HubInv, Hub!Promise
<1>1. ASSUME NEW s \in Sess, Hub!Up(s) \/ Hub!Down(s) PROVE HubInv'
  BY <1>1 DEF Hub!Up, Hub!Down
<1>2. ASSUME NEW s \in Sess, Hub!Forget(s) PROVE HubInv'
  BY <1>2 DEF Hub!Forget, Hub!OwesTheSameExcept
<1>3. ASSUME NEW s \in Sess, Hub!Leave(s) PROVE HubInv'
  <2>1. ASSUME NEW k \in Node, connections'[k] \in open'
        PROVE  /\ connections'[k] = connections[k] /\ connections[k] \in open
               /\ connections[k] \in Sess \ {s}
    BY <1>3, <2>1 DEF Hub!Leave
  <2>2. ASSUME NEW t \in Sess \ {s}, NEW p \in ToSet(known)',
               p \in has[t] \cup Owed(t) \/ <<t, p>> \in skipped \cup unechoed
        PROVE  p \in has'[t] \cup Owed(t)' \/ <<t, p>> \in skipped' \cup unechoed'
    <3>1. has'[t] = has[t]
      BY <1>3 DEF Hub!Leave
    <3>2. p \in Owed(t) => p \in Owed(t)' \/ <<t, p>> \in skipped' \cup unechoed'
      BY <1>3 DEF Hub!Leave
    <3>3. <<t, p>> \in skipped \cup unechoed => <<t, p>> \in skipped' \cup unechoed'
      BY <1>3 DEF Hub!Leave
    <3> QED
      BY <2>2, <3>1, <3>2, <3>3
  <2>3. ToSet(known)' = ToSet(known)
    BY <1>3 DEF Hub!Leave
  <2>4. (Hub!Promise)'
    BY <2>1, <2>2, <2>3
  <2> QED
    BY <1>3, <2>4 DEF Hub!Leave
<1>4. ASSUME NEW s \in Sess, NEW n \in Node, Hub!Join(n, s) PROVE HubInv'
  BY <1>4 DEF Hub!Join, Hub!OwesTheSameExcept
<1>5. ASSUME NEW n \in Node, NEW s \in Sess, NEW p, Hub!Publish(n, s, p) PROVE HubInv'
  <2>1. /\ UNCHANGED <<connections, open>> /\ DOMAIN has' = Sess
        /\ skipped \cup unechoed \subseteq skipped' \cup unechoed'
    BY <1>5 DEF Hub!Publish
  <2>2. ASSUME NEW k \in Node, connections[k] \in open
        PROVE  /\ has[connections[k]] \subseteq has'[connections[k]]
               /\ Owed(connections[k]) \subseteq Owed(connections[k])'
               /\ \/ p \in has'[connections[k]] \cup Owed(connections[k])'
                  \/ <<connections[k], p>> \in skipped' \cup unechoed'
    <3>1. connections[k] \in Sess \ {NoSess}
      BY <2>2
    <3>2. /\ has[connections[k]] \subseteq has'[connections[k]]
          /\ Owed(connections[k]) \subseteq Owed(connections[k])'
      BY <1>5, <3>1 DEF Hub!Publish
    <3>3. CASE k # n
      BY <1>5, <3>1, <3>2, <3>3 DEF Hub!Publish
    <3>4. CASE k = n /\ connections[k] = s
      BY <1>5, <3>1, <3>2, <3>4 DEF Hub!Publish
    <3>5. CASE k = n /\ connections[k] # s
      BY <1>5, <3>1, <3>2, <3>5 DEF Hub!Publish
    <3> QED
      BY <3>2, <3>3, <3>4, <3>5
  <2>3. \A q \in ToSet(known)' : q = p \/ q \in ToSet(known)
    BY <1>5 DEF Hub!Publish
  <2> QED
    BY <2>1, <2>2, <2>3
<1>6. ASSUME NEW s \in Sess, NEW p, Hub!Deliver(s, p) PROVE HubInv'
  BY <1>6 DEF Hub!Deliver, Hub!OwesTheSameExcept
<1>7. CASE Hub!Reset
  BY <1>7 DEF Hub!Reset
<1>8. CASE UNCHANGED Hub!hub
  BY <1>8 DEF Hub!hub
<1> QED
  BY <1>1, <1>2, <1>3, <1>4, <1>5, <1>6, <1>7, <1>8 DEF Hub!Next

\* The abstract hub keeps its promise, whatever implements it.
THEOREM HubKeepsPromise == Hub!Spec => []Hub!Promise
<1>1. Hub!Init => HubInv
  BY NullAssumption DEF Hub!Init, HubInv, Hub!Promise
<1>2. HubInv => Hub!Promise
  BY DEF HubInv
<1> QED
  BY <1>1, <1>2, HubPromiseStep, PTL DEF Hub!Spec

\* So the relay keeps it.
COROLLARY RelayKeepsPromise == Spec => []Hub!Promise
BY RelayImplementsHub, HubKeepsPromise, PTL DEF ImplementsHub
-----------------------------------------------------------------------------
(* The store's content.  A counting property is not inductive as it stands; *)
(* what the dict keeps from one report to the next is an order: its entries *)
(* are the latest reports of their hashes, and what is missing is older     *)
(* than all of them.                                                        *)

\* The store d lists reports of q at positions of L, oldest first, by at; once
\* it has m of them, older ones of L may be missing.
Lists(d, q, L, at, m) ==
  /\ at \in [1..Len(d) -> L]
  /\ \A j, k \in 1..Len(d) : j < k => at[j] < at[k]
  /\ \A j \in 1..Len(d) : d[j] = q[at[j]]
  /\ \A i \in L : \/ \E j \in 1..Len(d) : at[j] = i
                  \/ Len(d) >= m /\ \A j \in 1..Len(d) : i < at[j]

StoreInv ==
  /\ Len(known) <= MaxKnown
  /\ \E at : Lists(known, published, Latest(published), at, MaxKnown)

\* The reports that are still the latest of their hash when one for the hash
\* key follows.
Others(q, key) == {i \in Latest(q) : KeyOf[q[i]] # key}

\* Popping a hash takes its report out of the list, if the store has it.
LEMMA PopLists ==
  ASSUME NEW d \in Seq(Payload), NEW q \in Seq(Payload), NEW key, NEW at,
         Lists(d, q, Latest(q), at, MaxKnown), Len(d) <= MaxKnown
  PROVE  /\ Pop(d, key) \in Seq(Payload)
         /\ Len(Pop(d, key)) <= MaxKnown
         /\ \E new : Lists(Pop(d, key), q, Others(q, key), new, MaxKnown - 1)
<1> DEFINE e == Pop(d, key)
<1>1. /\ Len(d) \in Nat /\ Len(q) \in Nat /\ MaxKnown \in Nat \ {0}
      /\ DOMAIN d = 1..Len(d)
      /\ Latest(q) \subseteq 1..Len(q)
      /\ \A j \in 1..Len(d) : at[j] \in Latest(q) /\ at[j] \in Int
  BY CacheAssumption, InToSet DEF Latest, Lists
<1>2. CASE \E i \in DOMAIN d : KeyOf[d[i]] = key
  <2> DEFINE x == CHOOSE i \in DOMAIN d : KeyOf[d[i]] = key
             new == [j \in 1..(Len(d) - 1) |-> IF j < x THEN at[j] ELSE at[j + 1]]
  <2>1. x \in 1..Len(d) /\ KeyOf[d[x]] = key
    BY <1>1, <1>2
  <2>2. e = RemoveAt(d, x)
    BY <1>2 DEF Pop
  <2> HIDE DEF x, e
  <2>3. /\ e \in Seq(Payload) /\ Len(e) = Len(d) - 1
        /\ \A j \in 1..(Len(d) - 1) : e[j] = IF j < x THEN d[j] ELSE d[j + 1]
    BY <2>1, <2>2, RemoveAtType
  <2>4. \A j \in 1..Len(d) : j # x => at[j] \in Others(q, key)
    <3>1. SUFFICES ASSUME NEW j \in 1..Len(d), j # x, KeyOf[q[at[j]]] = key
                   PROVE  FALSE
      BY <1>1 DEF Others
    <3>2. KeyOf[q[at[x]]] = key
      BY <2>1 DEF Lists
    <3>3. at[j] < at[x] \/ at[x] < at[j]
      BY <1>1, <2>1, <3>1 DEF Lists
    <3> QED
      BY <1>1, <2>1, <3>1, <3>2, <3>3 DEF Latest
  <2>5. \A j \in 1..Len(e) : /\ j < x => j \in 1..Len(d) /\ j # x
                             /\ ~(j < x) => j + 1 \in 1..Len(d) /\ j + 1 # x
    BY <1>1, <2>1, <2>3
  <2>6. new \in [1..Len(e) -> Others(q, key)]
    BY <2>3, <2>4, <2>5
  <2>7. \A j, k \in 1..Len(e) : j < k => new[j] < new[k]
    <3> SUFFICES ASSUME NEW j \in 1..Len(e), NEW k \in 1..Len(e), j < k
                 PROVE  new[j] < new[k]
      OBVIOUS
    <3>1. CASE k < x
      BY <1>1, <2>1, <2>3, <2>5, <3>1 DEF Lists
    <3>2. CASE ~(k < x) /\ j < x
      BY <2>1, <2>3, <2>5, <3>2 DEF Lists
    <3>3. CASE ~(j < x)
      BY <2>1, <2>3, <2>5, <3>3 DEF Lists
    <3> QED
      BY <2>1, <3>1, <3>2, <3>3
  <2>8. \A j \in 1..Len(e) : e[j] = q[new[j]]
    BY <2>3, <2>5 DEF Lists
  <2>9. ASSUME NEW i \in Others(q, key)
        PROVE  \/ \E j \in 1..Len(e) : new[j] = i
               \/ Len(e) >= MaxKnown - 1 /\ \A j \in 1..Len(e) : i < new[j]
    <3>1. CASE \E j \in 1..Len(d) : at[j] = i
      <4>1. PICK j \in 1..Len(d) : at[j] = i
        BY <3>1
      <4>2. j # x
        BY <2>1, <4>1 DEF Others, Lists
      <4>3. CASE j < x
        BY <1>1, <2>1, <2>3, <4>1, <4>3
      <4>4. CASE j > x
        <5>1. j - 1 \in 1..(Len(d) - 1) /\ ~(j - 1 < x) /\ (j - 1) + 1 = j
          BY <1>1, <2>1, <4>4
        <5>2. new[j - 1] = at[j]
          BY <5>1
        <5> QED
          BY <2>3, <4>1, <5>1, <5>2
      <4>5. j < x \/ j > x
        BY <1>1, <2>1, <4>2
      <4> QED
        BY <4>2, <4>3, <4>4, <4>5
    <3>2. CASE Len(d) >= MaxKnown /\ \A j \in 1..Len(d) : i < at[j]
      BY <1>1, <2>3, <2>5, <3>2
    <3> QED
      BY <3>1, <3>2 DEF Others, Lists
  <2>10. Lists(e, q, Others(q, key), new, MaxKnown - 1)
    BY <2>6, <2>7, <2>8, <2>9 DEF Lists
  <2> QED
    BY <1>1, <2>3, <2>10 DEF e
<1>3. CASE ~ \E i \in DOMAIN d : KeyOf[d[i]] = key
  <2>1. e = d
    BY <1>3 DEF Pop
  <2>2. \A j \in 1..Len(d) : at[j] \in Others(q, key)
    BY <1>1, <1>3 DEF Others, Lists
  <2>3. Lists(d, q, Others(q, key), at, MaxKnown - 1)
    BY <1>1, <2>2 DEF Others, Lists
  <2> QED
    BY <2>1, <2>3
<1> QED
  BY <1>2, <1>3

\* A new report is the last of its hash and the last of all.
LEMMA LatestOfAppend ==
  ASSUME NEW q \in Seq(Payload), NEW p \in Payload
  PROVE  /\ Latest(Append(q, p)) = Others(q, KeyOf[p]) \cup {Len(q) + 1}
         /\ Len(Append(q, p)) = Len(q) + 1
         /\ \A i \in 1..Len(q) : Append(q, p)[i] = q[i]
         /\ Append(q, p)[Len(q) + 1] = p
<1> DEFINE r == Append(q, p)
<1>1. /\ Len(q) \in Nat /\ Len(r) = Len(q) + 1 /\ r[Len(q) + 1] = p
      /\ \A i \in 1..Len(q) : r[i] = q[i]
  BY AppendProperties, LenProperties
<1> HIDE DEF r
<1>2. ASSUME NEW i \in Latest(r) PROVE i \in Others(q, KeyOf[p]) \cup {Len(q) + 1}
  <2>1. CASE i = Len(q) + 1
    BY <2>1
  <2>2. CASE i \in 1..Len(q)
    <3>1. KeyOf[q[i]] # KeyOf[p]
      BY <1>1, <2>2 DEF Latest
    <3>2. \A j \in 1..Len(q) : j > i => KeyOf[q[j]] # KeyOf[q[i]]
      BY <1>1, <2>2 DEF Latest
    <3> QED
      BY <2>2, <3>1, <3>2 DEF Latest, Others
  <2> QED
    BY <1>1, <2>1, <2>2 DEF Latest
<1>3. ASSUME NEW i \in Others(q, KeyOf[p]) PROVE i \in Latest(r)
  BY <1>1 DEF Latest, Others
<1>4. Len(q) + 1 \in Latest(r)
  BY <1>1 DEF Latest
<1> QED
  BY <1>1, <1>2, <1>3, <1>4 DEF r

\* Trimming from the front drops the oldest report only.
LEMMA NewestLists ==
  ASSUME NEW d \in Seq(Payload), NEW q, NEW L, L \subseteq Nat, NEW at,
         Lists(d, q, L, at, MaxKnown), Len(d) <= MaxKnown + 1
  PROVE  /\ Len(NewestOf(d)) <= MaxKnown
         /\ \E new : Lists(NewestOf(d), q, L, new, MaxKnown)
<1>1. /\ Len(d) \in Nat /\ MaxKnown \in Nat \ {0}
      /\ \A j \in 1..Len(d) : d[j] \in Payload /\ at[j] \in L /\ at[j] \in Int
  <2>1. Len(d) \in Nat /\ \A j \in 1..Len(d) : d[j] \in Payload
    BY InToSet
  <2>2. \A j \in 1..Len(d) : at[j] \in L
    BY DEF Lists
  <2>3. \A x \in L : x \in Int
    OBVIOUS
  <2> QED
    BY <2>1, <2>2, <2>3, CacheAssumption
<1>2. CASE Len(d) > MaxKnown
  <2> DEFINE c == SubSeq(d, 2, Len(d))
             new == [j \in 1..MaxKnown |-> at[j + 1]]
  <2>1. NewestOf(d) = c
    <3>1. Len(d) - MaxKnown + 1 = 2
      BY <1>1, <1>2
    <3> QED
      BY <1>2, <3>1 DEF NewestOf
  <2>2. /\ Len(c) = MaxKnown
        /\ \A j \in 1..MaxKnown : c[j] = d[j + 1] /\ j + 1 \in 1..Len(d)
    <3>1. /\ Len(c) = IF 2 <= Len(d) THEN Len(d) - 2 + 1 ELSE 0
          /\ \A j \in 1..(Len(d) - 2 + 1) : c[j] = d[2 + j - 1]
      <4>1. 2 \in Int /\ Len(d) \in Int /\ \A j \in 2..Len(d) : d[j] \in Payload
        BY <1>1
      <4> QED
        BY <4>1, SubSeqProperties
    <3>2. Len(d) = MaxKnown + 1 /\ Len(d) - 2 + 1 = MaxKnown
      BY <1>1, <1>2
    <3>3. \A j \in 1..MaxKnown : 2 + j - 1 = j + 1 /\ j + 1 \in 1..Len(d)
      BY <1>1, <3>2
    <3> HIDE DEF c
    <3> QED
      BY <1>1, <3>1, <3>2, <3>3
  <2> HIDE DEF c
  <2>3. new \in [1..Len(c) -> L]
    BY <1>1, <2>2
  <2>4. \A j, k \in 1..Len(c) : j < k => new[j] < new[k]
    BY <1>1, <2>2 DEF Lists
  <2>5. \A j \in 1..Len(c) : c[j] = q[new[j]]
    BY <2>2 DEF Lists
  <2>6. ASSUME NEW i \in L
        PROVE  \/ \E j \in 1..Len(c) : new[j] = i
               \/ Len(c) >= MaxKnown /\ \A j \in 1..Len(c) : i < new[j]
    <3>1. CASE \E j \in 1..Len(d) : at[j] = i
      <4>1. PICK j \in 1..Len(d) : at[j] = i
        BY <3>1
      <4>2. CASE j = 1
        <5>1. \A k \in 1..MaxKnown : 1 \in 1..Len(d) /\ 1 < k + 1 /\ k + 1 \in 1..Len(d)
          BY <1>1, <2>2
        <5>2. \A k \in 1..MaxKnown : i < at[k + 1]
          BY <4>1, <4>2, <5>1 DEF Lists
        <5> QED
          BY <1>1, <2>2, <5>2
      <4>3. CASE j # 1
        <5>1. j - 1 \in 1..MaxKnown /\ (j - 1) + 1 = j
          BY <1>1, <1>2, <4>3
        <5>2. new[j - 1] = i
          BY <4>1, <5>1
        <5> QED
          BY <2>2, <5>1, <5>2
      <4> QED
        BY <4>2, <4>3
    <3>2. CASE \A j \in 1..Len(d) : i < at[j]
      BY <1>1, <2>2, <3>2
    <3> QED
      BY <3>1, <3>2 DEF Lists
  <2>7. Lists(c, q, L, new, MaxKnown)
    BY <2>3, <2>4, <2>5, <2>6 DEF Lists
  <2> QED
    BY <1>1, <2>1, <2>2, <2>7
<1>3. CASE ~(Len(d) > MaxKnown)
  BY <1>1, <1>3 DEF NewestOf
<1> QED
  BY <1>2, <1>3

\* An empty store is the list of no reports.
LEMMA NothingStored ==
  /\ Len(<<>>) <= MaxKnown
  /\ \E at : Lists(<<>>, <<>>, Latest(<<>>), at, MaxKnown)
<1> DEFINE at == [j \in 1..0 |-> 0]
<1>1. /\ Len(<<>>) = 0 /\ MaxKnown \in Nat /\ 1..0 = {} /\ Latest(<<>>) = {}
  BY CacheAssumption DEF Latest
<1>2. at \in [1..0 -> {}]
  BY <1>1
<1>3. \A e : Len(e) = 0 => Lists(e, e, {}, at, MaxKnown)
  BY <1>1, <1>2 DEF Lists
<1> QED
  BY <1>1, <1>3

\* Recording a report keeps the store the list of the latest reports.
LEMMA RememberLists ==
  ASSUME NEW d \in Seq(Payload), NEW q \in Seq(Payload), NEW p \in Payload, NEW at,
         Lists(d, q, Latest(q), at, MaxKnown), Len(d) <= MaxKnown
  PROVE  /\ Len(Remember(d, p)) <= MaxKnown
         /\ \E new : Lists(Remember(d, p), Append(q, p), Latest(Append(q, p)), new, MaxKnown)
<1> DEFINE e == Pop(d, KeyOf[p])
           f == Append(e, p)
           r == Append(q, p)
           L == Others(q, KeyOf[p])
<1>1. e \in Seq(Payload) /\ Len(e) <= MaxKnown /\ \E new : Lists(e, q, L, new, MaxKnown - 1)
  BY PopLists
<1>2. PICK mid : Lists(e, q, L, mid, MaxKnown - 1)
  BY <1>1
<1>3. /\ Latest(r) = L \cup {Len(q) + 1} /\ Len(r) = Len(q) + 1
      /\ \A i \in 1..Len(q) : r[i] = q[i]
      /\ r[Len(q) + 1] = p
  BY LatestOfAppend
<1>4. Remember(d, p) = NewestOf(f)
  BY DEF Remember
<1> HIDE DEF e, r
<1>5. /\ f \in Seq(Payload) /\ Len(f) = Len(e) + 1
      /\ \A i \in 1..Len(e) : f[i] = e[i]
      /\ f[Len(e) + 1] = p
  BY <1>1, AppendProperties
<1> HIDE DEF f
<1>6. /\ Len(e) \in Nat /\ Len(q) \in Nat /\ MaxKnown \in Nat \ {0} /\ L \subseteq 1..Len(q)
  BY <1>1, InToSet, CacheAssumption DEF Others, Latest
<1> HIDE DEF L
<1> DEFINE new == [j \in 1..Len(f) |-> IF j = Len(f) THEN Len(q) + 1 ELSE mid[j]]
<1>7. Lists(f, r, Latest(r), new, MaxKnown)
  <2>1. \A j \in 1..Len(f) : j # Len(f) => j \in 1..Len(e) /\ mid[j] \in L /\ mid[j] \in 1..Len(q)
    <3>1. \A j \in 1..Len(f) : j # Len(f) => j \in 1..Len(e)
      BY <1>5, <1>6
    <3>2. \A j \in 1..Len(e) : mid[j] \in L
      BY <1>2 DEF Lists
    <3> QED
      BY <1>6, <3>1, <3>2
  <2>2. new \in [1..Len(f) -> Latest(r)]
    BY <1>3, <2>1
  <2>3. \A j, k \in 1..Len(f) : j < k => new[j] < new[k]
    <3> SUFFICES ASSUME NEW j \in 1..Len(f), NEW k \in 1..Len(f), j < k
                 PROVE  new[j] < new[k]
      OBVIOUS
    <3>1. j # Len(f) /\ new[j] = mid[j] /\ mid[j] \in 1..Len(q) /\ j \in 1..Len(e)
      BY <1>5, <1>6, <2>1
    <3>2. CASE k = Len(f)
      BY <1>6, <3>1, <3>2
    <3>3. CASE k # Len(f)
      BY <1>2, <2>1, <3>1, <3>3 DEF Lists
    <3> QED
      BY <3>2, <3>3
  <2>4. \A j \in 1..Len(f) : f[j] = r[new[j]]
    <3> SUFFICES ASSUME NEW j \in 1..Len(f) PROVE f[j] = r[new[j]]
      OBVIOUS
    <3>1. CASE j = Len(f)
      BY <1>3, <1>5, <3>1
    <3>2. CASE j # Len(f)
      BY <1>2, <1>3, <1>5, <2>1, <3>2 DEF Lists
    <3> QED
      BY <3>1, <3>2
  <2>5. ASSUME NEW i \in Latest(r)
        PROVE  \/ \E j \in 1..Len(f) : new[j] = i
               \/ Len(f) >= MaxKnown /\ \A j \in 1..Len(f) : i < new[j]
    <3>1. CASE i = Len(q) + 1
      <4>1. Len(f) \in 1..Len(f) /\ new[Len(f)] = i
        BY <1>5, <1>6, <3>1
      <4> QED
        BY <4>1
    <3>2. CASE \E j \in 1..Len(e) : mid[j] = i
      <4>1. PICK j \in 1..Len(e) : mid[j] = i
        BY <3>2
      <4>2. j \in 1..Len(f) /\ j # Len(f)
        BY <1>5, <1>6
      <4>3. new[j] = i
        BY <4>1, <4>2
      <4> QED
        BY <4>2, <4>3
    <3>3. CASE i \in L /\ Len(e) >= MaxKnown - 1 /\ \A j \in 1..Len(e) : i < mid[j]
      <4>1. Len(f) >= MaxKnown
        BY <1>5, <1>6, <3>3
      <4>2. \A j \in 1..Len(f) : i < new[j]
        BY <1>6, <2>1, <3>3
      <4> QED
        BY <4>1, <4>2
    <3> QED
      BY <1>2, <1>3, <3>1, <3>2, <3>3 DEF Lists
  <2> QED
    BY <2>2, <2>3, <2>4, <2>5 DEF Lists
<1>8. Latest(r) \subseteq Nat /\ Len(f) <= MaxKnown + 1
  <2>1. Len(f) <= MaxKnown + 1
    BY <1>1, <1>5, <1>6
  <2>2. 1..Len(q) \subseteq Nat /\ Len(q) + 1 \in Nat
    BY <1>6
  <2> QED
    BY <1>3, <1>6, <2>1, <2>2
<1> HIDE DEF new
<1> QED
  BY <1>4, <1>5, <1>7, <1>8, NewestLists DEF r
\* Only a broadcast and a restart touch the store or the history of reports.
LEMMA StoreStep == TypeOK /\ StoreInv /\ [Next]_vars => StoreInv'
<1> SUFFICES ASSUME TypeOK, StoreInv, [Next]_vars PROVE StoreInv'
  OBVIOUS
<1>1. ASSUME NEW s \in Sess, NEW p \in Payload, Dispatch(s, p) PROVE StoreInv'
  <2>1. known \in Seq(Payload) /\ published \in Seq(Payload)
    BY DEF TypeOK
  <2>2. known' = Remember(known, p) /\ published' = Append(published, p)
    BY <1>1 DEF Dispatch
  <2>3. PICK at : Lists(known, published, Latest(published), at, MaxKnown)
    BY DEF StoreInv
  <2>4. /\ Len(Remember(known, p)) <= MaxKnown
        /\ \E new : Lists(Remember(known, p), Append(published, p),
                          Latest(Append(published, p)), new, MaxKnown)
    BY <2>1, <2>3, RememberLists DEF StoreInv
  <2> QED
    BY <2>2, <2>4 DEF StoreInv, Latest
<1>2. CASE Restart
  <2>1. known' = <<>> /\ published' = <<>>
    BY <1>2 DEF Restart
  <2> QED
    BY <2>1, NothingStored DEF StoreInv, Latest
<1>3. CASE UNCHANGED <<known, published>>
  BY <1>3 DEF StoreInv, Latest
<1>4. ASSUME NEW s \in Sess,
             \/ Accept(s) \/ Reject(s) \/ Register(s) \/ Replay(s) \/ ReplayClosed(s)
             \/ FanOutSent(s) \/ FanOutClosed(s) \/ FanOutDone(s) \/ Disconnect(s) \/ Drop(s)
      PROVE  UNCHANGED <<known, published>>
  BY <1>4 DEF Accept, Reject, Register, Replay, ReplayClosed, FanOutSent, FanOutClosed,
     FanOutDone, Disconnect, Drop, history
<1>5. ASSUME NEW s \in Sess, NEW n \in Node,
             Authenticate(s, n) \/ FanOut(s, n) \/ FanOutAborted(s, n)
      PROVE  UNCHANGED <<known, published>>
  BY <1>5 DEF Authenticate, FanOut, FanOutAborted, history
<1>6. CASE UNCHANGED vars
  BY <1>3, <1>6 DEF vars
<1> QED
  BY <1>1, <1>2, <1>3, <1>4, <1>5, <1>6 DEF Next, HandlerStep

\* A report in the store has as many newer ones as entries stand behind its
\* own; one that is missing has the whole store in front of it.
LEMMA NewerReports ==
  ASSUME NEW d \in Seq(Payload), NEW q \in Seq(Payload), NEW at,
         Lists(d, q, Latest(q), at, MaxKnown), Len(d) <= MaxKnown
  PROVE  /\ \A j \in 1..Len(d) :
              Cardinality({l \in Latest(q) : l > at[j]}) = Len(d) - j
         /\ \A i \in Latest(q) : (\A j \in 1..Len(d) : at[j] # i) =>
              /\ Len(d) = MaxKnown
              /\ Cardinality({l \in Latest(q) : l > i}) >= MaxKnown
         /\ (\A i \in Latest(q) : \E j \in 1..Len(d) : at[j] = i)
              => Cardinality(Latest(q)) = Len(d)
         /\ Len(d) <= Cardinality(Latest(q)) /\ Cardinality(Latest(q)) \in Nat
<1>1. /\ Len(d) \in Nat /\ Len(q) \in Nat /\ MaxKnown \in Nat \ {0}
      /\ Latest(q) \subseteq 1..Len(q)
      /\ \A j \in 1..Len(d) : at[j] \in Latest(q) /\ at[j] \in Int
      /\ \A l \in Latest(q) : l \in Int
  BY CacheAssumption, InToSet DEF Latest, Lists
<1>2. IsFiniteSet(Latest(q))
  <2>1. IsFiniteSet(1..Len(q))
    BY <1>1, FS_Interval
  <2> QED
    BY <1>1, <2>1, FS_Subset
<1>3. ASSUME NEW m \in 1..(Len(d) + 1), NEW T \in SUBSET Latest(q),
             \A j \in m..Len(d) : at[j] \in T
      PROVE  /\ Cardinality(T) >= Len(d) - m + 1
             /\ (\A l \in T : \E j \in m..Len(d) : at[j] = l)
                  => Cardinality(T) = Len(d) - m + 1
  <2> DEFINE f == [j \in m..Len(d) |-> at[j]]
  <2>1. f \in Injection(m..Len(d), T)
    <3>1. \A j, k \in m..Len(d) : f[j] = f[k] => j = k
      <4> SUFFICES ASSUME NEW j \in m..Len(d), NEW k \in m..Len(d), at[j] = at[k]
                   PROVE  j = k
        OBVIOUS
      <4>1. j \in 1..Len(d) /\ k \in 1..Len(d)
        BY <1>1
      <4>2. ~(j < k) /\ ~(k < j)
        BY <1>1, <4>1 DEF Lists
      <4> QED
        BY <1>1, <4>1, <4>2
    <3>2. f \in [m..Len(d) -> T]
      BY <1>3
    <3> QED
      BY <3>1, <3>2, Fun_IsInj
  <2>2. IsFiniteSet(m..Len(d)) /\ Cardinality(m..Len(d)) = Len(d) - m + 1
    <3>1. m \in Int /\ Len(d) \in Int /\ m <= Len(d) + 1
      BY <1>1
    <3>2. Cardinality(m..Len(d)) = IF m > Len(d) THEN 0 ELSE Len(d) - m + 1
      BY <3>1, FS_Interval
    <3>3. IsFiniteSet(m..Len(d))
      BY <3>1, FS_Interval
    <3> QED
      BY <3>1, <3>2, <3>3
  <2>3. IsFiniteSet(T) /\ Cardinality(T) \in Nat
    BY <1>2, FS_Subset, FS_CardinalityType
  <2> HIDE DEF f
  <2>4. Cardinality(m..Len(d)) <= Cardinality(T)
    BY <2>1, <2>3, FS_Injection
  <2>5. ASSUME \A l \in T : \E j \in m..Len(d) : at[j] = l
        PROVE  Cardinality(T) = Cardinality(m..Len(d))
    <3>1. f \in Surjection(m..Len(d), T)
      BY <2>1, <2>5 DEF f, Injection, Surjection
    <3> QED
      BY <2>1, <2>3, <3>1, FS_Injection
  <2> QED
    BY <1>1, <2>2, <2>3, <2>4, <2>5
<1>4. ASSUME NEW j \in 1..Len(d)
      PROVE  Cardinality({l \in Latest(q) : l > at[j]}) = Len(d) - j
  <2> DEFINE T == {l \in Latest(q) : l > at[j]}
  <2>1. j + 1 \in 1..(Len(d) + 1) /\ \A k \in (j + 1)..Len(d) : k \in 1..Len(d) /\ j < k
    BY <1>1
  <2>2. \A k \in (j + 1)..Len(d) : at[k] \in T
    BY <1>1, <2>1 DEF Lists
  <2>3. \A l \in T : \E k \in (j + 1)..Len(d) : at[k] = l
    <3> SUFFICES ASSUME NEW l \in T PROVE \E k \in (j + 1)..Len(d) : at[k] = l
      OBVIOUS
    <3>1. PICK k \in 1..Len(d) : at[k] = l
      <4>1. ~(l < at[j])
        BY <1>1
      <4> QED
        BY <4>1 DEF Lists
    <3>2. ~(k < j) /\ k # j
      BY <1>1, <3>1 DEF Lists
    <3>3. k \in (j + 1)..Len(d)
      BY <1>1, <3>2
    <3> QED
      BY <3>1, <3>3
  <2>4. T \in SUBSET Latest(q)
    OBVIOUS
  <2> HIDE DEF T
  <2>5. Cardinality(T) = Len(d) - (j + 1) + 1
    BY <1>3, <2>1, <2>2, <2>3, <2>4
  <2> QED
    BY <1>1, <2>5 DEF T
<1>5. /\ Len(d) <= Cardinality(Latest(q)) /\ Cardinality(Latest(q)) \in Nat
      /\ (\A i \in Latest(q) : \E j \in 1..Len(d) : at[j] = i)
           => Cardinality(Latest(q)) = Len(d)
  <2>1. 1 \in 1..(Len(d) + 1) /\ Len(d) - 1 + 1 = Len(d)
    BY <1>1
  <2>2. Cardinality(Latest(q)) \in Nat
    BY <1>2, FS_CardinalityType
  <2> QED
    BY <1>1, <1>3, <2>1, <2>2
<1>6. ASSUME NEW i \in Latest(q), \A j \in 1..Len(d) : at[j] # i
      PROVE  /\ Len(d) = MaxKnown
             /\ Cardinality({l \in Latest(q) : l > i}) >= MaxKnown
  <2> DEFINE T == {l \in Latest(q) : l > i}
  <2>1. Len(d) >= MaxKnown /\ \A j \in 1..Len(d) : i < at[j]
    BY <1>6 DEF Lists
  <2>2. \A j \in 1..Len(d) : at[j] \in T
    BY <1>1, <2>1
  <2>3. T \in SUBSET Latest(q) /\ 1 \in 1..(Len(d) + 1)
    BY <1>1
  <2> HIDE DEF T
  <2>4. Cardinality(T) >= Len(d) - 1 + 1
    BY <1>3, <2>2, <2>3
  <2>5. Cardinality(T) \in Nat
    BY <1>2, <2>3, FS_Subset, FS_CardinalityType
  <2> QED
    BY <1>1, <2>1, <2>4, <2>5 DEF T
<1> QED
  BY <1>4, <1>5, <1>6

\* The store holds the most recently reported hashes, each with its latest
\* payload, in the order of their latest reports.
THEOREM KnownIsMostRecentHolds == Spec => []KnownIsMostRecent
<1>1. Init => StoreInv
  <2>1. Init => known = <<>> /\ published = <<>>
    BY DEF Init
  <2> QED
    BY <2>1, NothingStored DEF StoreInv
<1>2. TypeOK /\ StoreInv => KnownIsMostRecent
  <2> SUFFICES ASSUME TypeOK, StoreInv PROVE KnownIsMostRecent
    OBVIOUS
  <2> DEFINE latest == Latest(published)
             newer(i) == Cardinality({j \in latest : j > i})
  <2>1. known \in Seq(Payload) /\ published \in Seq(Payload)
    BY DEF TypeOK
  <2>3. PICK at : Lists(known, published, Latest(published), at, MaxKnown)
    BY DEF StoreInv
  <2>4. /\ \A j \in 1..Len(known) : newer(at[j]) = Len(known) - j
        /\ \A i \in latest : (\A j \in 1..Len(known) : at[j] # i) =>
              Len(known) = MaxKnown /\ newer(i) >= MaxKnown
        /\ (\A i \in latest : \E j \in 1..Len(known) : at[j] = i)
              => Cardinality(latest) = Len(known)
        /\ Len(known) <= Cardinality(latest) /\ Cardinality(latest) \in Nat
    <3>1. Len(known) <= MaxKnown
      BY DEF StoreInv
    <3> QED
      BY <2>1, <2>3, <3>1, NewerReports
  <2>5. /\ Len(known) \in Nat /\ MaxKnown \in Nat \ {0} /\ Len(known) <= MaxKnown
        /\ \A i \in latest : newer(i) \in Nat
    <3>1. IsFiniteSet(latest)
      <4>1. Len(published) \in Nat /\ Latest(published) \subseteq 1..Len(published)
        BY <2>1, InToSet DEF Latest
      <4>2. IsFiniteSet(1..Len(published))
        BY <4>1, FS_Interval
      <4> QED
        BY <4>1, <4>2, FS_Subset
    <3>2. ASSUME NEW i \in latest PROVE newer(i) \in Nat
      <4>1. {j \in latest : j > i} \in SUBSET latest
        OBVIOUS
      <4> QED
        BY <3>1, <4>1, FS_Subset, FS_CardinalityType
    <3> QED
      BY <2>1, <3>2, InToSet, CacheAssumption DEF StoreInv
  <2>6. Len(known) = Min({MaxKnown, Cardinality(latest)})
    <3>1. \/ MaxKnown <= Cardinality(latest) /\ Len(known) = MaxKnown
          \/ Cardinality(latest) <= MaxKnown /\ Len(known) = Cardinality(latest)
      BY <2>4, <2>5
    <3>2. \A x \in {MaxKnown, Cardinality(latest)} : x \in Nat
      BY <2>4, <2>5
    <3> HIDE DEF newer
    <3> QED
      BY <2>4, <2>5, <3>1, <3>2 DEF Min
  <2>7. ASSUME NEW i \in latest, newer(i) < MaxKnown
        PROVE  known[Len(known) - newer(i)] = published[i]
    <3>1. PICK j \in 1..Len(known) : at[j] = i
      BY <2>4, <2>5, <2>7
    <3>2. Len(known) - newer(i) = j
      <4> HIDE DEF newer
      <4> QED
        BY <2>4, <2>5, <3>1
    <3> QED
      BY <2>3, <3>1, <3>2 DEF Lists
  <2> QED
    BY <2>6, <2>7 DEF KnownIsMostRecent
<1> QED
  BY <1>1, <1>2, StoreStep, TypeCorrect, PTL DEF Spec
=============================================================================
