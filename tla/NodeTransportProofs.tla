------------------------ MODULE NodeTransportProofs ------------------------
(***************************************************************************)
(* What holds of NodeTransport for every backoff, every number of log      *)
(* entries and every caller.                                               *)
(***************************************************************************)
EXTENDS NodeTransport, SequenceTheorems, TLAPS

\* A flusher that is not in a send holds no batch.
IdleIsEmpty == \A f \in Flusher : flush[f] \in {"off", "idle"} => batch[f] = <<>>

TInv == TypeOK /\ IdleIsEmpty /\ NoOrphanTask

\* An element of a sequence's range is the value at one of its positions.
LEMMA InToSet ==
  ASSUME NEW S, NEW q \in Seq(S)
  PROVE  /\ \A x : x \in ToSet(q) <=> \E i \in 1..Len(q) : q[i] = x
         /\ \A i \in 1..Len(q) : q[i] \in S
         /\ Len(q) \in Nat
BY DEF ToSet

\* Joining two sequences joins their ranges, and keeps entries distinct if the
\* two had none in common.
LEMMA JoinedEntries ==
  ASSUME NEW S, NEW a \in Seq(S), NEW b \in Seq(S)
  PROVE  /\ a \o b \in Seq(S)
         /\ ToSet(a \o b) = ToSet(a) \cup ToSet(b)
         /\ (IsInjective(a) /\ IsInjective(b) /\ ToSet(a) \cap ToSet(b) = {})
              => IsInjective(a \o b)
<1> DEFINE c == a \o b
<1>1. /\ c \in Seq(S)
      /\ Len(c) = Len(a) + Len(b)
      /\ \A i \in 1..(Len(a)+Len(b)) : c[i] = IF i <= Len(a) THEN a[i] ELSE b[i - Len(a)]
  BY ConcatProperties
<1>2. /\ DOMAIN a = 1..Len(a) /\ DOMAIN b = 1..Len(b) /\ DOMAIN c = 1..Len(c)
      /\ Len(a) \in Nat /\ Len(b) \in Nat
  BY <1>1, LenProperties
<1> HIDE DEF c
<1>3. ASSUME NEW i \in 1..Len(c)
      PROVE  \/ i \in 1..Len(a) /\ c[i] = a[i]
             \/ i - Len(a) \in 1..Len(b) /\ c[i] = b[i - Len(a)]
  BY <1>1, <1>2
<1>4. ToSet(c) \subseteq ToSet(a) \cup ToSet(b)
  BY <1>1, <1>3, InToSet
<1>5. ToSet(a) \subseteq ToSet(c)
  <2>1. ASSUME NEW i \in 1..Len(a) PROVE i \in 1..Len(c) /\ c[i] = a[i]
    BY <1>1, <1>2
  <2> QED
    BY <1>1, <2>1, InToSet
<1>6. ToSet(b) \subseteq ToSet(c)
  <2>1. ASSUME NEW i \in 1..Len(b) PROVE Len(a) + i \in 1..Len(c) /\ c[Len(a) + i] = b[i]
    <3>1. /\ Len(a) + i \in 1..(Len(a)+Len(b)) /\ ~(Len(a) + i <= Len(a))
          /\ (Len(a) + i) - Len(a) = i
      BY <1>2
    <3>2. c[Len(a) + i] = b[(Len(a) + i) - Len(a)]
      BY <1>1, <3>1
    <3> QED
      BY <1>1, <3>1, <3>2
  <2>2. ASSUME NEW x \in ToSet(b) PROVE x \in ToSet(c)
    <3>1. PICK i \in 1..Len(b) : b[i] = x
      BY InToSet
    <3>2. \E k \in 1..Len(c) : c[k] = x
      BY <2>1, <3>1
    <3> QED
      BY <1>1, <3>2, InToSet
  <2> QED
    BY <2>2
<1>7. ASSUME IsInjective(a), IsInjective(b), ToSet(a) \cap ToSet(b) = {}
      PROVE  IsInjective(c)
  <2> SUFFICES ASSUME NEW i \in 1..Len(c), NEW j \in 1..Len(c), c[i] = c[j]
               PROVE  i = j
    BY <1>2 DEF IsInjective
  <2>1. \A k \in 1..Len(a), l \in 1..Len(b) : a[k] # b[l]
    BY <1>7, InToSet
  <2>2. /\ \A k, l \in 1..Len(a) : a[k] = a[l] => k = l
        /\ \A k, l \in 1..Len(b) : b[k] = b[l] => k = l
    BY <1>2, <1>7 DEF IsInjective
  <2>3. CASE i \in 1..Len(a) /\ c[i] = a[i]
    BY <1>2, <1>3, <2>1, <2>2, <2>3
  <2>4. CASE i - Len(a) \in 1..Len(b) /\ c[i] = b[i - Len(a)]
    <3>1. j - Len(a) \in 1..Len(b) /\ c[j] = b[j - Len(a)]
      BY <1>3, <2>1, <2>4
    <3>2. i - Len(a) = j - Len(a)
      BY <2>2, <2>4, <3>1
    <3> QED
      BY <1>1, <1>2, <3>2
  <2> QED
    BY <1>3, <2>3, <2>4
<1> QED
  BY <1>1, <1>4, <1>5, <1>6, <1>7 DEF c

\* Queueing a new entry adds it, and keeps entries distinct.
LEMMA QueuedEntries ==
  ASSUME NEW S, NEW a \in Seq(S), NEW e \in S
  PROVE  /\ Append(a, e) \in Seq(S)
         /\ ToSet(Append(a, e)) = ToSet(a) \cup {e}
         /\ (IsInjective(a) /\ e \notin ToSet(a)) => IsInjective(Append(a, e))
<1>1. /\ Append(a, e) = a \o <<e>>
      /\ <<e>> \in Seq(S)
  BY AppendIsConcat
<1>2. ToSet(<<e>>) = {e} /\ IsInjective(<<e>>)
  BY DEF ToSet, IsInjective
<1> DEFINE b == <<e>>
<1>3. b \in Seq(S) /\ Append(a, e) = a \o b /\ ToSet(b) = {e} /\ IsInjective(b)
  BY <1>1, <1>2
<1> HIDE DEF b
<1>4. /\ a \o b \in Seq(S)
      /\ ToSet(a \o b) = ToSet(a) \cup ToSet(b)
      /\ (IsInjective(a) /\ IsInjective(b) /\ ToSet(a) \cap ToSet(b) = {})
           => IsInjective(a \o b)
  BY <1>3, JoinedEntries
<1> QED
  BY <1>3, <1>4

\* The empty sequence has no entry.
LEMMA NoEntries ==
  /\ \A S : <<>> \in Seq(S)
  /\ ToSet(<<>>) = {}
  /\ IsInjective(<<>>)
BY EmptySeq DEF ToSet, IsInjective

\* A sequence over a set is one over every larger set.
LEMMA SeqGrows ==
  ASSUME NEW S, NEW T, S \subseteq T, NEW q \in Seq(S)
  PROVE  q \in Seq(T)
<1>1. q \in [1..Len(q) -> S] /\ Len(q) \in Nat
  BY LenProperties
<1>2. q \in [1..Len(q) -> T]
  BY <1>1
<1> QED
  BY <1>1, <1>2, SeqDef

-----------------------------------------------------------------------------
(* Type correctness.  TypeOK is not inductive alone: that a session starts *)
(* with an empty batch needs the flush task of the one before to be over.  *)

\* The transport starts well typed, with nothing to flush.
LEMMA TInit == Init => TInv
<1> SUFFICES ASSUME Init PROVE TInv
  OBVIOUS
<1>1. /\ flush \in [Flusher -> {"off", "idle", "send", "failing"}]
      /\ flush["loop"] = "off"
  BY DEF Init, Flusher
<1>2. batch \in [Flusher -> Seq(1..queued)] /\ buffer \in Seq(1..queued)
  <2>1. <<>> \in Seq(1..queued)
    BY NoEntries
  <2> QED
    BY <2>1 DEF Init
<1>3. TypeOK
  <2>1. /\ pc = "idle" /\ after = "none" /\ ws = "none" /\ told = "new"
        /\ connected = FALSE /\ stop = FALSE /\ backoff = InitialBackoff
        /\ queued = 0 /\ written = {} /\ lost = {}
    BY DEF Init
  <2>2. InitialBackoff \in Nat /\ InitialBackoff <= MaxBackoff /\ 0 \in 0..MaxEntries
    BY BackoffAssumption, EntriesAssumption
  <2> QED
    BY <1>1, <1>2, <2>1, <2>2 DEF TypeOK
<1>4. IdleIsEmpty
  BY DEF Init, IdleIsEmpty
<1> QED
  BY <1>1, <1>3, <1>4 DEF TInv, NoOrphanTask

\* The next delay is a number under the ceiling.
LEMMA NextDelay ==
  ASSUME backoff \in Nat
  PROVE  Capped(backoff * BackoffFactor) \in Nat /\ Capped(backoff * BackoffFactor) <= MaxBackoff
<1>1. backoff * BackoffFactor \in Nat
  BY BackoffAssumption
<1> DEFINE delay == backoff * BackoffFactor
<1> HIDE DEF delay
<1>2. delay \in Nat => Capped(delay) \in Nat /\ Capped(delay) <= MaxBackoff
  BY BackoffAssumption DEF Capped
<1> QED
  BY <1>1, <1>2 DEF delay

\* Leaving an attempt or a session keeps the invariant once the flush task of
\* the session is over.
LEMMA TLeave ==
  ASSUME TInv, flush["loop"] = "off",
         NEW why \in {"none", "retry", "auth", "stop", "cancel"},
         Leave(why), UNCHANGED <<backoff, stop, logs>>
  PROVE  TInv'
<1>1. flush' \in [Flusher -> {"off", "idle", "send", "failing"}]
  BY DEF TInv, TypeOK, Leave, SendsFail
<1>2. flush'["loop"] = "off"
  BY DEF Leave, SendsFail, Flusher
<1>3. \A f \in Flusher : flush'[f] \in {"off", "idle"} => flush[f] \in {"off", "idle"}
  BY DEF TInv, TypeOK, Leave, SendsFail
<1>4. IdleIsEmpty'
  BY <1>3 DEF TInv, IdleIsEmpty, logs
<1>5. TypeOK'
  BY <1>1 DEF TInv, TypeOK, Leave, AfterClose, logs
<1> QED
  BY <1>2, <1>4, <1>5 DEF TInv, NoOrphanTask

\* The start of a flush moves the whole buffer to an idle flusher.
LEMMA TFlushStarts ==
  ASSUME TInv, NEW f \in Flusher, StartFlush(f), UNCHANGED <<lifecycle, stop>>
  PROVE  TypeOK' /\ IdleIsEmpty'
<1> USE NoEntries DEF TInv, StartFlush, TakeBatch, lifecycle
<1>1. TypeOK'
  BY DEF TypeOK
<1>2. IdleIsEmpty'
  BY DEF TypeOK, IdleIsEmpty
<1> QED
  BY <1>1, <1>2

\* So does the end of one, whether the batch was sent or is put back.
LEMMA TFlushEnds ==
  ASSUME TInv, NEW f \in Flusher, FlushSent(f) \/ FlushClosed(f), UNCHANGED <<lifecycle, stop>>
  PROVE  TypeOK' /\ IdleIsEmpty'
<1> USE DEF TInv
<1>1. batch[f] \in Seq(1..queued) /\ ToSet(batch[f]) \subseteq 1..queued
  BY InToSet DEF TypeOK
<1>2. batch[f] \o buffer \in Seq(1..queued)
  BY <1>1, JoinedEntries DEF TypeOK
<1>3. CASE FlushSent(f)
  BY <1>1, <1>3, NoEntries DEF FlushSent, Rest, TypeOK, IdleIsEmpty, lifecycle
<1>4. CASE FlushClosed(f)
  BY <1>1, <1>2, <1>4, NoEntries DEF FlushClosed, PutBack, TypeOK, IdleIsEmpty, lifecycle
<1> QED
  BY <1>3, <1>4

\* Every step of the transport and its callers keeps the invariant.
LEMMA TStep == TInv /\ [Next]_vars => TInv'
<1> SUFFICES ASSUME TInv, [Next]_vars PROVE TInv'
  OBVIOUS
<1> USE DEF TInv, lifecycle, logs
<1>a. "loop" \in Flusher /\ "caller" \in Flusher
  BY DEF Flusher
<1>b. flush["loop"] # "off" => pc \in {"session", "teardown"}
  BY DEF NoOrphanTask
<1>1. CASE QueueLog
  <2>1. Append(buffer, queued + 1) \in Seq(1..(queued + 1))
    <3>1. queued + 1 \in 1..(queued + 1) /\ 1..queued \subseteq 1..(queued + 1)
      BY DEF TypeOK
    <3>2. buffer \in Seq(1..(queued + 1))
      BY <3>1, SeqGrows DEF TypeOK
    <3> QED
      BY <3>1, <3>2, QueuedEntries
  <2>2. batch \in [Flusher -> Seq(1..(queued + 1))]
    <3>1. 1..queued \subseteq 1..(queued + 1)
      BY DEF TypeOK
    <3>2. \A f \in Flusher : batch[f] \in Seq(1..(queued + 1))
      BY <3>1, SeqGrows DEF TypeOK
    <3> QED
      BY <3>2 DEF TypeOK
  <2>3. TypeOK'
    BY <1>1, <2>1, <2>2, EntriesAssumption DEF QueueLog, TypeOK
  <2> QED
    BY <1>1, <2>3 DEF QueueLog, IdleIsEmpty, NoOrphanTask
<1>2. CASE FlushLoopStep
  <2>1. TypeOK' /\ IdleIsEmpty'
    BY <1>a, <1>2, TFlushStarts, TFlushEnds DEF FlushLoopStep, LoopWakes, LoopFlushEnds
  <2>2. pc' = "session"
    BY <1>2 DEF FlushLoopStep, LoopWakes, LoopFlushEnds
  <2> QED
    BY <2>1, <2>2 DEF NoOrphanTask
<1>3. CASE CallerFlushes \/ CallerFlushEnds
  <2>1. TypeOK' /\ IdleIsEmpty'
    BY <1>a, <1>3, TFlushStarts, TFlushEnds DEF CallerFlushes, CallerFlushEnds
  <2>2. pc' = pc /\ flush'["loop"] = flush["loop"]
    BY <1>a, <1>3 DEF CallerFlushes, CallerFlushEnds, StartFlush, FlushSent, FlushClosed, TypeOK
  <2> QED
    BY <1>b, <2>1, <2>2 DEF NoOrphanTask
<1>4. CASE DialFails \/ Rejected \/ HelloFails \/ WrongReply \/ TeardownEnds \/ CancelAttempt
  <2>1. CASE TeardownEnds
    BY <1>b, <2>1, TLeave DEF TeardownEnds, TypeOK
  <2>2. CASE DialFails \/ Rejected \/ HelloFails \/ WrongReply \/ CancelAttempt
    BY <1>b, <2>2, TLeave DEF DialFails, Rejected, HelloFails, WrongReply, CancelAttempt
  <2> QED
    BY <1>4, <2>1, <2>2
<1>5. CASE Acknowledged
  <2>1. flush["loop"] = "off" /\ batch["loop"] = <<>>
    BY <1>a, <1>b, <1>5 DEF Acknowledged, IdleIsEmpty
  <2>2. TypeOK'
    BY <1>5, BackoffAssumption DEF Acknowledged, TypeOK
  <2>3. IdleIsEmpty'
    BY <1>5, <2>1 DEF Acknowledged, IdleIsEmpty, TypeOK
  <2> QED
    BY <1>5, <2>2, <2>3 DEF Acknowledged, NoOrphanTask
<1>6. CASE LoopCancelled
  <2>1. ToSet(batch["loop"]) \subseteq 1..queued
    BY <1>a, InToSet DEF TypeOK
  <2>2. TypeOK'
    BY <1>6, <2>1, NoEntries DEF LoopCancelled, TypeOK
  <2>3. IdleIsEmpty'
    BY <1>6 DEF LoopCancelled, IdleIsEmpty, TypeOK
  <2> QED
    BY <1>6, <2>2, <2>3 DEF LoopCancelled, NoOrphanTask
<1>7. CASE SocketDies
  <2>1. TypeOK'
    BY <1>7 DEF SocketDies, SendsFail, TypeOK
  <2>2. IdleIsEmpty'
    BY <1>7 DEF SocketDies, SendsFail, IdleIsEmpty, TypeOK
  <2>3. flush'["loop"] # "off" => flush["loop"] # "off"
    BY <1>a, <1>7 DEF SocketDies, SendsFail
  <2> QED
    BY <1>b, <1>7, <2>1, <2>2, <2>3 DEF SocketDies, NoOrphanTask
<1>8. CASE Retry
  <2>1. TypeOK'
    BY <1>8, NextDelay DEF Retry, TypeOK
  <2> QED
    BY <1>8, <1>b, <2>1 DEF Retry, IdleIsEmpty, NoOrphanTask
<1>9. CASE Start \/ Dialled \/ SessionLost \/ Closed \/ StopSeen \/ SetStop
           \/ CancelSession \/ CancelIgnored \/ CancelPause \/ UNCHANGED vars
  <2>1. /\ UNCHANGED <<flush, batch, buffer, queued, written, lost, backoff>>
        /\ flush["loop"] # "off" => pc' \in {"session", "teardown"}
    BY <1>9, <1>b DEF Start, Dialled, SessionLost, Closed, StopSeen, SetStop,
       CancelSession, CancelIgnored, CancelPause, vars
  <2>2. TypeOK'
    BY <1>9, <2>1 DEF Start, Dialled, SessionLost, Closed, StopSeen, SetStop,
       CancelSession, CancelIgnored, CancelPause, AfterClose, vars, TypeOK
  <2> QED
    BY <2>1, <2>2 DEF IdleIsEmpty, NoOrphanTask
<1> QED
  BY <1>1, <1>2, <1>3, <1>4, <1>5, <1>6, <1>7, <1>8, <1>9
  DEF Next, RunForeverStep, Cancel

\* Every variable of the transport stays well typed, and the delay before a
\* retry stays under its ceiling, whatever the caller and the network do.
THEOREM TransportTypeCorrect == Spec => []TypeOK
<1>1. TInv => TypeOK
  BY DEF TInv
<1> QED
  BY <1>1, TInit, TStep, PTL DEF Spec

\* No flush task outlives its session.
THEOREM NoTaskIsOrphaned == Spec => []NoOrphanTask
<1>1. TInv => NoOrphanTask
  BY DEF TInv
<1> QED
  BY <1>1, TInit, TStep, PTL DEF Spec

-----------------------------------------------------------------------------
(* Log accounting: what each step does to the entries the transport holds. *)

\* Only queueing, flushing and the cancellation of the flush loop touch the
\* log; everything else leaves it alone.
LEMMA LogStep ==
  ASSUME TInv, [Next]_vars
  PROVE  \/ QueueLog
         \/ \E f \in Flusher : flush[f] \in {"off", "idle"} /\ StartFlush(f)
         \/ \E f \in Flusher : FlushSent(f) \/ FlushClosed(f)
         \/ LoopCancelled
         \/ UNCHANGED logs
<1> "loop" \in Flusher /\ "caller" \in Flusher
  BY DEF Flusher
<1>1. CASE FlushLoopStep
  BY <1>1 DEF FlushLoopStep, LoopWakes, LoopFlushEnds
<1>2. CASE CallerFlushes \/ CallerFlushEnds
  BY <1>2 DEF CallerFlushes, CallerFlushEnds
<1>3. CASE RunForeverStep
  BY <1>3 DEF RunForeverStep, Start, Dialled, DialFails, Acknowledged, Rejected, HelloFails, WrongReply,
     SessionLost, TeardownEnds, Closed, Retry
<1>4. CASE StopSeen \/ SocketDies \/ SetStop \/ Cancel \/ UNCHANGED vars
  BY <1>4 DEF StopSeen, SocketDies, SetStop, Cancel, CancelAttempt, CancelSession,
     CancelIgnored, CancelPause, vars
<1> QED
  BY <1>1, <1>2, <1>3, <1>4 DEF Next

\* No step of the transport but the cancellation of the flush loop loses an
\* entry: it stays in the buffer or a batch, or it was written.
LEMMA AccountingStep ==
  TInv /\ LostByCancelOnly /\ [Next]_vars => LostByCancelOnly'
<1> SUFFICES ASSUME TInv, LostByCancelOnly, [Next]_vars,
                    NEW e \in 1..queued'
             PROVE  \/ e \in ToSet(buffer')
                    \/ \E f \in Flusher : e \in ToSet(batch'[f])
                    \/ e \in written' \/ e \in lost'
  BY DEF LostByCancelOnly, Held
<1> USE DEF TInv, TypeOK
<1>a. e \in 1..queued =>
         \/ e \in ToSet(buffer)
         \/ \E f \in Flusher : e \in ToSet(batch[f])
         \/ e \in written \/ e \in lost
  BY DEF LostByCancelOnly, Held
<1>b. \A f \in Flusher : batch[f] \in Seq(1..queued)
  OBVIOUS
<1>1. CASE QueueLog
  <2>1. /\ queued' = queued + 1 /\ buffer' = Append(buffer, queued + 1)
        /\ batch' = batch /\ written' = written /\ lost' = lost
    BY <1>1 DEF QueueLog
  <2>2. buffer \in Seq(Nat) /\ queued + 1 \in Nat
    <3>1. 1..queued \subseteq Nat
      OBVIOUS
    <3> QED
      BY <3>1, SeqGrows
  <2>3. ToSet(buffer') = ToSet(buffer) \cup {queued + 1}
    BY <2>1, <2>2, QueuedEntries
  <2>4. e \in 1..queued \/ e = queued + 1
    BY <2>1
  <2> QED
    BY <1>a, <2>1, <2>3, <2>4
<1>2. ASSUME NEW f \in Flusher, flush[f] \in {"off", "idle"}, StartFlush(f)
      PROVE  \/ e \in ToSet(buffer')
             \/ \E g \in Flusher : e \in ToSet(batch'[g])
             \/ e \in written' \/ e \in lost'
  <2>1. /\ batch' = [batch EXCEPT ![f] = buffer] /\ queued' = queued
        /\ written' = written /\ lost' = lost
    BY <1>2 DEF StartFlush, TakeBatch
  <2>2. batch'[f] = buffer /\ \A g \in Flusher \ {f} : batch'[g] = batch[g]
    BY <2>1
  <2>3. ToSet(batch[f]) = {}
    BY <1>2, NoEntries DEF IdleIsEmpty
  <2> QED
    BY <1>a, <2>1, <2>2, <2>3
<1>3. ASSUME NEW f \in Flusher, FlushSent(f) \/ FlushClosed(f)
      PROVE  \/ e \in ToSet(buffer')
             \/ \E g \in Flusher : e \in ToSet(batch'[g])
             \/ e \in written' \/ e \in lost'
  <2>1. /\ queued' = queued /\ lost' = lost /\ written \subseteq written'
        /\ \A g \in Flusher \ {f} : batch'[g] = batch[g]
    BY <1>3 DEF FlushSent, FlushClosed, PutBack
  <2>2. ToSet(batch[f] \o buffer) = ToSet(batch[f]) \cup ToSet(buffer)
    BY <1>b, JoinedEntries
  <2>3. CASE FlushSent(f)
    BY <1>a, <2>1, <2>3 DEF FlushSent
  <2>4. CASE FlushClosed(f)
    BY <1>a, <2>1, <2>2, <2>4 DEF FlushClosed, PutBack
  <2> QED
    BY <1>3, <2>3, <2>4
<1>4. CASE LoopCancelled
  BY <1>a, <1>4 DEF LoopCancelled
<1>5. CASE UNCHANGED logs
  BY <1>a, <1>5 DEF logs
<1> QED
  BY <1>1, <1>2, <1>3, <1>4, <1>5, LogStep

\* Whatever the network and the caller do, a queued log entry is waiting, in a
\* send, handed to a socket, or was in the batch of a cancelled flush loop.
THEOREM EntriesAreAccountedFor == Spec => []LostByCancelOnly
<1>1. Init => LostByCancelOnly
  BY DEF Init, LostByCancelOnly
<1> QED
  BY <1>1, TInit, TStep, AccountingStep, PTL DEF Spec

\* No step makes the transport hold an entry twice: the batch leaves the buffer
\* before its send is awaited, and what is put back is held by nobody else.
LEMMA HeldOnceStep == TInv /\ HeldOnce /\ [Next]_vars => HeldOnce'
<1> SUFFICES ASSUME TInv, HeldOnce, [Next]_vars PROVE HeldOnce'
  OBVIOUS
<1> USE DEF TInv, TypeOK
<1>b. \A f \in Flusher : batch[f] \in Seq(1..queued)
  OBVIOUS
<1>1. CASE QueueLog
  <2>1. buffer' = Append(buffer, queued + 1) /\ batch' = batch
    BY <1>1 DEF QueueLog
  <2>2. buffer \in Seq(Nat) /\ queued + 1 \in Nat
    <3>1. 1..queued \subseteq Nat
      OBVIOUS
    <3> QED
      BY <3>1, SeqGrows
  <2>3. /\ queued + 1 \notin ToSet(buffer)
        /\ \A f \in Flusher : queued + 1 \notin ToSet(batch[f])
    <3>1. queued + 1 \notin 1..queued
      OBVIOUS
    <3>2. /\ ToSet(buffer) \subseteq 1..queued
          /\ \A f \in Flusher : ToSet(batch[f]) \subseteq 1..queued
      BY <1>b, InToSet
    <3> QED
      BY <3>1, <3>2
  <2>4. /\ ToSet(buffer') = ToSet(buffer) \cup {queued + 1}
        /\ IsInjective(buffer')
    BY <2>1, <2>2, <2>3, QueuedEntries DEF HeldOnce
  <2> QED
    BY <2>1, <2>3, <2>4 DEF HeldOnce
<1>2. ASSUME NEW f \in Flusher, StartFlush(f)
      PROVE  HeldOnce'
  <2>1. /\ buffer' = <<>> /\ batch'[f] = buffer
        /\ \A g \in Flusher \ {f} : batch'[g] = batch[g]
    BY <1>2 DEF StartFlush, TakeBatch
  <2> QED
    BY <2>1, NoEntries DEF HeldOnce
<1>3. ASSUME NEW f \in Flusher, FlushSent(f) \/ FlushClosed(f)
      PROVE  HeldOnce'
  <2>1. batch'[f] = <<>> /\ \A g \in Flusher \ {f} : batch'[g] = batch[g]
    BY <1>3 DEF FlushSent, FlushClosed, PutBack
  <2>2. /\ ToSet(batch[f] \o buffer) = ToSet(batch[f]) \cup ToSet(buffer)
        /\ IsInjective(batch[f] \o buffer)
    BY <1>b, JoinedEntries DEF HeldOnce
  <2>3. buffer' = buffer \/ buffer' = batch[f] \o buffer
    BY <1>3 DEF FlushSent, FlushClosed, PutBack
  <2> QED
    BY <2>1, <2>2, <2>3, NoEntries DEF HeldOnce
<1>4. CASE LoopCancelled
  <2>1. buffer' = buffer
        /\ \A f \in Flusher : batch'[f] = batch[f] \/ batch'[f] = <<>>
    BY <1>4 DEF LoopCancelled
  <2> QED
    BY <2>1, NoEntries DEF HeldOnce
<1>5. CASE UNCHANGED logs
  BY <1>5 DEF logs, HeldOnce
<1> QED
  BY <1>1, <1>2, <1>3, <1>4, <1>5, LogStep

\* However many flushes overlap, no entry is held twice.
THEOREM EntriesAreHeldOnce == Spec => []HeldOnce
<1>1. Init => HeldOnce
  BY NoEntries DEF Init, HeldOnce
<1> QED
  BY <1>1, TInit, TStep, HeldOnceStep, PTL DEF Spec

\* The delay before a retry is only ever reset by a handshake.
THEOREM BackoffIsResetByHandshake == Spec => BackoffResetsOnHandshake
<1>1. TInv /\ [Next]_vars => [backoff' < backoff => pc = "hello" /\ connected']_vars
  <2> SUFFICES ASSUME TInv, Next, backoff' < backoff
               PROVE  pc = "hello" /\ connected'
    OBVIOUS
  <2>1. backoff \in Nat /\ backoff <= MaxBackoff
    BY DEF TInv, TypeOK
  <2>2. CASE Acknowledged
    BY <2>2 DEF Acknowledged
  <2>3. CASE Retry
    <3>1. backoff * BackoffFactor >= backoff
      BY <2>1, BackoffAssumption
    <3>2. backoff' >= backoff
      BY <2>1, <2>3, <3>1, BackoffAssumption DEF Retry, Capped
    <3> QED
      BY <2>1, <2>3, <3>2, NextDelay DEF Retry
  <2>4. CASE backoff' = backoff
    BY <2>1, <2>4
  <2> QED
    BY <2>2, <2>3, <2>4
    DEF Next, RunForeverStep, FlushLoopStep, lifecycle, vars, Start, Dialled, DialFails,
        Rejected, HelloFails, WrongReply, SessionLost, LoopCancelled, TeardownEnds, Closed, LoopWakes,
        LoopFlushEnds, StopSeen, SocketDies, QueueLog, CallerFlushes, CallerFlushEnds,
        SetStop, Cancel, CancelAttempt, CancelSession, CancelIgnored, CancelPause
<1> QED
  BY <1>1, TInit, TStep, PTL DEF Spec, BackoffResetsOnHandshake
-----------------------------------------------------------------------------
(* What the transport tells its owner and whoever waits on the connection. *)

\* StatusIsTrue alone is not inductive: the pause before a retry follows a
\* close() that may take a while, and the owner is told before it starts.
StatusInv ==
  /\ StatusIsTrue
  /\ pc = "closing" /\ after = "retry" => told = "lost"

\* However an attempt or a session is left, its owner is told and the event is
\* cleared before the socket is closed.
LEMMA LeaveTells ==
  ASSUME NEW why, Leave(why)
  PROVE  StatusInv'
BY DEF Leave, AfterClose, StatusInv, StatusIsTrue

\* Every step of the transport and its callers keeps the status true.
LEMMA StatusStep == StatusInv /\ [Next]_vars => StatusInv'
<1> SUFFICES ASSUME StatusInv, [Next]_vars PROVE StatusInv'
  OBVIOUS
<1> USE DEF lifecycle
<1>1. CASE DialFails \/ Rejected \/ HelloFails \/ WrongReply \/ TeardownEnds \/ CancelAttempt
  BY <1>1, LeaveTells DEF DialFails, Rejected, HelloFails, WrongReply, TeardownEnds, CancelAttempt
<1>2. CASE Acknowledged
  BY <1>2 DEF Acknowledged, StatusInv, StatusIsTrue
<1>3. CASE Start \/ Dialled \/ SessionLost \/ StopSeen \/ CancelSession \/ CancelPause
  BY <1>3 DEF Start, Dialled, SessionLost, StopSeen, CancelSession, CancelPause,
     StatusInv, StatusIsTrue
<1>4. CASE Closed
  BY <1>4 DEF Closed, AfterClose, StatusInv, StatusIsTrue
<1>5. CASE Retry
  BY <1>5 DEF Retry, StatusInv, StatusIsTrue
<1>6. CASE UNCHANGED <<pc, after, connected, told>>
  BY <1>6 DEF StatusInv, StatusIsTrue
<1>7. CASE FlushLoopStep \/ LoopCancelled \/ SocketDies \/ QueueLog \/ CallerFlushes
           \/ CallerFlushEnds \/ SetStop \/ CancelIgnored \/ UNCHANGED vars
  BY <1>6, <1>7 DEF FlushLoopStep, LoopWakes, LoopFlushEnds, LoopCancelled, SocketDies,
     QueueLog, CallerFlushes, CallerFlushEnds, SetStop, CancelIgnored, vars
<1> QED
  BY <1>1, <1>2, <1>3, <1>4, <1>5, <1>7 DEF Next, RunForeverStep, Cancel

\* Whoever waits on the connection is never misled: the event is set from the
\* ack to the end of the session, and a lost connection is announced before
\* the pause that precedes the next attempt.
THEOREM StatusIsTrueHolds == Spec => []StatusIsTrue
<1>1. Init => StatusInv
  BY DEF Init, StatusInv, StatusIsTrue
<1>2. StatusInv => StatusIsTrue
  BY DEF StatusInv
<1> QED
  BY <1>1, <1>2, StatusStep, PTL DEF Spec

-----------------------------------------------------------------------------
(* Refinement: buffer, flushers and sockets are a log channel.  It rests on *)
(* HeldOnce: two flushers with a batch in common would deliver it twice.    *)

\* A flusher that gives its batch up takes it out of the flights.
LEMMA FlightEnds ==
  ASSUME TInv, HeldOnce, NEW f \in Flusher, batch' = [batch EXCEPT ![f] = <<>>]
  PROVE  Flights' = Flights \ {ToSet(batch[f])}
<1>1. /\ ToSet(batch'[f]) = {}
      /\ \A g \in Flusher \ {f} : batch'[g] = batch[g]
  BY NoEntries DEF TInv, TypeOK
<1>2. \A g \in Flusher \ {f} :
        ToSet(batch[g]) # {} => ToSet(batch[g]) # ToSet(batch[f])
  BY DEF HeldOnce
<1>3. Flights' = {ToSet(batch[g]) : g \in Flusher \ {f}} \ {{}}
  BY <1>1 DEF Flights
<1> QED
  BY <1>2, <1>3 DEF Flights

\* A flusher whose batch is empty and takes the buffer adds it to the flights.
LEMMA FlightStarts ==
  ASSUME TInv, NEW f \in Flusher, flush[f] \in {"off", "idle"}, buffer # <<>>,
         batch' = [batch EXCEPT ![f] = buffer]
  PROVE  ToSet(buffer) # {} /\ Flights' = Flights \cup {ToSet(buffer)}
<1>1. /\ batch'[f] = buffer /\ ToSet(batch[f]) = {}
      /\ \A g \in Flusher \ {f} : batch'[g] = batch[g]
  BY NoEntries DEF TInv, TypeOK, IdleIsEmpty
<1>2. ToSet(buffer) # {}
  <2>1. buffer \in Seq(1..queued)
    BY DEF TInv, TypeOK
  <2>2. Len(buffer) # 0 /\ Len(buffer) \in Nat
    BY <2>1, EmptySeq
  <2>3. 1 \in 1..Len(buffer)
    BY <2>2
  <2> QED
    BY <2>1, <2>3, InToSet
<1> QED
  BY <1>1, <1>2 DEF Flights

\* Every step of the transport is a step of the channel, or none of its.
LEMMA ChannelStep ==
  TInv /\ HeldOnce /\ [Next]_vars => [Channel!Next]_(Channel!channel)
<1> SUFFICES ASSUME TInv, HeldOnce, [Next]_vars
             PROVE  Channel!Next \/ UNCHANGED Channel!channel
  OBVIOUS
<1>b. /\ buffer \in Seq(1..queued)
      /\ \A f \in Flusher : batch[f] \in Seq(1..queued)
  BY DEF TInv, TypeOK
<1>1. CASE QueueLog
  <2>1. buffer' = Append(buffer, queued + 1) /\ queued \in Nat
    BY <1>1 DEF QueueLog, TInv, TypeOK
  <2>2. buffer \in Seq(Nat)
    <3>1. 1..queued \subseteq Nat
      OBVIOUS
    <3> QED
      BY <1>b, <3>1, SeqGrows
  <2>3. ToSet(buffer)' = ToSet(buffer) \cup {queued + 1}
    BY <2>1, <2>2, QueuedEntries
  <2>4. Flights' = Flights
    BY <1>1 DEF QueueLog, Flights
  <2>5. Channel!Accept
    BY <1>1, <2>3, <2>4 DEF QueueLog, Channel!Accept
  <2> QED
    BY <2>5 DEF Channel!Next
<1>2. ASSUME NEW f \in Flusher, flush[f] \in {"off", "idle"}, StartFlush(f)
      PROVE  Channel!Take
  <2>1. /\ buffer # <<>> /\ buffer' = <<>> /\ batch' = [batch EXCEPT ![f] = buffer]
        /\ UNCHANGED <<queued, written, lost>>
    BY <1>2 DEF StartFlush, CanFlush, TakeBatch
  <2>2. ToSet(buffer)' = {}
    BY <2>1, NoEntries
  <2>3. ToSet(buffer) # {} /\ Flights' = Flights \cup {ToSet(buffer)}
    BY <1>2, <2>1, FlightStarts
  <2> QED
    BY <2>1, <2>2, <2>3 DEF Channel!Take
<1> DEFINE Ends(B) == Channel!ComesOut(B) \/ Channel!ComesBack(B) \/ Channel!Drop(B)
<1>3. ASSUME NEW f \in Flusher, FlushSent(f) PROVE Ends(ToSet(batch[f]))
  <2>1. /\ batch' = [batch EXCEPT ![f] = <<>>] /\ written' = written \cup ToSet(batch[f])
        /\ UNCHANGED <<buffer, queued, lost>>
    BY <1>3 DEF FlushSent
  <2>2. Flights' = Flights \ {ToSet(batch[f])} /\ ToSet(buffer)' = ToSet(buffer)
    BY <2>1, FlightEnds
  <2> QED
    BY <2>1, <2>2 DEF Channel!ComesOut
<1>4. ASSUME NEW f \in Flusher, FlushClosed(f) PROVE Ends(ToSet(batch[f]))
  <2>1. /\ batch' = [batch EXCEPT ![f] = <<>>] /\ buffer' = batch[f] \o buffer
        /\ written' \in {written, written \cup ToSet(batch[f])}
        /\ UNCHANGED <<queued, lost>>
    BY <1>4 DEF FlushClosed, PutBack
  <2>2. Flights' = Flights \ {ToSet(batch[f])}
    BY <2>1, FlightEnds
  <2>3. ToSet(buffer)' = ToSet(buffer) \cup ToSet(batch[f])
    BY <1>b, <2>1, JoinedEntries
  <2> QED
    BY <2>1, <2>2, <2>3 DEF Channel!ComesBack
<1>5. ASSUME LoopCancelled PROVE Ends(ToSet(batch["loop"]))
  <2>1. /\ batch' = [batch EXCEPT !["loop"] = <<>>] /\ UNCHANGED <<buffer, queued>>
        /\ \/ written' = written \cup ToSet(batch["loop"]) /\ lost' = lost
           \/ lost' = lost \cup ToSet(batch["loop"]) /\ written' = written
    BY <1>5 DEF LoopCancelled
  <2>2. Flights' = Flights \ {ToSet(batch["loop"])} /\ ToSet(buffer)' = ToSet(buffer)
    BY <2>1, FlightEnds DEF Flusher
  <2> QED
    BY <2>1, <2>2 DEF Channel!ComesOut, Channel!Drop
<1>6. ASSUME NEW f \in Flusher, Ends(ToSet(batch[f]))
      PROVE  Channel!Next \/ UNCHANGED Channel!channel
  <2>1. CASE ToSet(batch[f]) \in Flights
    BY <1>6, <2>1 DEF Channel!Next
  <2>2. CASE ToSet(batch[f]) = {}
    <3>1. /\ Flights' = Flights /\ UNCHANGED <<queued, ToSet(buffer), written, lost>>
      BY <1>6, <2>2 DEF Channel!ComesOut, Channel!ComesBack, Channel!Drop, Flights
    <3> QED
      BY <3>1 DEF Channel!channel
  <2> QED
    BY <2>1, <2>2 DEF Flights
<1>7. CASE UNCHANGED logs
  BY <1>7 DEF logs, Channel!channel, Flights
<1> HIDE DEF Ends
<1>8. "loop" \in Flusher
  BY DEF Flusher
<1> QED
  BY <1>1, <1>2, <1>3, <1>4, <1>5, <1>6, <1>7, <1>8, LogStep DEF Channel!Next

\* The transport implements the log channel, for every number of entries: with
\* two flushes in flight, put-backs, teardowns and retries, what waits is never
\* dropped, and what is gone never comes back.
THEOREM TransportImplementsChannel == Spec => ImplementsChannel
<1>1. Init => Channel!Init
  <2> SUFFICES ASSUME Init PROVE Channel!Init
    OBVIOUS
  <2>1. ToSet(buffer) = {} /\ \A f \in Flusher : ToSet(batch[f]) = {}
    BY NoEntries DEF Init
  <2>2. Flights = {}
    BY <2>1 DEF Flights
  <2> QED
    BY <2>1, <2>2 DEF Init, Channel!Init
<1>2. Spec => []TInv
  BY TInit, TStep, PTL DEF Spec
<1> QED
  BY <1>1, <1>2, ChannelStep, EntriesAreHeldOnce, PTL
  DEF Spec, ImplementsChannel, Channel!Spec
=============================================================================
