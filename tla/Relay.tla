------------------------------- MODULE Relay -------------------------------
(***************************************************************************)
(* The bootstrap relay (bootstrap_relay.py): one asyncio process, one      *)
(* coroutine Relay.handle per WebSocket.  Handlers interleave at every     *)
(* await, so each action below is the code between two awaits.             *)
(*                                                                         *)
(* Awaits modelled: the first recv of the handshake, the hello_ack send,   *)
(* every send of the catch-up replay, every send of a fan-out (the target  *)
(* socket is looked up before the await, the frame is written or refused   *)
(* when it ends; the first look-up follows the list of targets at once)    *)
(* and the wait for the next frame.  Frames are modelled by their antigen  *)
(* payloads; heartbeats change nothing.                                    *)
(***************************************************************************)
EXTENDS Naturals, FiniteSets, SequencesExt

CONSTANTS
  Node,         \* node ids listed in node_tokens.json
  Sess,         \* WebSocket connections; a finished one is reused as a new one
  Payload,      \* antigen payloads
  Key,          \* their signature hashes
  KeyOf,        \* the signature hash of a payload
  MaxKnown,     \* MAX_KNOWN_ANTIGENS
  MaxPublish,   \* bound: antigen frames dispatched by one relay process
  MaxRestart,   \* bound: restarts of the relay process
  NoNode, NoSess, NoPayload

ASSUME KeyAssumption == KeyOf \in [Payload -> Key]
ASSUME CacheAssumption == MaxKnown \in Nat \ {0}
ASSUME BoundAssumption == MaxPublish \in Nat /\ MaxRestart \in Nat
ASSUME NullAssumption ==
  NoNode \notin Node /\ NoSess \notin Sess /\ NoPayload \notin Payload

VARIABLES
  pc,           \* where each handler coroutine is
  who,          \* the authenticated node_id of each handler
  open,         \* the sockets that can still carry a frame
  connections,  \* Relay.connections
  known,        \* Relay.known_antigens, oldest first
  todo,         \* what the catch-up replay of a handler still has to send
  msg,          \* the payload a handler is fanning out
  targets,      \* the node ids its fan-out has not reached yet
  peer,         \* the socket its fan-out is waiting on
  restarts,
  has,          \* history: payloads that went over each socket, to the node or
                \* from it
  skipped,      \* history: <<socket, payload>> an aborted fan-out left out
  unechoed,     \* history: <<socket, payload>> dispatched from an older socket of
                \* the same node id, which is a target of no fan-out of its own
  published     \* history: payloads dispatched by this relay process

handlers == <<pc, who, todo>>
fanout   == <<msg, targets, peer>>
history  == <<skipped, unechoed, published>>
vars == <<pc, who, open, connections, known, todo, msg, targets, peer,
          restarts, has, skipped, unechoed, published>>

-----------------------------------------------------------------------------
(* The antigen store, an insertion-ordered dict keyed by signature hash.   *)

Pop(dict, key) ==
  IF \E i \in DOMAIN dict : KeyOf[dict[i]] = key
  THEN RemoveAt(dict, CHOOSE i \in DOMAIN dict : KeyOf[dict[i]] = key)
  ELSE dict

NewestOf(dict) ==
  IF Len(dict) > MaxKnown
  THEN SubSeq(dict, Len(dict) - MaxKnown + 1, Len(dict))
  ELSE dict

\* Mutant: assigning to a key the dict holds, without the pop, keeps its place.
RememberInPlace(dict, p) ==
  IF \E i \in DOMAIN dict : KeyOf[dict[i]] = KeyOf[p]
  THEN [dict EXCEPT ![CHOOSE i \in DOMAIN dict : KeyOf[dict[i]] = KeyOf[p]] = p]
  ELSE NewestOf(Append(dict, p))

Remember(dict, p) == NewestOf(Append(Pop(dict, KeyOf[p]), p))

-----------------------------------------------------------------------------
Live(s) == pc[s] \in {"sync", "recv", "fan"}
Registered(s) == \E n \in Node : connections[n] = s

Init ==
  /\ pc = [s \in Sess |-> "closed"]
  /\ who = [s \in Sess |-> NoNode]
  /\ open = {}
  /\ connections = [n \in Node |-> NoSess]
  /\ known = <<>>
  /\ todo = [s \in Sess |-> <<>>]
  /\ msg = [s \in Sess |-> NoPayload]
  /\ targets = [s \in Sess |-> {}]
  /\ peer = [s \in Sess |-> NoSess]
  /\ restarts = 0
  /\ has = [s \in Sess |-> {}]
  /\ skipped = {}
  /\ unechoed = {}
  /\ published = <<>>

\* Mutant: the identity test of the finally block is dropped.
UnregisterAlways(s) ==
  connections' = [n \in Node |-> IF n = who[s] THEN NoSess ELSE connections[n]]

\* Mutant: the id is freed only while the socket still looks open.
UnregisterIfOpen(s) ==
  connections' = [n \in Node |-> IF n = who[s] /\ connections[n] = s /\ s \in open
                                 THEN NoSess ELSE connections[n]]

\* The finally block of handle: the id is freed only if it is still ours.
Unregister(s) ==
  connections' = [n \in Node |-> IF n = who[s] /\ connections[n] = s
                                 THEN NoSess ELSE connections[n]]

\* The handler returns or raises: its locals are gone and its socket is closed.
HandlerEnds(s) ==
  /\ pc' = [pc EXCEPT ![s] = "closed"]
  /\ who' = [who EXCEPT ![s] = NoNode]
  /\ open' = open \ {s}
  /\ has' = [has EXCEPT ![s] = {}]
  /\ Unregister(s)

\* The server accepts a new socket, one that nothing refers to yet, and starts
\* its handler.
Accept(s) ==
  /\ pc[s] = "closed"
  /\ \A h \in Sess : peer[h] # s
  /\ pc' = [pc EXCEPT ![s] = "hello"]
  /\ open' = open \cup {s}
  /\ UNCHANGED <<who, connections, known, todo, fanout, restarts, has, history>>

\* A valid hello: the token matches and hello_ack goes out.
Authenticate(s, n) ==
  /\ pc[s] = "hello"
  /\ s \in open
  /\ pc' = [pc EXCEPT ![s] = "acked"]
  /\ who' = [who EXCEPT ![s] = n]
  /\ UNCHANGED <<open, connections, known, todo, fanout, restarts, has, history>>

\* Timeout, early close, invalid json, not a hello, a wrong token, or a socket
\* that closes under the hello_ack.
Reject(s) ==
  /\ pc[s] = "hello" \/ (pc[s] = "acked" /\ s \notin open)
  /\ HandlerEnds(s)
  /\ UNCHANGED <<known, todo, fanout, restarts, history>>

\* Mutant: the replay is skipped for an id that is still registered.
RegisterWithoutReplay(s) ==
  /\ pc[s] = "acked"
  /\ connections' = [connections EXCEPT ![who[s]] = s]
  /\ todo' = [todo EXCEPT ![s] = IF connections[who[s]] = NoSess THEN known ELSE <<>>]
  /\ pc' = [pc EXCEPT ![s] = IF todo'[s] = <<>> THEN "recv" ELSE "sync"]
  /\ UNCHANGED <<who, open, known, fanout, restarts, has, history>>

\* connections[node_id] = ws, then the snapshot of the catch-up replay: no
\* await separates the two.
Register(s) ==
  /\ pc[s] = "acked"
  /\ connections' = [connections EXCEPT ![who[s]] = s]
  /\ todo' = [todo EXCEPT ![s] = known]
  /\ pc' = [pc EXCEPT ![s] = IF known = <<>> THEN "recv" ELSE "sync"]
  /\ UNCHANGED <<who, open, known, fanout, restarts, has, history>>

\* Mutant: off by one, the replay waits for a send it does not have.
ReplayOneMore(s) ==
  /\ pc[s] = "sync"
  /\ s \in open
  /\ has' = [has EXCEPT ![s] = @ \cup {Head(todo[s])}]
  /\ todo' = [todo EXCEPT ![s] = Tail(@)]
  /\ UNCHANGED <<pc, who, open, connections, known, fanout, restarts, history>>

\* Mutant: the replay returns after its first send.
ReplayFirstOnly(s) ==
  /\ pc[s] = "sync"
  /\ s \in open
  /\ has' = [has EXCEPT ![s] = @ \cup {Head(todo[s])}]
  /\ todo' = [todo EXCEPT ![s] = <<>>]
  /\ pc' = [pc EXCEPT ![s] = "recv"]
  /\ UNCHANGED <<who, open, connections, known, fanout, restarts, history>>

\* One send of the replay.
Replay(s) ==
  /\ pc[s] = "sync"
  /\ s \in open
  /\ has' = [has EXCEPT ![s] = @ \cup {Head(todo[s])}]
  /\ todo' = [todo EXCEPT ![s] = Tail(@)]
  /\ pc' = [pc EXCEPT ![s] = IF Len(todo[s]) = 1 THEN "recv" ELSE "sync"]
  /\ UNCHANGED <<who, open, connections, known, fanout, restarts, history>>

\* The replay hits a closed socket and returns; the consume loop follows.
ReplayClosed(s) ==
  /\ pc[s] = "sync"
  /\ s \notin open
  /\ todo' = [todo EXCEPT ![s] = <<>>]
  /\ pc' = [pc EXCEPT ![s] = "recv"]
  /\ UNCHANGED <<who, open, connections, known, fanout, restarts, has, history>>

\* _dispatch of an antigen frame: remember it, list the targets, look the first
\* of them up and await its send.  Frames buffered before the peer went away are
\* still dispatched, also when the node has logged in again since: its id is no
\* target, whichever socket holds it now.
Dispatch(s, p) ==
  LET others == {n \in Node : connections[n] # NoSess /\ n # who[s]}
      newer == {connections[who[s]]} \ {s, NoSess}
  IN /\ pc[s] = "recv"
     /\ Len(published) < MaxPublish
     /\ known' = Remember(known, p)
     /\ \/ others = {} /\ UNCHANGED <<pc, msg, targets, peer>>
        \/ \E n \in others :
             /\ pc' = [pc EXCEPT ![s] = "fan"]
             /\ msg' = [msg EXCEPT ![s] = p]
             /\ targets' = [targets EXCEPT ![s] = others \ {n}]
             /\ peer' = [peer EXCEPT ![s] = connections[n]]
     /\ has' = [has EXCEPT ![s] = @ \cup {p}]
     /\ unechoed' = unechoed \cup {<<t, p>> : t \in newer}
     /\ published' = Append(published, p)
     /\ UNCHANGED <<who, open, connections, todo, restarts, skipped>>

\* The next target's socket is looked up and its send awaited.
FanOut(s, n) ==
  /\ pc[s] = "fan"
  /\ peer[s] = NoSess
  /\ n \in targets[s]
  /\ connections[n] # NoSess
  /\ targets' = [targets EXCEPT ![s] = @ \ {n}]
  /\ peer' = [peer EXCEPT ![s] = connections[n]]
  /\ UNCHANGED <<handlers, open, connections, known, msg, restarts, has, history>>

\* The awaited send ends: the frame is written, or ConnectionClosed is caught
\* and the loop continues.
FanOutSent(s) ==
  /\ pc[s] = "fan"
  /\ peer[s] \in open
  /\ has' = [has EXCEPT ![peer[s]] = @ \cup {msg[s]}]
  /\ peer' = [peer EXCEPT ![s] = NoSess]
  /\ UNCHANGED <<handlers, open, connections, known, msg, targets, restarts, history>>

\* Mutant: a closed target ends the loop instead of continuing it.
FanOutClosedEnds(s) ==
  /\ pc[s] = "fan"
  /\ peer[s] \in Sess \ open
  /\ peer' = [peer EXCEPT ![s] = NoSess]
  /\ targets' = [targets EXCEPT ![s] = {}]
  /\ UNCHANGED <<handlers, open, connections, known, msg, restarts, has, history>>

FanOutClosed(s) ==
  /\ pc[s] = "fan"
  /\ peer[s] \in Sess \ open
  /\ peer' = [peer EXCEPT ![s] = NoSess]
  /\ UNCHANGED <<handlers, open, connections, known, msg, targets, restarts, has, history>>

FanOutDone(s) ==
  /\ pc[s] = "fan"
  /\ peer[s] = NoSess
  /\ targets[s] = {}
  /\ pc' = [pc EXCEPT ![s] = "recv"]
  /\ msg' = [msg EXCEPT ![s] = NoPayload]
  /\ UNCHANGED <<who, open, connections, known, todo, targets, peer, restarts, has, history>>

\* The loop looks up a target that has left since the fan-out began: KeyError
\* escapes _dispatch, ends the sender's handler and drops the other targets.
FanOutAborted(s, n) ==
  /\ pc[s] = "fan"
  /\ peer[s] = NoSess
  /\ n \in targets[s]
  /\ connections[n] = NoSess
  /\ skipped' = {x \in skipped \cup {<<connections[m], msg[s]>> : m \in targets[s]} :
                 x[1] \notin {s, NoSess}}
  /\ targets' = [targets EXCEPT ![s] = {}]
  /\ msg' = [msg EXCEPT ![s] = NoPayload]
  /\ unechoed' = {x \in unechoed : x[1] # s}
  /\ HandlerEnds(s)
  /\ UNCHANGED <<known, todo, peer, restarts, published>>

\* The consume loop ends because its socket is closed.
Disconnect(s) ==
  /\ pc[s] = "recv"
  /\ s \notin open
  /\ skipped' = {x \in skipped : x[1] # s}
  /\ unechoed' = {x \in unechoed : x[1] # s}
  /\ HandlerEnds(s)
  /\ UNCHANGED <<known, todo, fanout, restarts, published>>

\* A socket dies under its handler: the peer closes it, the network drops it
\* or the keepalive gives up.  Before registration it only ends the handshake.
Drop(s) ==
  /\ s \in open
  /\ open' = open \ {s}
  /\ UNCHANGED <<handlers, connections, known, fanout, restarts, has, history>>

\* The relay process stops and is started again: its state is in memory only.
Restart ==
  /\ restarts < MaxRestart
  /\ restarts' = restarts + 1
  /\ pc' = [s \in Sess |-> "closed"]
  /\ open' = {}
  /\ connections' = [n \in Node |-> NoSess]
  /\ known' = <<>>
  /\ todo' = [s \in Sess |-> <<>>]
  /\ msg' = [s \in Sess |-> NoPayload]
  /\ targets' = [s \in Sess |-> {}]
  /\ peer' = [s \in Sess |-> NoSess]
  /\ who' = [s \in Sess |-> NoNode]
  /\ has' = [s \in Sess |-> {}]
  /\ skipped' = {}
  /\ unechoed' = {}
  /\ published' = <<>>

HandlerStep(s) ==
  \/ Reject(s) \/ Register(s) \/ Replay(s) \/ ReplayClosed(s)
  \/ FanOutSent(s) \/ FanOutClosed(s) \/ FanOutDone(s) \/ Disconnect(s)
  \/ \E n \in Node : FanOut(s, n) \/ FanOutAborted(s, n)

Next ==
  \/ \E s \in Sess : HandlerStep(s) \/ Accept(s) \/ Drop(s)
  \/ \E s \in Sess, n \in Node : Authenticate(s, n)
  \/ \E s \in Sess, p \in Payload : Dispatch(s, p)
  \/ Restart

Spec == Init /\ [][Next]_vars

\* asyncio runs every ready handler, and the keepalive of websockets (pings
\* every 20 s, 20 s to answer) ends every send that its peer blocks.
FairSpec == Spec /\ \A s \in Sess : WF_vars(HandlerStep(s))

-----------------------------------------------------------------------------
(* Properties                                                              *)

\* Every variable stays within the values its code can hold.
TypeOK ==
  /\ pc \in [Sess -> {"closed", "hello", "acked", "sync", "recv", "fan"}]
  /\ who \in [Sess -> Node \cup {NoNode}]
  /\ \A s \in Sess : pc[s] \in {"acked", "sync", "recv", "fan"} => who[s] \in Node
  /\ open \subseteq Sess
  /\ connections \in [Node -> Sess \cup {NoSess}]
  /\ known \in Seq(Payload)
  /\ todo \in [Sess -> Seq(Payload)]
  /\ \A s \in Sess : pc[s] = "sync" => todo[s] # <<>>
  /\ msg \in [Sess -> Payload \cup {NoPayload}]
  /\ \A s \in Sess : pc[s] = "fan" => msg[s] \in Payload
  /\ targets \in [Sess -> SUBSET Node]
  /\ peer \in [Sess -> Sess \cup {NoSess}]
  /\ restarts \in Nat
  /\ has \in [Sess -> SUBSET Payload]
  /\ skipped \subseteq Sess \X Payload
  /\ unechoed \subseteq Sess \X Payload
  /\ published \in Seq(Payload)

\* Some fan-out still has p to write to node n, whose socket is s.
InFlight(n, s, p) ==
  \E h \in Sess : /\ pc[h] = "fan"
                  /\ msg[h] = p
                  /\ n \in targets[h] \/ peer[h] = s

\* p went over the socket s of node n, or is about to be sent on it.
Covered(n, s, p) ==
  \/ p \in has[s]
  \/ p \in ToSet(todo[s])
  \/ InFlight(n, s, p)

\* A registered, open socket misses no antigen the relay still remembers: each
\* one went over it, or a replay or a fan-out still has it to send.  The join
\* races every broadcast (bootstrap_relay.py:137-143 against :199-204).  Two
\* things alone leave a hole: a fan-out that aborted, and a frame that an older
\* socket of the same node id still had in its buffer.
NoBlindSpot ==
  \A n \in Node :
    LET s == connections[n]
    IN s \in open =>
         \A p \in ToSet(known) : Covered(n, s, p) \/ <<s, p>> \in skipped \cup unechoed

\* "the relay fans antigen broadcasts back out to everyone else"
\* (bootstrap_relay.py:11-12): no registered, open socket of another node is
\* left out.
FansOutToEveryoneElse ==
  \A n \in Node :
    LET s == connections[n]
    IN s \in open => \A p \in ToSet(known) : Covered(n, s, p) \/ <<s, p>> \in unechoed

\* A registered socket belongs to its node and its handler still runs: no path
\* out of handle leaves a dead entry behind for fan-outs to send to.
NoStaleRegistration ==
  \A n \in Node :
    LET s == connections[n] IN s # NoSess => who[s] = n /\ Live(s)

\* A node id loses its registered socket only to a newer login of the same id
\* or to the end of that socket's own handler: a superseded handler that ends
\* late does not take the newer login's registration with it.
RegistrationHeld ==
  [][\A n \in Node :
       LET s == connections[n]
           t == connections'[n]
       IN s # NoSess /\ t # s =>
            \/ pc'[s] = "closed"
            \/ t # NoSess /\ pc[t] = "acked" /\ who[t] = n]_vars

\* The positions of q that no later report of the same hash replaces.
Latest(q) ==
  {i \in 1..Len(q) : \A j \in 1..Len(q) : j > i => KeyOf[q[j]] # KeyOf[q[i]]}

\* The store is what its comment promises (re-insert to keep most-recent
\* ordering, then trim from the front): the MaxKnown most recently reported
\* hashes of this process, each with its latest payload, oldest first.
KnownIsMostRecent ==
  LET latest == Latest(published)
      newer(i) == Cardinality({j \in latest : j > i})
  IN /\ Len(known) = Min({MaxKnown, Cardinality(latest)})
     /\ \A i \in latest :
          newer(i) < MaxKnown => known[Len(known) - newer(i)] = published[i]

\* Whatever is remembered reaches every registered socket in the end, unless
\* the socket goes away first or the hole is one of NoBlindSpot's: a replay or
\* fan-out stuck behind another one would leave a connected node unprotected.
EventuallyServed ==
  \A s \in Sess, p \in Payload :
    (Registered(s) /\ p \in ToSet(known))
      ~> \/ p \in has[s]
         \/ <<s, p>> \in skipped \cup unechoed
         \/ ~(Registered(s) /\ s \in open)

-----------------------------------------------------------------------------
(* What the handlers add up to.                                            *)

\* The frames some loop still means to write to s: the rest of its replay, and
\* the fan-outs that wait on it or have its node on their list.
Owed(s) ==
  (IF pc[s] = "sync" THEN ToSet(todo[s]) ELSE {})
    \cup {msg[h] : h \in {g \in Sess :
                         /\ pc[g] = "fan"
                         /\ peer[g] = s \/ \E n \in targets[g] : connections[n] = s}}

Hub == INSTANCE AntigenHub
         WITH seat <- connections, alive <- open, memory <- ToSet(known),
              inbox <- [s \in Sess |-> Owed(s)], lost <- skipped \cup unechoed,
              published <- ToSet(published)

\* The interleaved handlers implement a hub with a memory: one step of the hub
\* per step that shows, none in between.  A debt to a live socket is paid or put
\* on record, however joins, fan-outs, aborts and drops cut into each other
\* (bootstrap_relay.py:123-217).
ImplementsHub == Hub!Spec
=============================================================================
