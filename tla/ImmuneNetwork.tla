--------------------------- MODULE ImmuneNetwork ---------------------------
(***************************************************************************)
(* Immunity across the nodes: the Leukocyte agents (leukocyte_protocol.py) *)
(* and the antigen paths of the networked node (networked_node.py), over   *)
(* the relay or over the in-process network of the demo.                   *)
(*                                                                         *)
(* A payload is a context; its SHA-256 is injective in it, so the context  *)
(* stands for the hash.  The relay appears as the hub it implements        *)
(* (AntigenHub): a memory keyed by hash, a replay to each newcomer, and a  *)
(* fan-out whose frames reach a node in any order relative to the replay.  *)
(***************************************************************************)
EXTENDS MinHashLSH

CONSTANTS
  Node, Weight,
  Ctx,          \* payloads
  SigOf,        \* the signature of a payload, NoSig if it has no shingles
  Verdict,      \* the values of a finding's poisoning_candidate
  MaxAttack,    \* bound: payloads thrown at the nodes
  MaxFault,     \* bound: drops, cut fan-outs, refusals and restarts together
  NoSig, NoWeight

ASSUME SigAssumption == SigOf \in [Ctx -> Sig \cup {NoSig}] /\ NoSig \notin Sig
ASSUME WeightAssumption == NoWeight \notin Weight
ASSUME LimitAssumption == MaxAttack \in Nat /\ MaxFault \in Nat

Antigen == [weight : Weight, ctx : Ctx]

VARIABLES
  medium,       \* "relay", or "process": P2PNetworkSimulation
  link,         \* each node's connection: "down", "up" or "refused" for good
  observed,     \* contexts of the untraced entries in each weight's history
  flagged,      \* _erythrocyte_already_flagged, oscillating findings
  blacklist,    \* LeukocyteAgent.antigen_blacklist: the weight under each hash
  index,        \* fuzzy_index.entries: the weight under each signature
  tasks,        \* scheduled _broadcast_antigen tasks
  wire,         \* <<antigen, connection>>: frames a node has sent and the relay
                \* has yet to read, on its "open" connection or on one it "left"
  inbox,        \* <<antigen, loop>>: frames the relay owes each node, by the
                \* loop that sends them
  memory,       \* the antigens the relay replays
  attacks, faults,
  attacked,     \* history: <<weight, context>> of every attack that landed
  missed        \* history: <<node, antigen>> left out of a fan-out while the
                \* node was connected, on that connection

agent   == <<blacklist, index>>
finding == <<observed, flagged>>
relay   == <<inbox, memory>>
count   == <<attacks, faults>>
vars == <<medium, link, observed, flagged, blacklist, index, tasks, wire, inbox,
          memory, attacks, faults, attacked, missed>>

-----------------------------------------------------------------------------
(* LeukocyteAgent                                                          *)

Indexed(n) == {s \in Sig : index[n][s] # NoWeight}
Similar(n, c) == IF SigOf[c] = NoSig THEN {} ELSE FindSimilar(Indexed(n), SigOf[c])

\* should_block: exact match first, then the closest near-duplicate.  With
\* several closest ones for different weights the answer is open.
MustBlock(n, w, c) ==
  \/ blacklist[n][c] = w
  \/ Similar(n, c) # {} /\ \A s \in Similar(n, c) : index[n][s] = w

\* Mutant: the index keeps its newest entry only.
IndexedNewest(i, A) ==
  [s \in Sig |->
     IF \E a \in A : SigOf[a.ctx] = s THEN (CHOOSE a \in A : SigOf[a.ctx] = s).weight
     ELSE IF \E a \in A : SigOf[a.ctx] # NoSig THEN NoWeight ELSE i[s]]

\* register_antigen for each antigen of a set, all of one weight.
IndexedWith(i, A) ==
  [s \in Sig |->
     IF \E a \in A : SigOf[a.ctx] = s THEN (CHOOSE a \in A : SigOf[a.ctx] = s).weight
     ELSE i[s]]
ListedWith(l, A) ==
  [c \in Ctx |-> IF \E a \in A : a.ctx = c THEN (CHOOSE a \in A : a.ctx = c).weight ELSE l[c]]

RegisterAt(N, A) ==
  /\ blacklist' = [n \in Node |-> IF n \in N THEN ListedWith(blacklist[n], A) ELSE blacklist[n]]
  /\ index' = [n \in Node |-> IF n \in N THEN IndexedWith(index[n], A) ELSE index[n]]

-----------------------------------------------------------------------------
Blank == [blacklist |-> [c \in Ctx |-> NoWeight],
          index |-> [s \in Sig |-> NoWeight],
          observed |-> [w \in Weight |-> {}]]

Init ==
  /\ medium \in {"relay", "process"}
  /\ link = [n \in Node |-> "down"]
  /\ observed = [n \in Node |-> Blank.observed]
  /\ flagged = [n \in Node |-> {}]
  /\ blacklist = [n \in Node |-> Blank.blacklist]
  /\ index = [n \in Node |-> Blank.index]
  /\ tasks = [n \in Node |-> {}]
  /\ wire = [n \in Node |-> {}]
  /\ inbox = [n \in Node |-> {}]
  /\ memory = {}
  /\ attacks = 0 /\ faults = 0
  /\ attacked = {} /\ missed = {}

\* A payload arrives.  One that is not blocked is written to the weight, from
\* an untraced source and with its context.
Attack(n, w, c) ==
  /\ attacks < MaxAttack
  /\ attacks' = attacks + 1
  /\ ~MustBlock(n, w, c)
  /\ observed' = [observed EXCEPT ![n][w] = @ \cup {c}]
  /\ attacked' = attacked \cup {<<w, c>>}
  /\ UNCHANGED <<medium, link, flagged, agent, tasks, wire, relay, faults, missed>>

\* Mutant: the contexts of every weight are blamed on the one found.
FingerprintsOfAll(n, w, kept) == [weight : {w}, ctx : UNION {observed[n][v] : v \in Weight}]

\* One antigen per distinct context among the untraced entries of the weight.
Fingerprints(n, w, kept) == [weight : {w}, ctx : kept]

\* broadcast_antigen of the in-process network registers with every node.
InProcessAudience(n) == Node

\* The scan finds w oscillating, once per weight and verdict: the hook
\* vaccinates the node and schedules a broadcast of each antigen, or hands it
\* to every agent at once.  The history is bounded: later writes may have pushed
\* out some of the entries.
Escalate(n, w, v) ==
  \E kept \in SUBSET observed[n][w] :
    LET found == Fingerprints(n, w, kept)
    IN /\ <<w, v>> \notin flagged[n]
       /\ flagged' = [flagged EXCEPT ![n] = @ \cup {<<w, v>>}]
       /\ observed' = [observed EXCEPT ![n][w] = kept]
       /\ \/ /\ medium = "relay"
             /\ RegisterAt({n}, found)
             /\ tasks' = [tasks EXCEPT ![n] = @ \cup found]
          \/ /\ medium = "process"
             /\ RegisterAt(InProcessAudience(n), found)
             /\ UNCHANGED tasks
       /\ UNCHANGED <<medium, link, wire, relay, count, attacked, missed>>

\* The broadcast task runs while the node is connected: its frame is on the way.
Send(n, a) ==
  /\ a \in tasks[n]
  /\ link[n] = "up"
  /\ tasks' = [tasks EXCEPT ![n] = @ \ {a}]
  /\ wire' = [wire EXCEPT ![n] = @ \cup {<<a, "open">>}]
  /\ UNCHANGED <<medium, link, finding, agent, relay, count, attacked, missed>>

\* Not connected: logged, not queued.
LoseBroadcast(n, a) ==
  /\ a \in tasks[n]
  /\ link[n] # "up"
  /\ tasks' = [tasks EXCEPT ![n] = @ \ {a}]
  /\ UNCHANGED <<medium, link, finding, agent, wire, relay, count, attacked, missed>>

\* Keyed by hash, the latest report wins.
Remembered(a) == {b \in memory : b.ctx # a.ctx} \cup {a}

ForwardTo(n) == {m \in Node \ {n} : link[m] = "up"}

\* The sender's id is left out of the fan-out, even when the frame comes from a
\* connection it left and another one is up.
PassedOver(n, f) == IF f[2] = "left" /\ link[n] = "up" THEN {<<n, f[1]>>} ELSE {}

\* The relay reads a frame of n: it remembers the antigen and owes it to every
\* other node.
Dispatch(n, f) ==
  /\ f \in wire[n]
  /\ wire' = [wire EXCEPT ![n] = @ \ {f}]
  /\ memory' = Remembered(f[1])
  /\ inbox' = [m \in Node |-> IF m \in ForwardTo(n) THEN inbox[m] \cup {<<f[1], "live">>}
                                                    ELSE inbox[m]]
  /\ missed' = missed \cup PassedOver(n, f)
  /\ UNCHANGED <<medium, link, finding, agent, tasks, count, attacked>>

\* Frames of a connection that ends: the relay may still read some of them.
InTransit == UNION {{n} \X wire[n] : n \in Node}
Unread(n, read) == {<<f[1], "left">> : f \in {g \in wire[n] : g[2] = "left" \/ <<n, g>> \in read}}

\* A target that comes after the first has left when its turn comes: the rest
\* is cut off, and the handler that read the frame ends with what it had yet to
\* read.
DispatchAborted(n, f) ==
  /\ faults < MaxFault
  /\ faults' = faults + 1
  /\ f \in wire[n]
  /\ memory' = Remembered(f[1])
  /\ \E gone \in SUBSET ForwardTo(n) \ {{}}, read \in SUBSET InTransit :
     \E served \in SUBSET (ForwardTo(n) \ gone) :
       LET ended == IF f[2] = "open" THEN gone \cup {n} ELSE gone
           rest == ForwardTo(n) \ (gone \cup served)
           kept == {g \in wire[n] \ {f} : g[2] # f[2] \/ (g[2] = "left" /\ <<n, g>> \in read)}
       IN /\ served # {} \/ \E m \in gone : gone # {m}
          /\ link' = [m \in Node |-> IF m \in ended THEN "down" ELSE link[m]]
          /\ inbox' = [m \in Node |-> IF m \in ended THEN {}
                                      ELSE IF m \in served THEN inbox[m] \cup {<<f[1], "live">>}
                                      ELSE inbox[m]]
          /\ missed' = {x \in missed : x[1] \notin ended} \cup (rest \X {f[1]}) \cup PassedOver(n, f)
          /\ wire' = [m \in Node |-> IF m = n THEN kept
                                     ELSE IF m \in gone THEN Unread(m, read) ELSE wire[m]]
  /\ UNCHANGED <<medium, finding, agent, tasks, attacks, attacked>>

\* Mutant: the relay sends a newcomer nothing.
NoCatchUp == {}

CatchUp == memory \X {"replay"}

\* A login, and the replay of what the relay remembers.
Connect(n) ==
  /\ medium = "relay"
  /\ link[n] = "down"
  /\ link' = [link EXCEPT ![n] = "up"]
  /\ inbox' = [inbox EXCEPT ![n] = CatchUp]
  /\ UNCHANGED <<medium, finding, agent, tasks, wire, memory, count, attacked, missed>>

\* The token is refused: run_forever ends and nothing starts it again.
Refuse(n) ==
  /\ medium = "relay"
  /\ faults < MaxFault
  /\ faults' = faults + 1
  /\ link[n] = "down"
  /\ link' = [link EXCEPT ![n] = "refused"]
  /\ UNCHANGED <<medium, finding, agent, tasks, wire, relay, attacks, attacked, missed>>

\* A connection ends, with the frames it owes the node.
Leave(n) ==
  /\ link' = [link EXCEPT ![n] = "down"]
  /\ inbox' = [inbox EXCEPT ![n] = {}]
  /\ missed' = {x \in missed : x[1] # n}
  /\ \E read \in SUBSET ({n} \X wire[n]) : wire' = [wire EXCEPT ![n] = Unread(n, read)]

Disconnect(n) ==
  /\ faults < MaxFault
  /\ faults' = faults + 1
  /\ link[n] = "up"
  /\ Leave(n)
  /\ UNCHANGED <<medium, finding, agent, tasks, memory, attacks, attacked>>

\* _on_network_antigen: whatever comes is registered.
Receive(n) ==
  \E f \in inbox[n] :
    /\ inbox' = [inbox EXCEPT ![n] = @ \ {f}]
    /\ RegisterAt({n}, {f[1]})
    /\ UNCHANGED <<medium, link, finding, tasks, wire, memory, count, attacked, missed>>

\* A node's process starts again with nothing.
NodeRestart(n) ==
  /\ medium = "relay"
  /\ faults < MaxFault
  /\ faults' = faults + 1
  /\ Leave(n)
  /\ observed' = [observed EXCEPT ![n] = Blank.observed]
  /\ flagged' = [flagged EXCEPT ![n] = {}]
  /\ blacklist' = [blacklist EXCEPT ![n] = Blank.blacklist]
  /\ index' = [index EXCEPT ![n] = Blank.index]
  /\ tasks' = [tasks EXCEPT ![n] = {}]
  /\ UNCHANGED <<medium, memory, attacks, attacked>>

\* The relay's process starts again with nothing; every connection drops.
RelayRestart ==
  /\ medium = "relay"
  /\ faults < MaxFault
  /\ faults' = faults + 1
  /\ memory' = {}
  /\ wire' = [n \in Node |-> {}]
  /\ inbox' = [n \in Node |-> {}]
  /\ missed' = {}
  /\ link' = [n \in Node |-> IF link[n] = "up" THEN "down" ELSE link[n]]
  /\ UNCHANGED <<medium, finding, agent, tasks, attacks, attacked>>

RunTasks(n) == \E a \in tasks[n] : Send(n, a) \/ LoseBroadcast(n, a)
ReadWire(n) == \E f \in wire[n] : Dispatch(n, f) \/ DispatchAborted(n, f)

Next ==
  \/ \E n \in Node, w \in Weight, c \in Ctx : Attack(n, w, c)
  \/ \E n \in Node, w \in Weight, v \in Verdict : Escalate(n, w, v)
  \/ \E n \in Node : \/ RunTasks(n) \/ ReadWire(n) \/ Receive(n)
                     \/ Connect(n) \/ Refuse(n) \/ Disconnect(n) \/ NodeRestart(n)
  \/ RelayRestart

Spec == Init /\ [][Next]_vars

\* The event loops run every scheduled task and read every frame.
FairSpec == Spec /\ \A n \in Node : WF_vars(RunTasks(n)) /\ WF_vars(ReadWire(n)) /\ WF_vars(Receive(n))

-----------------------------------------------------------------------------
(* Properties                                                              *)

ImmuneTypeOK ==
  /\ medium \in {"relay", "process"}
  /\ link \in [Node -> {"down", "up", "refused"}]
  /\ observed \in [Node -> [Weight -> SUBSET Ctx]]
  /\ flagged \in [Node -> SUBSET (Weight \X Verdict)]
  /\ blacklist \in [Node -> [Ctx -> Weight \cup {NoWeight}]]
  /\ index \in [Node -> [Sig -> Weight \cup {NoWeight}]]
  /\ tasks \in [Node -> SUBSET Antigen]
  /\ wire \in [Node -> SUBSET (Antigen \X {"open", "left"})]
  /\ inbox \in [Node -> SUBSET (Antigen \X {"replay", "live"})]
  /\ memory \subseteq Antigen
  /\ attacks \in Nat /\ faults \in Nat
  /\ attacked \subseteq Weight \X Ctx
  /\ missed \subseteq Node \X Antigen

\* Nothing circulates that was not a real attack: an antigen in any blacklist,
\* task, frame or memory names a payload that did land on that very weight,
\* somewhere ("not a placeholder", networked_node.py:221-225).
VaccinesAreReal ==
  /\ \A n \in Node : \A c \in Ctx : blacklist[n][c] # NoWeight => <<blacklist[n][c], c>> \in attacked
  /\ \A n \in Node : \A a \in tasks[n] : <<a.weight, a.ctx>> \in attacked
  /\ \A n \in Node : \A f \in wire[n] \cup inbox[n] : <<f[1].weight, f[1].ctx>> \in attacked
  /\ \A a \in memory : <<a.weight, a.ctx>> \in attacked

\* A node that would block a payload goes on blocking it, whatever is
\* registered in whatever order, until it registers an antigen of another
\* weight (which may take over the hash, the signature or the closest match)
\* or its process ends.
ImmunityEndsOnlyByOtherWeight ==
  [][\A n \in Node, w \in Weight, c \in Ctx :
       MustBlock(n, w, c) /\ ~MustBlock(n, w, c)' =>
         \/ \E d \in Ctx : blacklist'[n][d] \notin {blacklist[n][d], w, NoWeight}
         \/ \E s \in Sig : index'[n][s] \notin {index[n][s], w, NoWeight}
         \/ blacklist'[n] = Blank.blacklist /\ index'[n] = Blank.index]_vars

\* The banded lookup answers as comparing with every registered signature
\* would ("real matches are never missed", leukocyte_protocol.py:136-141).
IndexIsComplete ==
  \A n \in Node : \A s \in Sig : FindSimilar(Indexed(n), s) = Closest(Indexed(n), s)

\* The agents of the in-process network never differ: one broadcast reaches
\* them all in one step.
InProcessNodesAgree ==
  medium = "process" =>
    \A n, m \in Node : blacklist[n] = blacklist[m] /\ index[n] = index[m]

\* No connected node is blind to what the relay remembers: each remembered
\* payload is in its blacklist, or on its way in a frame, or was left out of a
\* fan-out on this very connection, by an abort or because the frame was its own
\* and it has lost its memory since.  Drops, restarts and the races of replay and
\* broadcast leave no other hole (README.md:101-105).
NobodyIsBlind ==
  \A m \in Node : link[m] = "up" =>
    \A a \in memory :
      \/ blacklist[m][a.ctx] # NoWeight
      \/ \E f \in inbox[m] : f[1].ctx = a.ctx
      \/ \E x \in missed : x[1] = m /\ x[2].ctx = a.ctx

\* What a connected node has still to learn: payloads raised anywhere, on their
\* way or remembered by the relay, but for those left out on this connection.
Raised == memory \cup UNION {tasks[n] \cup {f[1] : f \in wire[n]} : n \in Node}
StillToLearn(m) ==
  {c \in Ctx : /\ link[m] = "up" /\ blacklist[m][c] = NoWeight
               /\ \E a \in Raised : a.ctx = c
               /\ \A x \in missed : x[1] = m => x[2].ctx # c}

\* A node that is and stays connected catches up with whatever was raised by
\* any node, before or after it joined, again and again.
EventuallyImmune == \A m \in Node : []<>(StillToLearn(m) = {})
=============================================================================
