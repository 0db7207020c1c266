---------------------------- MODULE ImmuneProofs ----------------------------
(***************************************************************************)
(* What holds of ImmuneNetwork and of its near-duplicate index for every   *)
(* number of nodes, weights, payloads, signatures, bands and slots.        *)
(***************************************************************************)
EXTENDS ImmuneNetwork, FiniteSetTheorems, TLAPS

-----------------------------------------------------------------------------
(* The banded index.                                                       *)

\* Distances are natural numbers: only finitely many slots can differ.
LEMMA DistanceIsNat ==
  ASSUME NEW s \in Sig, NEW t \in Sig
  PROVE  /\ IsFiniteSet(Misses(s, t))
         /\ Distance[s][t] = Cardinality(Misses(s, t))
         /\ Distance[s][t] \in Nat
<1>1. IsFiniteSet(Slot)
  BY SlotAssumption, FS_Product DEF Slot
<1>2. IsFiniteSet(Misses(s, t))
  BY <1>1, FS_Subset DEF Misses
<1> QED
  BY <1>2, FS_CardinalityType DEF Distance

\* Fewer differing slots than bands: some band is left without one.  Otherwise
\* each band would have a differing slot of its own.
LEMMA Recall ==
  ASSUME NEW s \in Sig, NEW t \in Sig, Distance[s][t] <= MaxMiss
  PROVE  t \in Bucket[s]
<1> SUFFICES ASSUME \A b \in Band : BandKey(t, b) # BandKey(s, b) PROVE FALSE
  BY DEF Bucket
<1>1. \A b \in Band : \E r \in Row : SlotsOf[s][<<b, r>>] # SlotsOf[t][<<b, r>>]
  BY DEF BandKey
<1> DEFINE g == [b \in Band |->
                   CHOOSE x \in Misses(s, t) : x[1] = b]
<1>2. ASSUME NEW b \in Band PROVE g[b] \in Misses(s, t) /\ g[b][1] = b
  <2>1. PICK r \in Row : SlotsOf[s][<<b, r>>] # SlotsOf[t][<<b, r>>]
    BY <1>1
  <2>2. <<b, r>> \in Misses(s, t) /\ <<b, r>>[1] = b
    BY <2>1 DEF Misses, Slot
  <2> QED
    BY <2>2
<1> HIDE DEF g
<1>3. g \in [Band -> Misses(s, t)]
  <2>1. g = [b \in Band |-> g[b]]
    BY DEF g
  <2> QED
    BY <1>2, <2>1
<1>4. Cardinality(Misses(s, t)) < Cardinality(Band)
  <2>1. Cardinality(Band) \in Nat
    BY SlotAssumption, FS_CardinalityType
  <2> QED
    BY <2>1, DistanceIsNat, RecallAssumption
<1>5. \E a, b \in Band : a # b /\ g[a] = g[b]
  <2> DEFINE M == Misses(s, t)
  <2>1. IsFiniteSet(M) /\ IsFiniteSet(Band)
    BY SlotAssumption, DistanceIsNat
  <2>2. g \in [Band -> M] /\ Cardinality(M) < Cardinality(Band)
    BY <1>3, <1>4
  <2> HIDE DEF M
  <2> QED
    BY <2>1, <2>2, FS_PigeonHole
<1> QED
  BY <1>2, <1>5

\* The lookup loses nothing to its bands.
LEMMA FindSimilarIsClosest ==
  ASSUME NEW I \in SUBSET Sig, NEW s \in Sig
  PROVE  FindSimilar(I, s) = Closest(I, s)
<1>1. \A t \in Sig : Distance[s][t] \in Nat /\ (Distance[s][t] <= MaxMiss => t \in Bucket[s])
  BY DistanceIsNat, Recall
<1>2. ASSUME NEW t \in Closest(I, s) PROVE t \in FindSimilar(I, s)
  BY <1>1, <1>2 DEF FindSimilar, Closest
<1>3. ASSUME NEW t \in FindSimilar(I, s) PROVE t \in Closest(I, s)
  <2>1. t \in I /\ Distance[s][t] <= MaxMiss
    BY <1>3 DEF FindSimilar, Closest
  <2>2. ASSUME NEW u \in I PROVE Distance[s][t] <= Distance[s][u]
    <3>1. CASE u \in Bucket[s]
      BY <1>3, <3>1 DEF FindSimilar, Closest
    <3>2. CASE u \notin Bucket[s]
      BY <1>1, <2>1, <3>2, RecallAssumption
    <3> QED
      BY <3>1, <3>2
  <2> QED
    BY <2>1, <2>2 DEF Closest
<1> QED
  BY <1>2, <1>3

\* However many bands, slots and signatures: as long as fewer slots may differ
\* than there are bands, the index answers as a scan of all entries would.
THEOREM IndexIsCompleteHolds == Spec => []IndexIsComplete
<1>1. IndexIsComplete
  BY FindSimilarIsClosest DEF IndexIsComplete, Indexed
<1> QED
  BY <1>1, PTL

-----------------------------------------------------------------------------
(* Types, and where antigens come from.                                    *)

Named == Weight \cup {NoWeight}

\* What registering a set of antigens does to one node's tables.
LEMMA Registering ==
  ASSUME NEW l \in [Ctx -> Named], NEW i \in [Sig -> Named], NEW A \in SUBSET Antigen
  PROVE  /\ ListedWith(l, A) \in [Ctx -> Named]
         /\ IndexedWith(i, A) \in [Sig -> Named]
         /\ \A c \in Ctx : \/ ListedWith(l, A)[c] = l[c]
                           \/ \E a \in A : a.ctx = c /\ ListedWith(l, A)[c] = a.weight
<1>1. \A c \in Ctx : (\E a \in A : a.ctx = c) =>
        /\ (CHOOSE a \in A : a.ctx = c) \in A
        /\ (CHOOSE a \in A : a.ctx = c).ctx = c
  OBVIOUS
<1>2. \A t \in Sig : (\E a \in A : SigOf[a.ctx] = t) =>
        (CHOOSE a \in A : SigOf[a.ctx] = t) \in A
  OBVIOUS
<1>3. \A a \in A : a.weight \in Weight
  BY DEF Antigen
<1>4. ListedWith(l, A) \in [Ctx -> Named]
  BY <1>1, <1>3 DEF ListedWith, Named
<1>5. IndexedWith(i, A) \in [Sig -> Named]
  BY <1>2, <1>3 DEF IndexedWith, Named
<1>6. ASSUME NEW c \in Ctx
      PROVE  \/ ListedWith(l, A)[c] = l[c]
             \/ \E a \in A : a.ctx = c /\ ListedWith(l, A)[c] = a.weight
  <2>1. CASE \E a \in A : a.ctx = c
    <3>1. ListedWith(l, A)[c] = (CHOOSE a \in A : a.ctx = c).weight
      BY <2>1 DEF ListedWith
    <3> QED
      BY <1>1, <2>1, <3>1
  <2>2. CASE ~\E a \in A : a.ctx = c
    BY <2>2 DEF ListedWith
  <2> QED
    BY <2>1, <2>2
<1> QED
  BY <1>4, <1>5, <1>6

\* The same for RegisterAt: tables keep their type, and a new entry comes from
\* one of the antigens.
LEMMA RegisterKeeps ==
  ASSUME ImmuneTypeOK, NEW N, NEW A \in SUBSET Antigen, RegisterAt(N, A)
  PROVE  /\ blacklist' \in [Node -> [Ctx -> Named]]
         /\ index' \in [Node -> [Sig -> Named]]
         /\ \A n \in Node : \A c \in Ctx :
              \/ blacklist'[n][c] = blacklist[n][c]
              \/ \E a \in A : a.ctx = c /\ blacklist'[n][c] = a.weight
<1>1. \A n \in Node : blacklist[n] \in [Ctx -> Named] /\ index[n] \in [Sig -> Named]
  BY DEF ImmuneTypeOK, Named
<1>2. \A n \in Node : /\ ListedWith(blacklist[n], A) \in [Ctx -> Named]
                      /\ IndexedWith(index[n], A) \in [Sig -> Named]
                      /\ \A c \in Ctx : \/ ListedWith(blacklist[n], A)[c] = blacklist[n][c]
                                        \/ \E a \in A : a.ctx = c /\ ListedWith(blacklist[n], A)[c] = a.weight
  BY <1>1, Registering
<1>3. /\ blacklist' = [n \in Node |-> IF n \in N THEN ListedWith(blacklist[n], A) ELSE blacklist[n]]
      /\ index' = [n \in Node |-> IF n \in N THEN IndexedWith(index[n], A) ELSE index[n]]
  BY DEF RegisterAt
<1> QED
  BY <1>1, <1>2, <1>3

\* What the tables, tasks, frames and the memory name has landed, and so has
\* what a weight's untraced history holds.
Sound == VaccinesAreReal /\ \A n \in Node, w \in Weight : \A c \in observed[n][w] : <<w, c>> \in attacked

VaccineInv == ImmuneTypeOK /\ Sound

\* Fingerprints names payloads of the weight's own history.
LEMMA FingerprintsType ==
  ASSUME NEW n, NEW w \in Weight, NEW v, NEW kept \in SUBSET Ctx
  PROVE  /\ Fingerprints(n, w, kept) \in SUBSET Antigen
         /\ \A a \in Fingerprints(n, w, kept) : a.weight = w /\ a.ctx \in kept
BY DEF Fingerprints, Antigen

Frames == Antigen \X {"open", "left"}

\* No step but a broadcast puts a frame on the way; one of a connection that
\* ends is no longer of an open one.
NoNewFrame ==
  \A m \in Node : \A g \in wire'[m] : \E h \in wire[m] : h[1] = g[1] /\ (g[2] = "open" => h = g)

\* What a node that stays connected has been owed, or is on record as left out
\* of, stays.
StillOwed(m) ==
  /\ link[m] = "up"
  /\ inbox[m] \subseteq inbox'[m]
  /\ \A x \in missed : x[1] = m => x \in missed'

LEMMA UnreadFrames ==
  ASSUME ImmuneTypeOK, NEW n \in Node, NEW read
  PROVE  /\ Unread(n, read) \subseteq Frames
         /\ \A g \in Unread(n, read) : g[2] = "left" /\ \E h \in wire[n] : h[1] = g[1]
<1>1. wire[n] \subseteq Frames
  BY DEF ImmuneTypeOK, Frames
<1>2. ASSUME NEW g \in Unread(n, read)
      PROVE  g \in Frames /\ g[2] = "left" /\ \E h \in wire[n] : h[1] = g[1]
  <2>1. PICK f \in wire[n] : g = <<f[1], "left">>
    BY <1>2 DEF Unread
  <2>2. f[1] \in Antigen
    BY <1>1, <2>1 DEF Frames
  <2> QED
    BY <2>1, <2>2 DEF Frames
<1> QED
  BY <1>2

\* The end of a connection.
LEMMA LeaveStep ==
  ASSUME ImmuneTypeOK, NEW n \in Node, Leave(n)
  PROVE  /\ link' \in [Node -> {"down", "up", "refused"}]
         /\ wire' \in [Node -> SUBSET Frames]
         /\ inbox' \in [Node -> SUBSET (Antigen \X {"replay", "live"})]
         /\ missed' \subseteq Node \X Antigen
         /\ NoNewFrame
         /\ \A m \in Node : inbox'[m] \subseteq inbox[m]
         /\ \A g \in wire'[n] : g[2] = "left"
         /\ \A m \in Node : link'[m] = "up" => m # n /\ StillOwed(m)
<1> USE DEF ImmuneTypeOK
<1>1. PICK read : wire' = [wire EXCEPT ![n] = Unread(n, read)]
  BY DEF Leave
<1>2. wire' \in [Node -> SUBSET Frames]
  <2>1. wire \in [Node -> SUBSET Frames]
    BY DEF Frames
  <2> QED
    BY <1>1, <2>1, UnreadFrames
<1>3. \A g \in wire'[n] : g[2] = "left"
  BY <1>1, UnreadFrames
<1>4. NoNewFrame
  BY <1>1, UnreadFrames DEF NoNewFrame
<1>5. /\ link' = [link EXCEPT ![n] = "down"]
      /\ inbox' = [inbox EXCEPT ![n] = {}]
      /\ missed' = {x \in missed : x[1] # n}
  BY DEF Leave
<1> QED
  BY <1>2, <1>3, <1>4, <1>5 DEF StillOwed

\* The relay reads a frame: whoever is connected afterwards is owed it, or is
\* the sender, or is on record as left out.
LEMMA ReadStep ==
  ASSUME ImmuneTypeOK, NEW n \in Node, NEW f \in wire[n], Dispatch(n, f) \/ DispatchAborted(n, f)
  PROVE  /\ link' \in [Node -> {"down", "up", "refused"}]
         /\ wire' \in [Node -> SUBSET Frames]
         /\ inbox' \in [Node -> SUBSET (Antigen \X {"replay", "live"})]
         /\ missed' \subseteq Node \X Antigen
         /\ faults' \in Nat
         /\ NoNewFrame
         /\ memory' = Remembered(f[1])
         /\ \A m \in Node : inbox'[m] \subseteq inbox[m] \cup {<<f[1], "live">>}
         /\ \A m \in Node : link'[m] = "up" =>
              /\ StillOwed(m)
              /\ \/ <<f[1], "live">> \in inbox'[m]
                 \/ <<m, f[1]>> \in missed'
                 \/ m = n /\ f[2] = "open"
         /\ UNCHANGED <<medium, observed, flagged, blacklist, index, tasks, attacks, attacked>>
<1>0. /\ f[1] \in Antigen /\ f[2] \in {"open", "left"}
      /\ wire \in [Node -> SUBSET Frames]
      /\ link \in [Node -> {"down", "up", "refused"}]
      /\ inbox \in [Node -> SUBSET (Antigen \X {"replay", "live"})]
      /\ missed \subseteq Node \X Antigen
      /\ faults \in Nat
  BY DEF ImmuneTypeOK, Frames
<1>1. PassedOver(n, f) \subseteq Node \X Antigen
  BY <1>0 DEF PassedOver
<1>2. CASE Dispatch(n, f)
  <2>1. /\ wire' = [wire EXCEPT ![n] = @ \ {f}]
        /\ memory' = Remembered(f[1])
        /\ inbox' = [m \in Node |-> IF m \in ForwardTo(n) THEN inbox[m] \cup {<<f[1], "live">>}
                                                          ELSE inbox[m]]
        /\ missed' = missed \cup PassedOver(n, f)
        /\ UNCHANGED <<medium, link, finding, agent, tasks, count, attacked>>
    BY <1>2 DEF Dispatch
  <2>2. wire' \in [Node -> SUBSET Frames] /\ NoNewFrame
    <3>1. \A m \in Node : wire'[m] \subseteq wire[m]
      BY <1>0, <2>1
    <3> QED
      BY <1>0, <2>1, <3>1 DEF NoNewFrame
  <2>3. inbox' \in [Node -> SUBSET (Antigen \X {"replay", "live"})]
    BY <1>0, <2>1
  <2>4. ASSUME NEW m \in Node, link'[m] = "up"
        PROVE  /\ StillOwed(m)
               /\ \/ <<f[1], "live">> \in inbox'[m]
                  \/ <<m, f[1]>> \in missed'
                  \/ m = n /\ f[2] = "open"
    <3>1. link[m] = "up"
      BY <2>1, <2>4
    <3>2. StillOwed(m)
      BY <2>1, <3>1 DEF StillOwed
    <3>3. CASE m # n
      <4>1. m \in ForwardTo(n)
        BY <3>1, <3>3 DEF ForwardTo
      <4>2. <<f[1], "live">> \in inbox'[m]
        BY <2>1, <4>1
      <4> QED
        BY <3>2, <4>2
    <3>4. CASE m = n
      <4>1. CASE f[2] = "open"
        BY <3>2, <3>4, <4>1
      <4>2. CASE f[2] = "left"
        <5>1. PassedOver(n, f) = {<<m, f[1]>>}
          BY <3>1, <3>4, <4>2 DEF PassedOver
        <5> QED
          BY <2>1, <3>2, <5>1
      <4> QED
        BY <1>0, <4>1, <4>2
    <3> QED
      BY <3>2, <3>3, <3>4
  <2> QED
    BY <1>0, <1>1, <2>1, <2>2, <2>3, <2>4 DEF finding, agent, count
<1>3. CASE DispatchAborted(n, f)
  <2>1. PICK gone \in SUBSET ForwardTo(n) \ {{}}, read \in SUBSET InTransit :
          \E served \in SUBSET (ForwardTo(n) \ gone) :
            LET ended == IF f[2] = "open" THEN gone \cup {n} ELSE gone
                rest == ForwardTo(n) \ (gone \cup served)
                kept == {g \in wire[n] \ {f} : g[2] # f[2] \/ (g[2] = "left" /\ <<n, g>> \in read)}
            IN /\ served # {} \/ \E m \in gone : gone # {m}
               /\ link' = [m \in Node |-> IF m \in ended THEN "down" ELSE link[m]]
               /\ inbox' = [m \in Node |-> IF m \in ended THEN {}
                                           ELSE IF m \in served THEN inbox[m] \cup {<<f[1], "live">>}
                                           ELSE inbox[m]]
               /\ missed' = {x \in missed : x[1] \notin ended} \cup (rest \X {f[1]}) \cup PassedOver(n, f)
               /\ wire' = [m \in Node |-> IF m = n THEN kept
                                          ELSE IF m \in gone THEN Unread(m, read) ELSE wire[m]]
    BY <1>3 DEF DispatchAborted
  <2> DEFINE ended == IF f[2] = "open" THEN gone \cup {n} ELSE gone
             kept == {g \in wire[n] \ {f} : g[2] # f[2] \/ (g[2] = "left" /\ <<n, g>> \in read)}
  <2>10. PICK served \in SUBSET (ForwardTo(n) \ gone) :
          /\ link' = [m \in Node |-> IF m \in ended THEN "down" ELSE link[m]]
          /\ inbox' = [m \in Node |-> IF m \in ended THEN {}
                                      ELSE IF m \in served THEN inbox[m] \cup {<<f[1], "live">>}
                                      ELSE inbox[m]]
          /\ missed' = {x \in missed : x[1] \notin ended}
                         \cup ((ForwardTo(n) \ (gone \cup served)) \X {f[1]}) \cup PassedOver(n, f)
          /\ wire' = [m \in Node |-> IF m = n THEN kept
                                     ELSE IF m \in gone THEN Unread(m, read) ELSE wire[m]]
    BY <2>1
  <2>2. /\ memory' = Remembered(f[1])
        /\ faults' \in Nat
        /\ UNCHANGED <<medium, finding, agent, tasks, attacks, attacked>>
    BY <1>0, <1>3 DEF DispatchAborted
  <2>3. wire' \in [Node -> SUBSET Frames]
    <3>1. \A m \in Node : wire'[m] \subseteq wire[m] \/ wire'[m] = Unread(m, read)
      BY <1>0, <2>10
    <3>2. \A m \in Node : Unread(m, read) \subseteq Frames /\ wire[m] \subseteq Frames
      BY <1>0, UnreadFrames
    <3> QED
      BY <2>10, <3>1, <3>2
  <2>4. NoNewFrame
    <3> SUFFICES ASSUME NEW m \in Node, NEW g \in wire'[m]
                 PROVE  \E h \in wire[m] : h[1] = g[1] /\ (g[2] = "open" => h = g)
      BY DEF NoNewFrame
    <3>1. g \in wire[m] \/ g \in Unread(m, read)
      BY <2>10
    <3>2. CASE g \in wire[m]
      BY <3>2
    <3>3. CASE g \in Unread(m, read)
      BY <3>3, UnreadFrames
    <3> QED
      BY <3>1, <3>2, <3>3
  <2>5. inbox' \in [Node -> SUBSET (Antigen \X {"replay", "live"})]
    BY <1>0, <2>10
  <2>6. missed' \subseteq Node \X Antigen
    BY <1>0, <1>1, <2>10 DEF ForwardTo
  <2>7. ASSUME NEW m \in Node, link'[m] = "up"
        PROVE  /\ StillOwed(m)
               /\ \/ <<f[1], "live">> \in inbox'[m]
                  \/ <<m, f[1]>> \in missed'
                  \/ m = n /\ f[2] = "open"
    <3>1. link[m] = "up" /\ m \notin ended
      BY <2>10, <2>7
    <3>2. StillOwed(m)
      BY <2>10, <3>1 DEF StillOwed
    <3>3. CASE m # n
      <4>1. m \in ForwardTo(n) /\ m \notin gone
        BY <3>1, <3>3 DEF ForwardTo
      <4>2. m \in served => <<f[1], "live">> \in inbox'[m]
        BY <2>10, <3>1
      <4>3. m \notin served => <<m, f[1]>> \in missed'
        BY <2>10, <4>1
      <4> QED
        BY <3>2, <4>2, <4>3
    <3>4. CASE m = n
      <4>1. CASE f[2] = "open"
        BY <3>2, <3>4, <4>1
      <4>2. CASE f[2] = "left"
        <5>1. PassedOver(n, f) = {<<m, f[1]>>}
          BY <3>1, <3>4, <4>2 DEF PassedOver
        <5> QED
          BY <2>10, <3>2, <5>1
      <4> QED
        BY <1>0, <4>1, <4>2
    <3> QED
      BY <3>2, <3>3, <3>4
  <2>8. link' \in [Node -> {"down", "up", "refused"}]
    BY <1>0, <2>10
  <2>9. \A m \in Node : inbox'[m] \subseteq inbox[m] \cup {<<f[1], "live">>}
    BY <2>10
  <2> QED
    BY <2>2, <2>3, <2>4, <2>5, <2>6, <2>7, <2>8, <2>9 DEF finding, agent
<1> QED
  BY <1>2, <1>3

LEMMA TypeStep ==
  ASSUME ImmuneTypeOK, [Next]_vars
  PROVE  ImmuneTypeOK'
<1> USE DEF ImmuneTypeOK, finding, agent, relay, count
<1>1. ASSUME NEW n \in Node, NEW w \in Weight, NEW c \in Ctx, Attack(n, w, c) PROVE ImmuneTypeOK'
  BY <1>1 DEF Attack
<1>2. ASSUME NEW n \in Node, NEW w \in Weight, NEW v \in Verdict, Escalate(n, w, v) PROVE ImmuneTypeOK'
  <2>1. PICK kept \in SUBSET observed[n][w] :
          LET found == Fingerprints(n, w, kept)
          IN /\ flagged' = [flagged EXCEPT ![n] = @ \cup {<<w, v>>}]
             /\ observed' = [observed EXCEPT ![n][w] = kept]
             /\ \E N : RegisterAt(N, found)
             /\ tasks' = [tasks EXCEPT ![n] = @ \cup found] \/ tasks' = tasks
             /\ UNCHANGED <<medium, link, wire, relay, count, attacked, missed>>
    BY <1>2 DEF Escalate
  <2>2. kept \in SUBSET Ctx
    BY <2>1
  <2> DEFINE found == Fingerprints(n, w, kept)
  <2>3. found \in SUBSET Antigen
    BY <2>2, FingerprintsType
  <2>4. /\ blacklist' \in [Node -> [Ctx -> Named]]
        /\ index' \in [Node -> [Sig -> Named]]
    <3>1. PICK N : RegisterAt(N, found)
      BY <2>1
    <3> QED
      BY <3>1, <2>3, RegisterKeeps
  <2> HIDE DEF found
  <2>5. /\ flagged' = [flagged EXCEPT ![n] = @ \cup {<<w, v>>}]
        /\ observed' = [observed EXCEPT ![n][w] = kept]
        /\ tasks' = [tasks EXCEPT ![n] = @ \cup found] \/ tasks' = tasks
        /\ UNCHANGED <<medium, link, wire, relay, count, attacked, missed>>
    BY <2>1 DEF found
  <2>6. tasks' \in [Node -> SUBSET Antigen]
    BY <2>3, <2>5
  <2>7. flagged' \in [Node -> SUBSET (Weight \X Verdict)]
    BY <2>5
  <2>8. observed' \in [Node -> [Weight -> SUBSET Ctx]]
    BY <2>2, <2>5
  <2> QED
    BY <2>4, <2>5, <2>6, <2>7, <2>8 DEF Named
<1>3. ASSUME NEW n \in Node, NEW a \in tasks[n], Send(n, a) PROVE ImmuneTypeOK'
  BY <1>3 DEF Send
<1>4. ASSUME NEW n \in Node, NEW f \in wire[n], Dispatch(n, f) \/ DispatchAborted(n, f) PROVE ImmuneTypeOK'
  <2>1. f[1] \in Antigen
    OBVIOUS
  <2>4. memory' = Remembered(f[1])
    BY <1>4, ReadStep
  <2>2. memory' \subseteq Antigen
    BY <2>1, <2>4 DEF Remembered
  <2>3. /\ link' \in [Node -> {"down", "up", "refused"}]
        /\ wire' \in [Node -> SUBSET (Antigen \X {"open", "left"})]
        /\ inbox' \in [Node -> SUBSET (Antigen \X {"replay", "live"})]
        /\ missed' \subseteq Node \X Antigen
        /\ faults' \in Nat
        /\ UNCHANGED <<medium, observed, flagged, blacklist, index, tasks, attacks, attacked>>
    BY <1>4, ReadStep DEF Frames
  <2> QED
    BY <2>2, <2>3
<1>5. ASSUME NEW n \in Node, NEW a \in tasks[n], LoseBroadcast(n, a) PROVE ImmuneTypeOK'
  BY <1>5 DEF LoseBroadcast
<1>6. ASSUME NEW n \in Node, Receive(n) PROVE ImmuneTypeOK'
  <2>1. PICK f \in inbox[n] :
          /\ inbox' = [inbox EXCEPT ![n] = @ \ {f}]
          /\ RegisterAt({n}, {f[1]})
          /\ UNCHANGED <<medium, link, finding, tasks, wire, memory, count, attacked, missed>>
    BY <1>6 DEF Receive
  <2>2. f[1] \in Antigen
    OBVIOUS
  <2>3. /\ blacklist' \in [Node -> [Ctx -> Named]]
        /\ index' \in [Node -> [Sig -> Named]]
    BY <2>1, <2>2, RegisterKeeps
  <2> QED
    BY <2>1, <2>3 DEF Named
<1>7. ASSUME NEW n \in Node, Connect(n) PROVE ImmuneTypeOK'
  BY <1>7 DEF Connect, CatchUp
<1>8. ASSUME NEW n \in Node, Refuse(n) PROVE ImmuneTypeOK'
  BY <1>8 DEF Refuse
<1>9. ASSUME NEW n \in Node, Disconnect(n) PROVE ImmuneTypeOK'
  BY <1>9, LeaveStep DEF Disconnect, Frames
<1>10. ASSUME NEW n \in Node, NodeRestart(n) PROVE ImmuneTypeOK'
  BY <1>10, LeaveStep DEF NodeRestart, Blank, Frames
<1>11. ASSUME RelayRestart PROVE ImmuneTypeOK'
  BY <1>11 DEF RelayRestart
<1>12. CASE UNCHANGED vars
  BY <1>12 DEF vars
<1> QED
  BY <1>1, <1>2, <1>3, <1>4, <1>5, <1>6, <1>7, <1>8, <1>9, <1>10, <1>11, <1>12 DEF Next, RunTasks, ReadWire

LEMMA InitTypeOK == Init => ImmuneTypeOK
BY DEF Init, ImmuneTypeOK, Blank

\* Every variable of the immune network keeps its type.
THEOREM ImmuneTypes == Spec => []ImmuneTypeOK
<1> QED
  BY InitTypeOK, TypeStep, PTL DEF Spec

\* Registering sound antigens leaves a sound blacklist.
LEMMA RegisterSound ==
  ASSUME ImmuneTypeOK, Sound, NEW N, NEW A \in SUBSET Antigen, RegisterAt(N, A),
         \A a \in A : <<a.weight, a.ctx>> \in attacked
  PROVE  \A n \in Node : \A c \in Ctx :
           blacklist'[n][c] # NoWeight => <<blacklist'[n][c], c>> \in attacked
<1>1. \A n \in Node : \A c \in Ctx :
        \/ blacklist'[n][c] = blacklist[n][c]
        \/ \E a \in A : a.ctx = c /\ blacklist'[n][c] = a.weight
  BY RegisterKeeps
<1>2. \A n \in Node : \A c \in Ctx : blacklist[n][c] # NoWeight => <<blacklist[n][c], c>> \in attacked
  BY DEF Sound, VaccinesAreReal
<1> QED
  BY <1>1, <1>2

LEMMA SoundStep ==
  ASSUME VaccineInv, [Next]_vars
  PROVE  Sound'
<1>0. ImmuneTypeOK /\ Sound
  BY DEF VaccineInv
<1> USE DEF finding, agent, relay, count
<1>1. ASSUME NEW n \in Node, NEW w \in Weight, NEW c \in Ctx, Attack(n, w, c) PROVE Sound'
  <2>1. attacked \subseteq attacked' /\ <<w, c>> \in attacked'
    BY <1>1 DEF Attack
  <2>2. \A m \in Node, v \in Weight : \A d \in observed'[m][v] :
          d \in observed[m][v] \/ (v = w /\ d = c)
    BY <1>0, <1>1 DEF Attack, ImmuneTypeOK
  <2>3. UNCHANGED <<blacklist, tasks, wire, inbox, memory>>
    BY <1>1 DEF Attack
  <2> QED
    BY <1>0, <2>1, <2>2, <2>3 DEF Sound, VaccinesAreReal
<1>2. ASSUME NEW n \in Node, NEW w \in Weight, NEW v \in Verdict, Escalate(n, w, v) PROVE Sound'
  <2>1. PICK kept \in SUBSET observed[n][w] :
          LET found == Fingerprints(n, w, kept)
          IN /\ observed' = [observed EXCEPT ![n][w] = kept]
             /\ \E N : RegisterAt(N, found)
             /\ tasks' = [tasks EXCEPT ![n] = @ \cup found] \/ tasks' = tasks
             /\ UNCHANGED <<wire, relay, attacked>>
    BY <1>2 DEF Escalate
  <2>2. kept \in SUBSET Ctx /\ \A c \in kept : <<w, c>> \in attacked
    BY <1>0, <2>1 DEF ImmuneTypeOK, Sound
  <2> DEFINE found == Fingerprints(n, w, kept)
  <2>3. /\ found \in SUBSET Antigen
        /\ \A a \in found : <<a.weight, a.ctx>> \in attacked
    BY <2>2, FingerprintsType
  <2>4. \A m \in Node : \A c \in Ctx :
          blacklist'[m][c] # NoWeight => <<blacklist'[m][c], c>> \in attacked
    <3>1. PICK N : RegisterAt(N, found)
      BY <2>1
    <3> QED
      BY <1>0, <2>3, <3>1, RegisterSound
  <2> HIDE DEF found
  <2>5. /\ observed' = [observed EXCEPT ![n][w] = kept]
        /\ tasks' = [tasks EXCEPT ![n] = @ \cup found] \/ tasks' = tasks
        /\ UNCHANGED <<wire, relay, attacked>>
    BY <2>1 DEF found
  <2>6. \A m \in Node : \A a \in tasks'[m] : <<a.weight, a.ctx>> \in attacked
    BY <1>0, <2>3, <2>5 DEF ImmuneTypeOK, Sound, VaccinesAreReal
  <2>7. \A m \in Node, u \in Weight : \A c \in observed'[m][u] : <<u, c>> \in attacked
    BY <1>0, <2>2, <2>5 DEF ImmuneTypeOK, Sound
  <2> QED
    BY <1>0, <2>4, <2>5, <2>6, <2>7 DEF Sound, VaccinesAreReal
<1>3. ASSUME NEW n \in Node, NEW a \in tasks[n], Send(n, a) PROVE Sound'
  <2>1. /\ tasks' = [tasks EXCEPT ![n] = @ \ {a}]
        /\ \A m \in Node : \A g \in wire'[m] : g \in wire[m] \/ (m = n /\ g[1] = a)
        /\ UNCHANGED <<blacklist, observed, inbox, memory, attacked>>
    BY <1>0, <1>3 DEF Send, ImmuneTypeOK
  <2> QED
    BY <1>0, <2>1 DEF ImmuneTypeOK, Sound, VaccinesAreReal
<1>4. ASSUME NEW n \in Node, NEW f \in wire[n], Dispatch(n, f) \/ DispatchAborted(n, f) PROVE Sound'
  <2>1. /\ NoNewFrame
        /\ memory' = Remembered(f[1])
        /\ \A m \in Node : inbox'[m] \subseteq inbox[m] \cup {<<f[1], "live">>}
        /\ UNCHANGED <<blacklist, observed, tasks, attacked>>
    BY <1>0, <1>4, ReadStep
  <2>2. <<f[1].weight, f[1].ctx>> \in attacked
    BY <1>0 DEF Sound, VaccinesAreReal
  <2>3. \A a \in memory' : <<a.weight, a.ctx>> \in attacked
    BY <1>0, <2>1, <2>2 DEF Remembered, Sound, VaccinesAreReal
  <2>4. ASSUME NEW m \in Node, NEW g \in inbox'[m]
        PROVE  <<g[1].weight, g[1].ctx>> \in attacked
    <3>1. CASE g \in inbox[m]
      BY <1>0, <3>1 DEF Sound, VaccinesAreReal
    <3>2. CASE g = <<f[1], "live">>
      BY <2>2, <3>2
    <3> QED
      BY <2>1, <3>1, <3>2
  <2>5. ASSUME NEW m \in Node, NEW g \in wire'[m]
        PROVE  <<g[1].weight, g[1].ctx>> \in attacked
    <3>1. PICK h \in wire[m] : h[1] = g[1]
      BY <2>1 DEF NoNewFrame
    <3> QED
      BY <1>0, <3>1 DEF Sound, VaccinesAreReal
  <2> QED
    BY <1>0, <2>1, <2>3, <2>4, <2>5 DEF Sound, VaccinesAreReal
<1>5. ASSUME NEW n \in Node, NEW a \in tasks[n], LoseBroadcast(n, a) PROVE Sound'
  BY <1>0, <1>5 DEF LoseBroadcast, ImmuneTypeOK, Sound, VaccinesAreReal
<1>6. ASSUME NEW n \in Node, Receive(n) PROVE Sound'
  <2>1. PICK f \in inbox[n] :
          /\ inbox' = [inbox EXCEPT ![n] = @ \ {f}]
          /\ RegisterAt({n}, {f[1]})
          /\ UNCHANGED <<medium, link, finding, tasks, wire, memory, count, attacked, missed>>
    BY <1>6 DEF Receive
  <2>2. f[1] \in Antigen /\ <<f[1].weight, f[1].ctx>> \in attacked
    BY <1>0 DEF ImmuneTypeOK, Sound, VaccinesAreReal
  <2>3. \A m \in Node : \A c \in Ctx :
          blacklist'[m][c] # NoWeight => <<blacklist'[m][c], c>> \in attacked
    BY <1>0, <2>1, <2>2, RegisterSound
  <2> QED
    BY <1>0, <2>1, <2>3 DEF ImmuneTypeOK, Sound, VaccinesAreReal
<1>7. ASSUME NEW n \in Node, Connect(n) PROVE Sound'
  <2>1. \A m \in Node : \A f \in inbox'[m] : f \in inbox[m] \/ f[1] \in memory
    BY <1>0, <1>7 DEF Connect, CatchUp, ImmuneTypeOK
  <2>2. UNCHANGED <<blacklist, observed, tasks, wire, memory, attacked>>
    BY <1>7 DEF Connect
  <2> QED
    BY <1>0, <2>1, <2>2 DEF Sound, VaccinesAreReal
<1>8. ASSUME NEW n \in Node, Refuse(n) PROVE Sound'
  BY <1>0, <1>8 DEF Refuse, Sound, VaccinesAreReal
<1>9. ASSUME NEW n \in Node, Disconnect(n) PROVE Sound'
  <2>1. NoNewFrame /\ \A m \in Node : inbox'[m] \subseteq inbox[m]
    BY <1>0, <1>9, LeaveStep DEF Disconnect
  <2>2. ASSUME NEW m \in Node, NEW g \in wire'[m] \cup inbox'[m]
        PROVE  <<g[1].weight, g[1].ctx>> \in attacked
    <3>1. PICK h \in wire[m] \cup inbox[m] : h[1] = g[1]
      BY <2>1 DEF NoNewFrame
    <3> QED
      BY <1>0, <3>1 DEF Sound, VaccinesAreReal
  <2>3. UNCHANGED <<blacklist, observed, tasks, memory, attacked>>
    BY <1>9 DEF Disconnect
  <2> QED
    BY <1>0, <2>2, <2>3 DEF Sound, VaccinesAreReal
<1>10. ASSUME NEW n \in Node, NodeRestart(n) PROVE Sound'
  <2>1. NoNewFrame /\ \A m \in Node : inbox'[m] \subseteq inbox[m]
    BY <1>0, <1>10, LeaveStep DEF NodeRestart
  <2>2. ASSUME NEW m \in Node, NEW g \in wire'[m] \cup inbox'[m]
        PROVE  <<g[1].weight, g[1].ctx>> \in attacked
    <3>1. PICK h \in wire[m] \cup inbox[m] : h[1] = g[1]
      BY <2>1 DEF NoNewFrame
    <3> QED
      BY <1>0, <3>1 DEF Sound, VaccinesAreReal
  <2>3. /\ \A m \in Node : tasks'[m] \subseteq tasks[m]
        /\ \A m \in Node : blacklist'[m] \in {blacklist[m], Blank.blacklist}
        /\ \A m \in Node : observed'[m] \in {observed[m], Blank.observed}
        /\ UNCHANGED <<memory, attacked>>
    BY <1>0, <1>10 DEF NodeRestart, ImmuneTypeOK
  <2> QED
    BY <1>0, <2>2, <2>3 DEF Blank, Sound, VaccinesAreReal
<1>11. ASSUME RelayRestart PROVE Sound'
  BY <1>0, <1>11 DEF RelayRestart, Sound, VaccinesAreReal
<1>12. CASE UNCHANGED vars
  BY <1>0, <1>12 DEF vars, Sound, VaccinesAreReal
<1> QED
  BY <1>1, <1>2, <1>3, <1>4, <1>5, <1>6, <1>7, <1>8, <1>9, <1>10, <1>11, <1>12 DEF Next, RunTasks, ReadWire

\* No blacklist, task, frame or relay memory ever names a payload that was not
\* thrown at that very weight.
THEOREM VaccinesAreRealHolds == Spec => []VaccinesAreReal
<1>1. Init => VaccineInv
  BY InitTypeOK DEF Init, Blank, VaccineInv, Sound, VaccinesAreReal
<1>2. VaccineInv /\ [Next]_vars => VaccineInv'
  BY TypeStep, SoundStep DEF VaccineInv
<1>3. VaccineInv => VaccinesAreReal
  BY DEF VaccineInv, Sound
<1> QED
  BY <1>1, <1>2, <1>3, PTL DEF Spec

-----------------------------------------------------------------------------
(* The in-process network.                                                 *)

\* There is no link, no task and no frame in the in-process network.
Alike ==
  medium = "process" =>
    /\ \A n, m \in Node : blacklist[n] = blacklist[m] /\ index[n] = index[m]
    /\ \A n \in Node : link[n] = "down" /\ tasks[n] = {} /\ wire[n] = {} /\ inbox[n] = {}

AlikeInv == ImmuneTypeOK /\ Alike

LEMMA AlikeStep ==
  ASSUME AlikeInv, [Next]_vars
  PROVE  Alike'
<1>0. ImmuneTypeOK /\ Alike
  BY DEF AlikeInv
<1> SUFFICES ASSUME medium' = "process"
             PROVE  /\ \A n, m \in Node : blacklist'[n] = blacklist'[m] /\ index'[n] = index'[m]
                    /\ \A n \in Node : link'[n] = "down" /\ tasks'[n] = {} /\ wire'[n] = {} /\ inbox'[n] = {}
  BY DEF Alike
<1> USE DEF finding, agent, relay, count
<1>1. medium = "process"
  <2>1. medium' = medium
    BY DEF Next, vars, Attack, Escalate, RunTasks, Send, LoseBroadcast, ReadWire,
           Dispatch, DispatchAborted, Receive, Connect, Refuse, Disconnect, NodeRestart, RelayRestart
  <2> QED
    BY <2>1
<1>2. /\ \A n, m \in Node : blacklist[n] = blacklist[m] /\ index[n] = index[m]
      /\ \A n \in Node : link[n] = "down" /\ tasks[n] = {} /\ wire[n] = {} /\ inbox[n] = {}
  BY <1>0, <1>1 DEF Alike
<1>3. ASSUME NEW n \in Node, NEW w \in Weight, NEW v \in Verdict, Escalate(n, w, v)
      PROVE  /\ \A k, m \in Node : blacklist'[k] = blacklist'[m] /\ index'[k] = index'[m]
             /\ UNCHANGED <<link, tasks, wire, inbox>>
  <2>1. PICK kept \in SUBSET observed[n][w] :
          /\ RegisterAt(Node, Fingerprints(n, w, kept))
          /\ UNCHANGED <<link, tasks, wire, inbox>>
    BY <1>1, <1>3 DEF Escalate, InProcessAudience
  <2> QED
    BY <1>2, <2>1 DEF RegisterAt
<1>4. ASSUME NEW n \in Node
      PROVE  ~RunTasks(n) /\ ~ReadWire(n) /\ ~Receive(n) /\ ~Connect(n) /\ ~Refuse(n) /\ ~Disconnect(n)
             /\ ~NodeRestart(n) /\ ~RelayRestart
  BY <1>1, <1>2 DEF RunTasks, ReadWire, Receive, Connect, Refuse, Disconnect, NodeRestart, RelayRestart
<1>5. ASSUME NEW n \in Node, NEW w \in Weight, NEW c \in Ctx, Attack(n, w, c)
      PROVE  UNCHANGED <<blacklist, index, link, tasks, wire, inbox>>
  BY <1>5 DEF Attack
<1>6. ~RelayRestart
  BY <1>1 DEF RelayRestart
<1>7. UNCHANGED vars => UNCHANGED <<blacklist, index, link, tasks, wire, inbox>>
  BY DEF vars
<1> QED
  BY <1>2, <1>3, <1>4, <1>5, <1>6, <1>7 DEF Next

\* Every agent of the in-process network holds the same blacklist and index.
THEOREM InProcessNodesAgreeHolds == Spec => []InProcessNodesAgree
<1>1. Init => AlikeInv
  BY InitTypeOK DEF Init, AlikeInv, Alike
<1>2. AlikeInv /\ [Next]_vars => AlikeInv'
  BY TypeStep, AlikeStep DEF AlikeInv
<1>3. AlikeInv => InProcessNodesAgree
  BY DEF AlikeInv, Alike, InProcessNodesAgree
<1> QED
  BY <1>1, <1>2, <1>3, PTL DEF Spec

-----------------------------------------------------------------------------
(* Nobody is blind to what the relay remembers.                            *)

\* A node knows whatever it is about to broadcast or has sent on its present
\* connection: _on_local_oscillating_finding registers an antigen before it
\* schedules its task, and a node that forgets it has left the connection.
OwnAreKnown ==
  \A n \in Node :
    /\ \A a \in tasks[n] : blacklist[n][a.ctx] # NoWeight
    /\ \A f \in wire[n] : f[2] = "open" => blacklist[n][f[1].ctx] # NoWeight

SightInv == ImmuneTypeOK /\ OwnAreKnown /\ NobodyIsBlind

\* Registering forgets no payload, and teaches those of the antigens.
LEMMA RegisterLearns ==
  ASSUME ImmuneTypeOK, NEW N \in SUBSET Node, NEW A \in SUBSET Antigen, RegisterAt(N, A)
  PROVE  /\ \A n \in Node : \A c \in Ctx : blacklist[n][c] # NoWeight => blacklist'[n][c] # NoWeight
         /\ \A n \in N : \A a \in A : blacklist'[n][a.ctx] # NoWeight
<1>1. \A a \in A : a.weight \in Weight /\ a.weight # NoWeight /\ a.ctx \in Ctx
  BY WeightAssumption DEF Antigen
<1>2. \A n \in Node : \A c \in Ctx :
        \/ blacklist'[n][c] = blacklist[n][c]
        \/ \E a \in A : a.ctx = c /\ blacklist'[n][c] = a.weight
  BY RegisterKeeps
<1>3. ASSUME NEW n \in N, NEW b \in A PROVE blacklist'[n][b.ctx] # NoWeight
  <2>1. blacklist'[n] = ListedWith(blacklist[n], A)
    BY DEF RegisterAt
  <2>2. ListedWith(blacklist[n], A)[b.ctx] = (CHOOSE a \in A : a.ctx = b.ctx).weight
    BY <1>1 DEF ListedWith
  <2>3. (CHOOSE a \in A : a.ctx = b.ctx) \in A
    OBVIOUS
  <2> QED
    BY <1>1, <2>1, <2>2, <2>3
<1> QED
  BY <1>1, <1>2, <1>3

\* Over either medium a finding's antigens are registered at the node that
\* raised it, and only they become its tasks.
LEMMA EscalateRegisters ==
  ASSUME ImmuneTypeOK, NEW n \in Node, NEW w \in Weight, NEW v \in Verdict, Escalate(n, w, v)
  PROVE  \E A \in SUBSET Antigen :
           /\ \E N \in SUBSET Node : n \in N /\ RegisterAt(N, A)
           /\ tasks' = [tasks EXCEPT ![n] = @ \cup A] \/ tasks' = tasks
           /\ wire' = wire
<1>1. PICK kept \in SUBSET observed[n][w] :
        LET found == Fingerprints(n, w, kept)
        IN /\ RegisterAt({n}, found) \/ RegisterAt(Node, found)
           /\ tasks' = [tasks EXCEPT ![n] = @ \cup found] \/ tasks' = tasks
           /\ wire' = wire
  BY DEF Escalate, InProcessAudience
<1>2. Fingerprints(n, w, kept) \in SUBSET Antigen
  <2>1. kept \in SUBSET Ctx
    BY <1>1 DEF ImmuneTypeOK
  <2> QED
    BY <2>1, FingerprintsType
<1> QED
  BY <1>1, <1>2

LEMMA OwnAreKnownStep ==
  ASSUME SightInv, [Next]_vars
  PROVE  OwnAreKnown'
<1>0. ImmuneTypeOK /\ OwnAreKnown
  BY DEF SightInv
<1> USE DEF finding, agent, relay, count
<1>1. ASSUME NEW n \in Node, NEW w \in Weight, NEW c \in Ctx, Attack(n, w, c)
      PROVE  OwnAreKnown'
  BY <1>0, <1>1 DEF Attack, OwnAreKnown
<1>2. ASSUME NEW n \in Node, NEW w \in Weight, NEW v \in Verdict, Escalate(n, w, v)
      PROVE  OwnAreKnown'
  <2>1. PICK A \in SUBSET Antigen :
          /\ \E N \in SUBSET Node : n \in N /\ RegisterAt(N, A)
          /\ tasks' = [tasks EXCEPT ![n] = @ \cup A] \/ tasks' = tasks
          /\ wire' = wire
    BY <1>0, <1>2, EscalateRegisters
  <2>2. PICK N \in SUBSET Node : n \in N /\ RegisterAt(N, A)
    BY <2>1
  <2>3. /\ \A m \in Node : \A c \in Ctx : blacklist[m][c] # NoWeight => blacklist'[m][c] # NoWeight
        /\ \A a \in A : blacklist'[n][a.ctx] # NoWeight
    BY <1>0, <2>2, RegisterLearns
  <2>4. \A m \in Node : \A a \in tasks[m] \cup {f[1] : f \in wire[m]} : a.ctx \in Ctx
    BY <1>0 DEF ImmuneTypeOK, Antigen
  <2>5. \A m \in Node : \A a \in tasks'[m] : a \in tasks[m] \/ (m = n /\ a \in A)
    BY <1>0, <2>1 DEF ImmuneTypeOK
  <2> QED
    BY <1>0, <2>1, <2>3, <2>4, <2>5 DEF OwnAreKnown
<1>3. ASSUME NEW n \in Node, RunTasks(n) PROVE OwnAreKnown'
  <2>1. PICK a \in tasks[n] : Send(n, a) \/ LoseBroadcast(n, a)
    BY <1>3 DEF RunTasks
  <2>2. /\ tasks \in [Node -> SUBSET Antigen] /\ wire \in [Node -> SUBSET Frames]
        /\ tasks' = [tasks EXCEPT ![n] = @ \ {a}]
        /\ wire' = [wire EXCEPT ![n] = @ \cup {<<a, "open">>}] \/ wire' = wire
        /\ blacklist' = blacklist
    BY <1>0, <2>1 DEF Send, LoseBroadcast, ImmuneTypeOK, Frames
  <2>3. /\ \A m \in Node : tasks'[m] \subseteq tasks[m]
        /\ \A m \in Node : \A g \in wire'[m] : g \in wire[m] \/ (m = n /\ g[1] = a)
    BY <2>2
  <2> QED
    BY <1>0, <2>2, <2>3 DEF OwnAreKnown
<1>9. ASSUME NEW n \in Node, ReadWire(n) PROVE OwnAreKnown'
  <2>1. NoNewFrame /\ UNCHANGED <<blacklist, tasks>>
    BY <1>0, <1>9, ReadStep DEF ReadWire
  <2> QED
    BY <1>0, <2>1 DEF NoNewFrame, OwnAreKnown
<1>4. ASSUME NEW n \in Node, Receive(n) PROVE OwnAreKnown'
  <2>1. PICK f \in inbox[n] : RegisterAt({n}, {f[1]}) /\ UNCHANGED <<tasks, wire>>
    BY <1>4 DEF Receive
  <2>2. {f[1]} \in SUBSET Antigen
    BY <1>0 DEF ImmuneTypeOK
  <2>3. \A m \in Node : \A c \in Ctx : blacklist[m][c] # NoWeight => blacklist'[m][c] # NoWeight
    BY <1>0, <2>1, <2>2, RegisterLearns
  <2>4. \A m \in Node : \A a \in tasks[m] \cup {g[1] : g \in wire[m]} : a.ctx \in Ctx
    BY <1>0 DEF ImmuneTypeOK, Antigen
  <2> QED
    BY <1>0, <2>1, <2>3, <2>4 DEF OwnAreKnown
<1>5. ASSUME NEW n \in Node, NodeRestart(n) PROVE OwnAreKnown'
  <2>1. NoNewFrame /\ \A g \in wire'[n] : g[2] = "left"
    BY <1>0, <1>5, LeaveStep DEF NodeRestart
  <2>2. /\ tasks'[n] = {}
        /\ \A m \in Node : m # n => tasks'[m] = tasks[m] /\ blacklist'[m] = blacklist[m]
    BY <1>0, <1>5 DEF NodeRestart, ImmuneTypeOK
  <2> QED
    BY <1>0, <2>1, <2>2 DEF NoNewFrame, OwnAreKnown
<1>6. ASSUME NEW n \in Node, Connect(n) \/ Refuse(n) PROVE OwnAreKnown'
  BY <1>0, <1>6 DEF Connect, Refuse, OwnAreKnown
<1>10. ASSUME NEW n \in Node, Disconnect(n) PROVE OwnAreKnown'
  <2>1. NoNewFrame /\ UNCHANGED <<blacklist, tasks>>
    BY <1>0, <1>10, LeaveStep DEF Disconnect
  <2> QED
    BY <1>0, <2>1 DEF NoNewFrame, OwnAreKnown
<1>7. CASE RelayRestart
  BY <1>0, <1>7 DEF RelayRestart, OwnAreKnown
<1>8. CASE UNCHANGED vars
  BY <1>0, <1>8 DEF vars, OwnAreKnown
<1> QED
  BY <1>1, <1>2, <1>3, <1>4, <1>5, <1>6, <1>7, <1>8, <1>9, <1>10 DEF Next

\* A connected node goes on seeing a payload while what it has, what it is
\* owed and what is on record as left out only grow.
Sees(n, c) ==
  \/ blacklist[n][c] # NoWeight
  \/ \E f \in inbox[n] : f[1].ctx = c
  \/ \E x \in missed : x[1] = n /\ x[2].ctx = c

LEMMA SightStep ==
  ASSUME SightInv, [Next]_vars
  PROVE  NobodyIsBlind'
<1>0. /\ ImmuneTypeOK /\ OwnAreKnown
      /\ \A m \in Node : link[m] = "up" => \A a \in memory : Sees(m, a.ctx)
  BY DEF SightInv, NobodyIsBlind, Sees
<1> SUFFICES ASSUME NEW m \in Node, link'[m] = "up", NEW b \in memory'
             PROVE  Sees(m, b.ctx)'
  BY DEF NobodyIsBlind, Sees
<1> USE DEF finding, agent, relay, count
<1>1. ASSUME NEW n \in Node, NEW w \in Weight, NEW c \in Ctx, Attack(n, w, c)
      PROVE  Sees(m, b.ctx)'
  BY <1>0, <1>1 DEF Attack, Sees
<1>2. ASSUME NEW n \in Node, NEW w \in Weight, NEW v \in Verdict, Escalate(n, w, v)
      PROVE  Sees(m, b.ctx)'
  <2>1. PICK A \in SUBSET Antigen, N \in SUBSET Node : RegisterAt(N, A)
    BY <1>0, <1>2, EscalateRegisters
  <2>2. UNCHANGED <<link, inbox, memory, missed>>
    BY <1>2 DEF Escalate
  <2>3. b.ctx \in Ctx
    BY <1>0, <2>2 DEF ImmuneTypeOK, Antigen
  <2>4. blacklist[m][b.ctx] # NoWeight => blacklist'[m][b.ctx] # NoWeight
    BY <1>0, <2>1, <2>3, RegisterLearns
  <2> QED
    BY <1>0, <2>2, <2>4 DEF Sees
<1>3. ASSUME NEW n \in Node, NEW a \in tasks[n], Send(n, a)
      PROVE  Sees(m, b.ctx)'
  BY <1>0, <1>3 DEF Send, Sees
<1>4. ASSUME NEW n \in Node, NEW f \in wire[n], Dispatch(n, f) \/ DispatchAborted(n, f)
      PROVE  Sees(m, b.ctx)'
  <2>1. /\ StillOwed(m)
        /\ \/ <<f[1], "live">> \in inbox'[m]
           \/ <<m, f[1]>> \in missed'
           \/ m = n /\ f[2] = "open"
        /\ memory' = Remembered(f[1])
        /\ blacklist' = blacklist
    BY <1>0, <1>4, ReadStep
  <2>2. CASE b \in memory
    BY <1>0, <2>1, <2>2 DEF StillOwed, Sees
  <2>3. CASE b = f[1] /\ m = n /\ f[2] = "open"
    BY <1>0, <2>1, <2>3 DEF OwnAreKnown, Sees
  <2>4. CASE b = f[1] /\ ~(m = n /\ f[2] = "open")
    BY <2>1, <2>4 DEF Sees
  <2> QED
    BY <2>1, <2>2, <2>3, <2>4 DEF Remembered
<1>5. ASSUME NEW n \in Node, NEW a \in tasks[n], LoseBroadcast(n, a)
      PROVE  Sees(m, b.ctx)'
  BY <1>0, <1>5 DEF LoseBroadcast, Sees
<1>6. ASSUME NEW n \in Node, Receive(n) PROVE Sees(m, b.ctx)'
  <2>1. PICK f \in inbox[n] :
          /\ inbox' = [inbox EXCEPT ![n] = @ \ {f}]
          /\ RegisterAt({n}, {f[1]})
          /\ UNCHANGED <<link, memory, missed>>
    BY <1>6 DEF Receive
  <2>2. {f[1]} \in SUBSET Antigen
    BY <1>0 DEF ImmuneTypeOK
  <2>3. b.ctx \in Ctx
    BY <1>0, <2>1 DEF ImmuneTypeOK, Antigen
  <2>4. /\ blacklist[m][b.ctx] # NoWeight => blacklist'[m][b.ctx] # NoWeight
        /\ blacklist'[n][f[1].ctx] # NoWeight
    BY <1>0, <2>1, <2>2, <2>3, RegisterLearns
  <2>5. \A g \in inbox[m] : g \in inbox'[m] \/ (m = n /\ g = f)
    BY <1>0, <2>1 DEF ImmuneTypeOK
  <2> QED
    BY <1>0, <2>1, <2>4, <2>5 DEF Sees
<1>7. ASSUME NEW n \in Node, Connect(n) PROVE Sees(m, b.ctx)'
  <2>1. /\ link' = [link EXCEPT ![n] = "up"]
        /\ inbox' = [inbox EXCEPT ![n] = CatchUp]
        /\ UNCHANGED <<memory, missed, blacklist>>
    BY <1>7 DEF Connect
  <2>2. CASE m = n
    <3>1. <<b, "replay">> \in inbox'[m]
      BY <1>0, <2>1, <2>2 DEF CatchUp, ImmuneTypeOK
    <3> QED
      BY <3>1 DEF Sees
  <2>3. CASE m # n
    BY <1>0, <2>1, <2>3 DEF ImmuneTypeOK, Sees
  <2> QED
    BY <2>2, <2>3
<1>8. ASSUME NEW n \in Node, Refuse(n) \/ Disconnect(n) \/ NodeRestart(n)
      PROVE  Sees(m, b.ctx)'
  <2>1. m # n /\ StillOwed(m)
    BY <1>0, <1>8, LeaveStep DEF Refuse, Disconnect, NodeRestart, ImmuneTypeOK, StillOwed
  <2>2. memory' = memory /\ blacklist'[m] = blacklist[m]
    BY <1>0, <1>8, <2>1 DEF Refuse, Disconnect, NodeRestart, ImmuneTypeOK
  <2> QED
    BY <1>0, <2>1, <2>2 DEF StillOwed, Sees
<1>9. ~RelayRestart
  BY DEF RelayRestart
<1>10. CASE UNCHANGED vars
  BY <1>0, <1>10 DEF vars, Sees
<1> QED
  BY <1>1, <1>2, <1>3, <1>4, <1>5, <1>6, <1>7, <1>8, <1>9, <1>10 DEF Next, RunTasks, ReadWire

\* README's promise end to end, for any nodes, payloads, faults and order of
\* logins, replays and broadcasts: what the relay remembers, every connected
\* node has in its blacklist, in a frame, or on record as left out of a
\* fan-out on its present connection, by an abort or as the sender of the frame.
THEOREM NobodyIsBlindHolds == Spec => []NobodyIsBlind
<1>1. Init => SightInv
  BY InitTypeOK DEF Init, SightInv, OwnAreKnown, NobodyIsBlind
<1>2. SightInv /\ [Next]_vars => SightInv'
  BY TypeStep, OwnAreKnownStep, SightStep DEF SightInv
<1>3. SightInv => NobodyIsBlind
  BY DEF SightInv
<1> QED
  BY <1>1, <1>2, <1>3, PTL DEF Spec

-----------------------------------------------------------------------------
(* Immunity lasts.                                                         *)

\* A set of naturals that is not empty has a least element.
LEMMA LeastNat ==
  ASSUME NEW T \in SUBSET Nat, T # {}
  PROVE  \E x \in T : \A y \in T : x <= y
<1> DEFINE LessThan == OpToRel(<, Nat)
<1>1. IsWellFoundedOn(LessThan, Nat)
  BY NatLessThanWellFounded
<1>2. \A x, y \in Nat : y < x => <<y, x>> \in LessThan
  BY DEF OpToRel
<1> HIDE DEF LessThan
<1>3. PICK x \in T : \A y \in T : ~(<<y, x>> \in LessThan)
  BY <1>1, WFMin
<1>4. ASSUME NEW y \in T PROVE x <= y
  <2>1. x \in Nat /\ y \in Nat /\ ~(y < x)
    BY <1>2, <1>3, <1>4
  <2> QED
    BY <2>1
<1> QED
  BY <1>4

\* If anything indexed is near enough, something indexed is the closest.
LEMMA ClosestExists ==
  ASSUME NEW I \in SUBSET Sig, NEW s \in Sig, NEW t \in I, Distance[s][t] <= MaxMiss
  PROVE  Closest(I, s) # {}
<1>1. \A u \in Sig : Distance[s][u] \in Nat
  BY DistanceIsNat
<1> DEFINE T == {Distance[s][u] : u \in I}
<1>2. T \in SUBSET Nat /\ T # {}
  BY <1>1
<1>3. PICK x \in T : \A y \in T : x <= y
  BY <1>2, LeastNat
<1>4. PICK u \in I : x = Distance[s][u]
  BY <1>3
<1>5. \A v \in I : Distance[s][u] <= Distance[s][v]
  BY <1>3, <1>4
<1>6. Distance[s][u] <= MaxMiss
  BY <1>1, <1>5, RecallAssumption
<1>7. u \in Closest(I, s)
  BY <1>5, <1>6 DEF Closest
<1> QED
  BY <1>7

\* Entries only added, or replaced by ones for w: what was blocked for w still
\* is.  The closest match may move, but only to an entry for w.
LEMMA StillBlocked ==
  ASSUME ImmuneTypeOK, ImmuneTypeOK',
         NEW n \in Node, NEW w \in Weight, NEW c \in Ctx, MustBlock(n, w, c),
         \A d \in Ctx : blacklist'[n][d] \in {blacklist[n][d], w},
         \A s \in Sig : index'[n][s] \in {index[n][s], w}
  PROVE  MustBlock(n, w, c)'
<1>1. CASE blacklist[n][c] = w
  BY <1>1 DEF MustBlock
<1>2. CASE Similar(n, c) # {} /\ \A s \in Similar(n, c) : index[n][s] = w
  <2>1. SigOf[c] \in Sig
    BY <1>2, SigAssumption DEF Similar
  <2> DEFINE t == SigOf[c]
             I == Indexed(n)
             J == Indexed(n)'
  <2>2. I \in SUBSET Sig /\ J \in SUBSET Sig /\ I \subseteq J
    BY WeightAssumption DEF Indexed
  <2>3. t # NoSig /\ t \in Sig
    BY <2>1, SigAssumption
  <2>4. Similar(n, c) = Closest(I, t) /\ Similar(n, c)' = Closest(J, t)
    <3>1. Similar(n, c) = FindSimilar(I, t) /\ Similar(n, c)' = FindSimilar(J, t)
      BY <2>3 DEF Similar
    <3> HIDE DEF I, J, t
    <3> QED
      BY <2>2, <2>3, <3>1, FindSimilarIsClosest
  <2>5. \A s \in Sig : s \in J \ I => index'[n][s] = w
    BY WeightAssumption DEF Indexed
  <2>6. \A s \in I : index'[n][s] \in {index[n][s], w}
    BY <2>2
  <2> HIDE DEF I, J, t
  <2>7. \A s \in Closest(J, t) : s \in I => s \in Closest(I, t)
    BY <2>2 DEF Closest
  <2>8. Closest(J, t) # {}
    <3>1. PICK s \in Closest(I, t) : TRUE
      BY <1>2, <2>4
    <3>2. s \in J /\ Distance[t][s] <= MaxMiss
      BY <2>2, <3>1 DEF Closest
    <3> QED
      BY <2>2, <2>3, <3>2, ClosestExists
  <2>9. \A s \in Closest(J, t) : index'[n][s] = w
    <3>1. \A s \in Closest(J, t) : s \in J /\ s \in Sig
      BY <2>2 DEF Closest
    <3> QED
      BY <1>2, <2>4, <2>5, <2>6, <2>7, <3>1
  <2> QED
    BY <2>4, <2>8, <2>9 DEF MustBlock
<1> QED
  BY <1>1, <1>2 DEF MustBlock

\* No step empties an entry of a node, but the end of its process.
LEMMA EntriesStay ==
  ASSUME ImmuneTypeOK, [Next]_vars, NEW n \in Node
  PROVE  \/ blacklist'[n] = Blank.blacklist /\ index'[n] = Blank.index
         \/ /\ \A d \in Ctx : blacklist'[n][d] = NoWeight => blacklist[n][d] = NoWeight
            /\ \A s \in Sig : index'[n][s] = NoWeight => index[n][s] = NoWeight
<1>1. ASSUME NEW N, NEW A \in SUBSET Antigen, RegisterAt(N, A)
      PROVE  /\ \A d \in Ctx : blacklist'[n][d] = NoWeight => blacklist[n][d] = NoWeight
             /\ \A s \in Sig : index'[n][s] = NoWeight => index[n][s] = NoWeight
  <2>1. /\ blacklist'[n] \in {ListedWith(blacklist[n], A), blacklist[n]}
        /\ index'[n] \in {IndexedWith(index[n], A), index[n]}
    BY <1>1 DEF RegisterAt
  <2>2. \A a \in A : a.weight # NoWeight
    BY WeightAssumption DEF Antigen
  <2>3. \A d \in Ctx : ListedWith(blacklist[n], A)[d] = NoWeight => blacklist[n][d] = NoWeight
    BY <2>2 DEF ListedWith
  <2>4. \A s \in Sig : IndexedWith(index[n], A)[s] = NoWeight => index[n][s] = NoWeight
    BY <2>2 DEF IndexedWith
  <2> QED
    BY <2>1, <2>3, <2>4
<1>2. ASSUME NEW m \in Node, NEW w \in Weight, NEW v \in Verdict, Escalate(m, w, v)
      PROVE  \E N : \E A \in SUBSET Antigen : RegisterAt(N, A)
  <2>1. PICK kept \in SUBSET observed[m][w] : \E N : RegisterAt(N, Fingerprints(m, w, kept))
    BY <1>2 DEF Escalate
  <2>2. kept \in SUBSET Ctx
    BY <2>1 DEF ImmuneTypeOK
  <2> QED
    BY <2>1, <2>2, FingerprintsType
<1>3. ASSUME NEW m \in Node, Receive(m)
      PROVE  \E N : \E A \in SUBSET Antigen : RegisterAt(N, A)
  <2>1. PICK f \in inbox[m] : RegisterAt({m}, {f[1]})
    BY <1>3 DEF Receive
  <2>2. f[1] \in Antigen
    BY DEF ImmuneTypeOK
  <2> QED
    BY <2>1, <2>2
<1>4. ASSUME NEW m \in Node, NodeRestart(m)
      PROVE  \/ blacklist'[n] = Blank.blacklist /\ index'[n] = Blank.index
             \/ blacklist'[n] = blacklist[n] /\ index'[n] = index[n]
  BY <1>4 DEF NodeRestart, ImmuneTypeOK
<1>5. ASSUME \/ \E m \in Node, w \in Weight, c \in Ctx : Attack(m, w, c)
             \/ \E m \in Node : RunTasks(m) \/ ReadWire(m) \/ Connect(m) \/ Refuse(m) \/ Disconnect(m)
             \/ RelayRestart
             \/ UNCHANGED vars
      PROVE  blacklist' = blacklist /\ index' = index
  BY <1>5 DEF agent, vars, Attack, RunTasks, Send, LoseBroadcast, ReadWire, Dispatch, DispatchAborted,
              Connect, Refuse, Disconnect, RelayRestart
<1> QED
  BY <1>1, <1>2, <1>3, <1>4, <1>5 DEF Next

\* A node stops blocking a payload only by registering an antigen of another
\* weight or by ending.
THEOREM ImmunityLasts == Spec => ImmunityEndsOnlyByOtherWeight
<1> DEFINE Kept ==
      \A n \in Node, w \in Weight, c \in Ctx :
        MustBlock(n, w, c) /\ ~MustBlock(n, w, c)' =>
          \/ \E d \in Ctx : blacklist'[n][d] \notin {blacklist[n][d], w, NoWeight}
          \/ \E s \in Sig : index'[n][s] \notin {index[n][s], w, NoWeight}
          \/ blacklist'[n] = Blank.blacklist /\ index'[n] = Blank.index
<1>1. ASSUME ImmuneTypeOK, ImmuneTypeOK', [Next]_vars PROVE Kept
  <2> SUFFICES ASSUME NEW n \in Node, NEW w \in Weight, NEW c \in Ctx, MustBlock(n, w, c),
                      \A d \in Ctx : blacklist'[n][d] \in {blacklist[n][d], w, NoWeight},
                      \A s \in Sig : index'[n][s] \in {index[n][s], w, NoWeight},
                      ~(blacklist'[n] = Blank.blacklist /\ index'[n] = Blank.index)
               PROVE  MustBlock(n, w, c)'
    OBVIOUS
  <2>1. /\ \A d \in Ctx : blacklist'[n][d] = NoWeight => blacklist[n][d] = NoWeight
        /\ \A s \in Sig : index'[n][s] = NoWeight => index[n][s] = NoWeight
    BY <1>1, EntriesStay
  <2>2. /\ \A d \in Ctx : blacklist'[n][d] \in {blacklist[n][d], w}
        /\ \A s \in Sig : index'[n][s] \in {index[n][s], w}
    BY <2>1
  <2> QED
    BY <1>1, <2>2, StillBlocked
<1>2. ImmuneTypeOK /\ ImmuneTypeOK' /\ [Next]_vars => [Kept]_vars
  BY <1>1
<1>3. Spec => [][Kept]_vars
  <2> HIDE DEF Kept
  <2> QED
    BY InitTypeOK, TypeStep, <1>2, PTL DEF Spec
<1> QED
  BY <1>3 DEF ImmunityEndsOnlyByOtherWeight
=============================================================================
