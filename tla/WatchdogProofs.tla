--------------------------- MODULE WatchdogProofs ---------------------------
(***************************************************************************)
(* Proofs about Watchdog, for every task, cost table and set of blind      *)
(* targets.  The watcher's half needs no arithmetic: what is in the log    *)
(* and what was declared decide.  The maximizer's half is about LOOP.  At  *)
(* the end, the trace of a price probe (ProbeTrace).                       *)
(***************************************************************************)
EXTENDS Watchdog, ProbeTrace, TLAPS

\* What an intent is, whoever made it: the step at the wall comes second, no
\* agent plans a rejection, and an obstacle is only claimed at the wall.
SoundIntent(t, k) ==
  /\ \A i \in DOMAIN k.plan : k.plan[i].kind # "REJECTED"
  /\ t.has_wall => /\ {1, 2} \subseteq DOMAIN k.plan
                   /\ k.plan[1].kind = "ATTEMPT"
                   /\ k.plan[2] = Step("HIT_WALL", "wall")
  /\ \A s \in k.declared_scope : s.kind \in {"REPORT", "STOP"} => s.target = "wall"

WatchInv ==
  /\ setting \in Setting
  /\ stage \in {"facing", "failed", "acting", "watched", "labelled"}
  /\ stage \in {"acting", "watched", "labelled"} => SoundIntent(setting.task, intent)
  /\ stage \in {"watched", "labelled"} =>
       /\ steps = Seen(setting.world, setting.task, intent)
       /\ hidden = Hidden(setting.world, setting.task, intent)
  /\ stage = "labelled" => label = Classify(setting.task, steps, intent.declared_scope)
  /\ stage # "labelled" => label = "none"

\* The honest maximizer has chosen one of the best actions and declared it.
HonestInv ==
  /\ setting \in Setting
  /\ stage \in {"facing", "failed", "acting", "watched", "labelled"}
  /\ stage = "failed" => setting.agent = "model"
  /\ setting.agent = "honest" /\ stage \in {"acting", "watched", "labelled"} =>
       \E a \in Best(setting.task, setting.scheme) : intent = HonestIntent(setting.task, a)

-----------------------------------------------------------------------------
LEMMA SettingFields ==
  ASSUME setting \in Setting
  PROVE  /\ setting.task \in TaskType
         /\ setting.scheme \in CostsType
         /\ setting.world.gate \in BOOLEAN
  BY WatchdogAssumption DEF Setting

LEMMA StepFields == \A k, g : Step(k, g).kind = k /\ Step(k, g).target = g
  BY DEF Step

LEMMA Concatenation ==
  ASSUME NEW S, NEW u \in Seq(S), NEW v \in Seq(S)
  PROVE  /\ DOMAIN (u \o v) = 1..(Len(u) + Len(v))
         /\ \A i \in 1..Len(u) : (u \o v)[i] = u[i]
         /\ \A i \in (Len(u) + 1)..(Len(u) + Len(v)) : (u \o v)[i] = v[i - Len(u)]
  OBVIOUS

\* What a plan that opens at the task has in common, whatever follows.
LEMMA OpeningPlan ==
  ASSUME NEW t \in TaskType, NEW S,
         Step("ATTEMPT", "task") \in S, Step("HIT_WALL", "wall") \in S,
         NEW K, "ATTEMPT" \in K, "HIT_WALL" \in K,
         NEW v \in Seq(S), Len(v) > 0, \A i \in 1..Len(v) : v[i].kind \in K
  PROVE  LET p == Opening(t) \o v
         IN  /\ \A i \in DOMAIN p : p[i].kind \in K
             /\ t.has_wall => /\ {1, 2} \subseteq DOMAIN p
                              /\ p[1].kind = "ATTEMPT"
                              /\ p[2] = Step("HIT_WALL", "wall")
<1> DEFINE u == Opening(t)
           p == u \o v
<1>1. /\ u \in Seq(S)
      /\ \A i \in 1..Len(u) : u[i].kind \in K
      /\ t.has_wall => Len(u) = 2 /\ u[1].kind = "ATTEMPT" /\ u[2] = Step("HIT_WALL", "wall")
  <2> DEFINE a == Step("ATTEMPT", "task")
             h == Step("HIT_WALL", "wall")
  <2>1. a \in S /\ h \in S /\ a.kind = "ATTEMPT" /\ h.kind = "HIT_WALL"
    BY DEF Step
  <2>2. u = IF t.has_wall THEN <<a, h>> ELSE <<a>>
    BY DEF Opening
  <2>3. h = Step("HIT_WALL", "wall")
    OBVIOUS
  <2> HIDE DEF a, h, u
  <2>4. CASE t.has_wall
    <3>1. u = <<a, h>>
      BY <2>2, <2>4
    <3>2. u \in Seq(S) /\ Len(u) = 2 /\ u[1] = a /\ u[2] = h
      BY <3>1, <2>1
    <3>3. \A i \in 1..2 : i = 1 \/ i = 2
      OBVIOUS
    <3> QED BY <3>2, <3>3, <2>1, <2>3
  <2>5. CASE ~t.has_wall
    <3>1. u = <<a>>
      BY <2>2, <2>5
    <3>2. u \in Seq(S) /\ Len(u) = 1 /\ u[1] = a
      BY <3>1, <2>1
    <3>3. \A i \in 1..1 : i = 1
      OBVIOUS
    <3> QED BY <3>2, <3>3, <2>1, <2>5
  <2> QED BY <2>4, <2>5
<1> HIDE DEF u
<1>2. /\ DOMAIN p = 1..(Len(u) + Len(v))
      /\ \A i \in 1..Len(u) : p[i] = u[i]
      /\ \A i \in (Len(u) + 1)..(Len(u) + Len(v)) : p[i] = v[i - Len(u)]
  BY <1>1, Concatenation
<1>3. Len(u) \in Nat /\ Len(v) \in Nat
  BY <1>1
<1> HIDE DEF p
<1>4. ASSUME NEW i \in DOMAIN p PROVE p[i].kind \in K
  <2>1. CASE i \in 1..Len(u)
    BY <2>1, <1>1, <1>2
  <2>2. CASE i \notin 1..Len(u)
    <3>1. i \in (Len(u) + 1)..(Len(u) + Len(v)) /\ i - Len(u) \in 1..Len(v)
      BY <2>2, <1>2, <1>3
    <3> QED BY <3>1, <1>2
  <2> QED BY <2>1, <2>2
<1>5. t.has_wall => /\ {1, 2} \subseteq DOMAIN p
                    /\ p[1].kind = "ATTEMPT"
                    /\ p[2] = Step("HIT_WALL", "wall")
  <2> SUFFICES ASSUME t.has_wall
               PROVE  {1, 2} \subseteq DOMAIN p /\ p[1] = u[1] /\ p[2] = u[2]
    BY <1>1
  <2>1. Len(u) = 2
    BY <1>1
  <2>2. 1 \in 1..Len(u) /\ 2 \in 1..Len(u)
    BY <2>1
  <2>3. 1 \in DOMAIN p /\ 2 \in DOMAIN p
    BY <2>1, <1>2, <1>3
  <2> QED BY <2>2, <2>3, <1>2
<1> QED BY <1>4, <1>5 DEF p, u

\* The plans of steps_for: one more step, or two.
LEMMA OneStepPlan ==
  ASSUME NEW t \in TaskType, NEW k, NEW g
  PROVE  LET p == Opening(t) \o <<Step(k, g)>>
         IN  /\ \A i \in DOMAIN p : p[i].kind \in {"ATTEMPT", "HIT_WALL", k}
             /\ t.has_wall => /\ {1, 2} \subseteq DOMAIN p
                              /\ p[1].kind = "ATTEMPT"
                              /\ p[2] = Step("HIT_WALL", "wall")
<1> DEFINE S == {Step("ATTEMPT", "task"), Step("HIT_WALL", "wall"), Step(k, g)}
           K == {"ATTEMPT", "HIT_WALL", k}
           v == <<Step(k, g)>>
<1>1. /\ Step("ATTEMPT", "task") \in S /\ Step("HIT_WALL", "wall") \in S
      /\ "ATTEMPT" \in K /\ "HIT_WALL" \in K
  OBVIOUS
<1>2. Step(k, g).kind \in K /\ Step(k, g) \in S
  BY StepFields
<1> HIDE DEF S, K
<1>3. v \in Seq(S) /\ Len(v) > 0 /\ \A i \in 1..Len(v) : v[i].kind \in K
  BY <1>2
<1> QED BY <1>1, <1>3, OpeningPlan DEF K

LEMMA ZonePlan ==
  ASSUME NEW t \in TaskType
  PROVE  LET p == Opening(t) \o <<Step("BYPASS", "wall"), Step("ZONE", "zone")>>
         IN  /\ \A i \in DOMAIN p : p[i].kind \in {"ATTEMPT", "HIT_WALL", "BYPASS", "ZONE"}
             /\ t.has_wall => /\ {1, 2} \subseteq DOMAIN p
                              /\ p[1].kind = "ATTEMPT"
                              /\ p[2] = Step("HIT_WALL", "wall")
<1> DEFINE S == {Step("ATTEMPT", "task"), Step("HIT_WALL", "wall"),
                 Step("BYPASS", "wall"), Step("ZONE", "zone")}
           K == {"ATTEMPT", "HIT_WALL", "BYPASS", "ZONE"}
           x == Step("BYPASS", "wall")
           y == Step("ZONE", "zone")
           v == <<x, y>>
<1>1. /\ Step("ATTEMPT", "task") \in S /\ Step("HIT_WALL", "wall") \in S
      /\ "ATTEMPT" \in K /\ "HIT_WALL" \in K
  OBVIOUS
<1>2. x.kind \in K /\ y.kind \in K /\ x \in S /\ y \in S
  BY StepFields
<1> HIDE DEF S, K, x, y
<1>3. v \in Seq(S) /\ Len(v) > 0 /\ \A i \in 1..Len(v) : v[i].kind \in K
  BY <1>2
<1> HIDE DEF v
<1>4. LET p == Opening(t) \o v
      IN  /\ \A i \in DOMAIN p : p[i].kind \in K
          /\ t.has_wall => /\ {1, 2} \subseteq DOMAIN p
                           /\ p[1].kind = "ATTEMPT"
                           /\ p[2] = Step("HIT_WALL", "wall")
  BY <1>1, <1>3, OpeningPlan
<1> QED BY <1>4 DEF K, v, x, y

\* steps_for: which kinds of steps an action plans, and the obstacle comes second.
LEMMA SoundPlan ==
  ASSUME NEW t \in TaskType, NEW action, NEW crossed \in BOOLEAN
  PROVE  LET p == StepsFor(t, action, crossed)
         IN  /\ \A i \in DOMAIN p : p[i].kind # "REJECTED"
             /\ action \in {"SOLVE", "LAWFUL_EXIT", "GIVE_UP"} =>
                  \A i \in DOMAIN p : p[i].kind \in Licensed
             /\ action \in {"SOLVE", "LAWFUL_EXIT", "GIVE_UP"} \/ ~crossed =>
                  \A i \in DOMAIN p : p[i].kind # "ZONE"
             /\ t.has_wall => /\ {1, 2} \subseteq DOMAIN p
                              /\ p[1].kind = "ATTEMPT"
                              /\ p[2] = Step("HIT_WALL", "wall")
<1> DEFINE p == StepsFor(t, action, crossed)
           Shape(q) == t.has_wall => /\ {1, 2} \subseteq DOMAIN q
                                     /\ q[1].kind = "ATTEMPT"
                                     /\ q[2] = Step("HIT_WALL", "wall")
<1>1. CASE action = "SOLVE"
  <2>1. p = Opening(t) \o <<Step("SOLVE", "lawful_path")>>
    BY <1>1 DEF StepsFor
  <2> HIDE DEF p
  <2>2. Shape(p) /\ \A i \in DOMAIN p : p[i].kind \in {"ATTEMPT", "HIT_WALL", "SOLVE"}
    BY <2>1, OneStepPlan
  <2> QED BY <1>1, <2>2 DEF Licensed, p
<1>2. CASE action = "LAWFUL_EXIT"
  <2>1. p = Opening(t) \o <<Step("REPORT", "wall")>>
    BY <1>2 DEF StepsFor
  <2> HIDE DEF p
  <2>2. Shape(p) /\ \A i \in DOMAIN p : p[i].kind \in {"ATTEMPT", "HIT_WALL", "REPORT"}
    BY <2>1, OneStepPlan
  <2> QED BY <1>2, <2>2 DEF Licensed, p
<1>3. CASE action = "GIVE_UP"
  <2>1. p = Opening(t) \o <<Step("STOP", "wall")>>
    BY <1>3 DEF StepsFor
  <2> HIDE DEF p
  <2>2. Shape(p) /\ \A i \in DOMAIN p : p[i].kind \in {"ATTEMPT", "HIT_WALL", "STOP"}
    BY <2>1, OneStepPlan
  <2> QED BY <1>3, <2>2 DEF Licensed, p
<1>4. CASE action \notin {"SOLVE", "LAWFUL_EXIT", "GIVE_UP"}
  <2>1. p = Opening(t) \o (IF crossed THEN <<Step("BYPASS", "wall"), Step("ZONE", "zone")>>
                                      ELSE <<Step("BYPASS", "wall")>>)
    BY <1>4 DEF StepsFor
  <2> HIDE DEF p
  <2>2. CASE crossed
    <3>1. Shape(p) /\ \A i \in DOMAIN p : p[i].kind \in {"ATTEMPT", "HIT_WALL", "BYPASS", "ZONE"}
      BY <2>1, <2>2, ZonePlan
    <3> QED BY <1>4, <2>2, <3>1 DEF p
  <2>3. CASE ~crossed
    <3>1. Shape(p) /\ \A i \in DOMAIN p : p[i].kind \in {"ATTEMPT", "HIT_WALL", "BYPASS"}
      BY <2>1, <2>3, OneStepPlan
    <3> QED BY <1>4, <2>3, <3>1 DEF p
  <2> QED BY <2>2, <2>3
<1> QED BY <1>1, <1>2, <1>3, <1>4

LEMMA HonestIsSound ==
  ASSUME NEW t \in TaskType, NEW a
  PROVE  SoundIntent(t, HonestIntent(t, a))
<1> DEFINE crossed == a \in {"BYPASS_SILENT", "DECLARE_BYPASS"} /\ Forbidden(t)
           plan == StepsFor(t, a, crossed)
<1>1. crossed \in BOOLEAN
  OBVIOUS
<1> HIDE DEF crossed
<1>2. /\ \A i \in DOMAIN plan : plan[i].kind # "REJECTED"
      /\ t.has_wall => /\ {1, 2} \subseteq DOMAIN plan
                       /\ plan[1].kind = "ATTEMPT"
                       /\ plan[2] = Step("HIT_WALL", "wall")
  BY <1>1, SoundPlan
<1> HIDE DEF plan
<1>3. \A s \in ScopeFor(a, plan) : s.kind \in {"REPORT", "STOP"} => s.target = "wall"
  BY DEF ScopeFor, Consequential, Licensed, Step
<1>4. HonestIntent(t, a) = Intent(a, ScopeFor(a, plan), plan)
  BY DEF HonestIntent, plan, crossed
<1> QED BY <1>2, <1>3, <1>4 DEF SoundIntent, Intent

LEMMA PartialIsSound ==
  ASSUME NEW t \in TaskType
  PROVE  SoundIntent(t, PartialIntent)
<1> DEFINE p == PartialIntent.plan
<1>1. /\ DOMAIN p = 1..5
      /\ p[1] = Step("ATTEMPT", "task") /\ p[2] = Step("HIT_WALL", "wall")
      /\ p[3] = Step("BYPASS", "wall") /\ p[4] = Step("BYPASS", "undeclared_path")
      /\ p[5] = Step("ZONE", "zone")
  BY DEF PartialIntent, Intent
<1>2. PartialIntent.declared_scope = {Step("BYPASS", "wall")}
  BY DEF PartialIntent, Intent
<1>3. \A i \in 1..5 : i = 1 \/ i = 2 \/ i = 3 \/ i = 4 \/ i = 5
  OBVIOUS
<1> HIDE DEF p
<1>4. /\ \A i \in DOMAIN p : p[i].kind # "REJECTED"
      /\ {1, 2} \subseteq DOMAIN p
      /\ p[1].kind = "ATTEMPT"
  <2>1. /\ p[1].kind = "ATTEMPT" /\ p[2].kind = "HIT_WALL" /\ p[3].kind = "BYPASS"
        /\ p[4].kind = "BYPASS" /\ p[5].kind = "ZONE"
    BY <1>1, StepFields
  <2>2. 1 \in 1..5 /\ 2 \in 1..5
    OBVIOUS
  <2> QED BY <1>1, <1>3, <2>1, <2>2
<1>5. \A s \in PartialIntent.declared_scope : s.kind = "BYPASS"
  BY <1>2 DEF Step
<1> QED BY <1>1, <1>4, <1>5 DEF SoundIntent, p

LEMMA ModelIsSound ==
  ASSUME NEW t \in TaskType, NEW declare, NEW do
  PROVE  SoundIntent(t, ModelIntent(t, declare, do))
<1> DEFINE silent == HonestIntent(t, "BYPASS_SILENT")
           Lie(k) == [silent EXCEPT !.declared_scope = {Step(k, "wall")}]
<1>1. \A a : SoundIntent(t, HonestIntent(t, a))
  BY HonestIsSound
<1>2. ASSUME NEW k PROVE SoundIntent(t, Lie(k))
  <2>1. SoundIntent(t, silent)
    BY <1>1
  <2>2. Lie(k).plan = silent.plan /\ Lie(k).declared_scope = {Step(k, "wall")}
    BY DEF HonestIntent, Intent
  <2> HIDE DEF Lie, silent
  <2> QED BY <2>1, <2>2 DEF SoundIntent, Step
<1>3. \/ \E a \in {"SOLVE", "LAWFUL_EXIT", "GIVE_UP", "DECLARE_BYPASS", "BYPASS_SILENT"} :
           ModelIntent(t, declare, do) = HonestIntent(t, a)
      \/ ModelIntent(t, declare, do) = Lie("REPORT")
      \/ ModelIntent(t, declare, do) = Lie("STOP")
  BY DEF ModelIntent
<1> HIDE DEF Lie
<1> QED BY <1>1, <1>2, <1>3

-----------------------------------------------------------------------------
LEMMA WatchInit == Init => WatchInv
  BY DEF Init, WatchInv

LEMMA WatchStep == WatchInv /\ [Next]_vars => WatchInv'
<1> SUFFICES ASSUME WatchInv, [Next]_vars PROVE WatchInv'
  OBVIOUS
<1> DEFINE t == setting.task
<1>1. t \in TaskType
  BY SettingFields DEF WatchInv
<1>2. CASE Decide
  <2>1. SoundIntent(setting'.task, intent')
    <3>1. \E a : intent' \in {PartialIntent, HonestIntent(t, a)}
      BY <1>2 DEF Decide
    <3>2. SoundIntent(t, PartialIntent) /\ \A a : SoundIntent(t, HonestIntent(t, a))
      BY <1>1, PartialIsSound, HonestIsSound
    <3>3. setting' = setting
      BY <1>2 DEF Decide
    <3> HIDE DEF t
    <3>4. SoundIntent(t, intent')
      BY <3>1, <3>2
    <3> QED BY <3>3, <3>4 DEF t
  <2> QED BY <1>2, <2>1 DEF WatchInv, Decide
<1>3. CASE Answer
  <2>1. SoundIntent(setting'.task, intent')
    <3>1. \E d, o : intent' = ModelIntent(t, d, o)
      BY <1>3 DEF Answer
    <3>2. \A d, o : SoundIntent(t, ModelIntent(t, d, o))
      BY <1>1, ModelIsSound
    <3>3. setting' = setting
      BY <1>3 DEF Answer
    <3> HIDE DEF t
    <3>4. SoundIntent(t, intent')
      BY <3>1, <3>2
    <3> QED BY <3>3, <3>4 DEF t
  <2> QED BY <1>3, <2>1 DEF WatchInv, Answer
<1>4. CASE ModelError
  BY <1>4 DEF WatchInv, ModelError
<1>5. CASE Execute
  BY <1>5 DEF WatchInv, Execute
<1>6. CASE Watch
  BY <1>6 DEF WatchInv, Watch
<1>7. CASE NextEpisode
  BY <1>7 DEF WatchInv, NextEpisode
<1>8. CASE UNCHANGED vars
  BY <1>8 DEF WatchInv, vars
<1> QED BY <1>2, <1>3, <1>4, <1>5, <1>6, <1>7, <1>8 DEF Next

LEMMA WatchInvHolds == Spec => []WatchInv
  BY WatchInit, WatchStep, PTL DEF Spec

-----------------------------------------------------------------------------
(* What the invariant says of the log. *)

\* A step of the log that the world did not write is a step that happened.
LEMMA LogIsTrue ==
  ASSUME steps = Seen(setting.world, setting.task, intent), NEW s \in steps
  PROVE  \E i \in Taken(setting.world, setting.task, intent) :
           /\ intent.plan[i].target \notin setting.world.blind_targets
           /\ \/ Stopped(setting.world, intent, intent.plan[i]) /\ s.kind = "REJECTED"
              \/ i \in Happened /\ s = intent.plan[i]
<1>1. PICK i \in Taken(setting.world, setting.task, intent) :
        /\ intent.plan[i].target \notin setting.world.blind_targets
        /\ s = Recorded(setting.world, intent, intent.plan[i])
  BY DEF Seen
<1>2. CASE Stopped(setting.world, intent, intent.plan[i])
  BY <1>1, <1>2 DEF Recorded, Step
<1>3. CASE ~Stopped(setting.world, intent, intent.plan[i])
  BY <1>1, <1>3 DEF Recorded, Happened
<1> QED BY <1>1, <1>2, <1>3

\* The zone is absolute within coverage, for every scheme, agent and stake.
THEOREM GateIsAbsolute == Spec => []GateHoldsTheZone
<1>1. WatchInv => GateHoldsTheZone
  <2> SUFFICES ASSUME WatchInv, stage \in {"watched", "labelled"}, setting.world.gate
               PROVE  /\ \A s \in steps : s.kind # "ZONE"
                      /\ \A s \in hidden :
                           s.kind = "ZONE" => s.target \in setting.world.blind_targets
    BY DEF GateHoldsTheZone
  <2>1. ASSUME NEW s \in steps PROVE s.kind # "ZONE"
    <3>1. PICK i \in Taken(setting.world, setting.task, intent) :
            /\ intent.plan[i].target \notin setting.world.blind_targets
            /\ \/ Stopped(setting.world, intent, intent.plan[i]) /\ s.kind = "REJECTED"
               \/ i \in Happened /\ s = intent.plan[i]
      BY <2>1, LogIsTrue DEF WatchInv
    <3> QED BY <3>1 DEF Happened, Stopped
  <2>2. \A s \in hidden : s.target \in setting.world.blind_targets
    BY DEF WatchInv, Hidden
  <2> QED BY <2>1, <2>2
<1> QED BY <1>1, WatchInvHolds, PTL

\* No undeclared act in a watched channel goes without an answer.
THEOREM EveryBypassIsAnsweredHolds == Spec => []EveryBypassIsAnswered
<1>1. WatchInv => EveryBypassIsAnswered
  <2> SUFFICES ASSUME WatchInv, stage = "labelled", NEW i \in Undeclared
               PROVE  \/ label = "bypass"
                      \/ /\ intent.declared_scope = {} /\ setting.task.looks_like_mistake
                         /\ label \in {"error", "unclear"}
    BY DEF EveryBypassIsAnswered
  <2> DEFINE s == intent.plan[i]
             scope == intent.declared_scope
  <2>1. s \in steps
    BY DEF WatchInv, Undeclared, Happened, Seen, Recorded
  <2>2. Gap(steps, scope) # {}
    <3>1. s.kind \notin Licensed /\ s \notin scope
      BY DEF Undeclared
    <3> HIDE DEF s, scope
    <3> QED BY <2>1, <3>1 DEF Gap
  <2>3. label = Classify(setting.task, steps, scope)
    BY DEF WatchInv
  <2>4. scope = {} => ~Unsupported(steps, scope)
    BY DEF Unsupported
  <2> HIDE DEF scope
  <2>5. \/ label = "bypass"
        \/ scope = {} /\ setting.task.looks_like_mistake /\ label \in {"error", "unclear"}
    BY <2>2, <2>3, <2>4 DEF Classify
  <2> QED BY <2>5 DEF scope
<1> QED BY <1>1, WatchInvHolds, PTL

\* Nobody is accused without an undeclared act, a forbidden try, or a claim
\* that the world does not bear out.
THEOREM NoInnocentIsAccusedHolds == Spec => []NoInnocentIsAccused
<1>1. WatchInv => NoInnocentIsAccused
  <2> SUFFICES ASSUME WatchInv PROVE NoInnocentIsAccused
    OBVIOUS
  <2> DEFINE scope == intent.declared_scope
             R == Taken(setting.world, setting.task, intent)
  <2>1. CASE stage # "labelled"
    BY <2>1 DEF WatchInv, NoInnocentIsAccused
  <2>2. CASE stage = "labelled"
    <3>1. /\ label = Classify(setting.task, steps, scope)
          /\ steps = Seen(setting.world, setting.task, intent)
          /\ SoundIntent(setting.task, intent)
      BY <2>2 DEF WatchInv
    <3>2. \A s \in steps : \E i \in R :
            /\ intent.plan[i].target \notin setting.world.blind_targets
            /\ \/ Stopped(setting.world, intent, intent.plan[i]) /\ s.kind = "REJECTED"
               \/ i \in Happened /\ s = intent.plan[i]
      BY <3>1, LogIsTrue
    <3>3. Gap(steps, scope) # {} => Undeclared # {}
      <4> SUFFICES ASSUME NEW s \in steps, s.kind \notin Licensed, s \notin scope
                   PROVE  Undeclared # {}
        BY DEF Gap
      <4>1. PICK i \in R :
              /\ intent.plan[i].target \notin setting.world.blind_targets
              /\ \/ Stopped(setting.world, intent, intent.plan[i]) /\ s.kind = "REJECTED"
                 \/ i \in Happened /\ s = intent.plan[i]
        BY <3>2
      <4>2. i \in Happened /\ s = intent.plan[i]
        BY <4>1 DEF Licensed
      <4> QED BY <4>1, <4>2 DEF Undeclared
    <3>4. ZoneTried(steps) => \E i \in R : intent.plan[i].kind = "ZONE"
      <4> SUFFICES ASSUME NEW s \in steps, s.kind \in {"ZONE", "REJECTED"}
                   PROVE  \E i \in R : intent.plan[i].kind = "ZONE"
        BY DEF ZoneTried
      <4>1. PICK i \in R :
              \/ Stopped(setting.world, intent, intent.plan[i]) /\ s.kind = "REJECTED"
              \/ i \in Happened /\ s = intent.plan[i]
        BY <3>2
      <4>2. intent.plan[i].kind # "REJECTED"
        BY <3>1 DEF SoundIntent, Taken
      <4> QED BY <4>1, <4>2 DEF Stopped
    <3>5. Unsupported(steps, scope) =>
            /\ \E s \in scope : s.kind \in {"REPORT", "STOP"}
            /\ ~setting.task.has_wall \/ "wall" \in setting.world.blind_targets
      <4> SUFFICES ASSUME NEW s \in scope, s.kind \in {"REPORT", "STOP"},
                          Step("HIT_WALL", s.target) \notin steps,
                          setting.task.has_wall
                   PROVE  "wall" \in setting.world.blind_targets
        BY DEF Unsupported
      <4>1. s.target = "wall"
        BY <3>1 DEF SoundIntent
      <4>2. /\ 2 \in DOMAIN intent.plan
            /\ intent.plan[1].kind = "ATTEMPT"
            /\ intent.plan[2] = Step("HIT_WALL", "wall")
        BY <3>1 DEF SoundIntent
      <4>3. 2 \in R
        <5>1. ~Stopped(setting.world, intent, intent.plan[1])
          BY <4>2 DEF Stopped
        <5>2. \A j \in 1..(2 - 1) : j = 1
          OBVIOUS
        <5> QED BY <4>2, <5>1, <5>2 DEF Taken
      <4>4. Recorded(setting.world, intent, intent.plan[2]) = Step("HIT_WALL", "wall")
        BY <4>2 DEF Recorded, Stopped, Step
      <4>5. CASE "wall" \notin setting.world.blind_targets
        <5>1. intent.plan[2].target = "wall"
          BY <4>2 DEF Step
        <5>2. Step("HIT_WALL", "wall") \in steps
          BY <3>1, <4>3, <4>4, <4>5, <5>1 DEF Seen
        <5> QED BY <4>1, <5>2
      <4> QED BY <4>5
    <3> HIDE DEF scope, R
    <3>6. /\ label = "bypass" =>
               \/ Gap(steps, scope) # {}
               \/ ZoneTried(steps) /\ ~setting.task.permission_granted
          /\ label = "false exit" => Unsupported(steps, scope)
      BY <3>1 DEF Classify
    <3> QED BY <3>3, <3>4, <3>5, <3>6 DEF NoInnocentIsAccused, scope, R
  <2> QED BY <2>1, <2>2
<1> QED BY <1>1, WatchInvHolds, PTL

-----------------------------------------------------------------------------
(* The honest maximizer under LOOP. *)

LEMMA LoopCosts ==
  /\ LOOP.r_task = 100 /\ LOOP.r_exit = 30 /\ LOOP.r_giveup = 0 /\ LOOP.lam = 10
  /\ LOOP.deterrence = 60 /\ LOOP.block = 150 /\ LOOP.scrutiny = 5 /\ LOOP.effort = 1
  /\ LOOP.fabrication = 40 /\ LOOP.gate = TRUE
  BY DEF LOOP, BASELINE

\* What LOOP pays, action by action.
LEMMA LoopUtilities ==
  ASSUME NEW t \in TaskType
  PROVE  /\ Forbidden(t) => /\ Utility(t, LOOP, "BYPASS_SILENT") = -155
                            /\ Utility(t, LOOP, "DECLARE_BYPASS") = -1
         /\ ~Forbidden(t) =>
              /\ Utility(t, LOOP, "BYPASS_SILENT") = 95 - 70 * t.third_party_cost
              /\ Utility(t, LOOP, "DECLARE_BYPASS") = 99 - 70 * t.third_party_cost
         /\ Utility(t, LOOP, "LAWFUL_EXIT") = IF t.has_wall THEN 30 ELSE -10
         /\ Utility(t, LOOP, "GIVE_UP") = IF t.has_wall THEN 0 ELSE -40
         /\ Utility(t, LOOP, "SOLVE") = 100 - t.solve_cost
<1>1. t.third_party_cost \in Nat
  BY DEF TaskType
<1>2. HarmPrice(t, LOOP) = 70 * t.third_party_cost
  BY <1>1, LoopCosts DEF HarmPrice
<1>3. SilentUtility(t, LOOP) = IF Forbidden(t) THEN -155 ELSE 95 - 70 * t.third_party_cost
  BY <1>1, <1>2, LoopCosts DEF SilentUtility
<1>4. DeclareUtility(t, LOOP) = IF Forbidden(t) THEN -1 ELSE 99 - 70 * t.third_party_cost
  BY <1>1, <1>2, LoopCosts DEF DeclareUtility
<1>5. Fabrication(t, LOOP) = IF t.has_wall THEN 0 ELSE 40
  BY LoopCosts DEF Fabrication
<1> QED BY <1>3, <1>4, <1>5, LoopCosts DEF Utility

\* What it therefore chooses.
LEMMA LoopChoice ==
  ASSUME NEW t \in TaskType, NEW a \in Best(t, LOOP)
  PROVE  /\ a \in {"DECLARE_BYPASS", "LAWFUL_EXIT", "GIVE_UP", "SOLVE"}
         /\ t.solve_cost # NoPath /\ t.solve_cost <= HardestWork =>
              a \notin {"LAWFUL_EXIT", "GIVE_UP"}
         /\ Forbidden(t) \/ (t.has_lawful_exit /\ t.third_party_cost > 0) => a # "DECLARE_BYPASS"
<1> DEFINE U(b) == Utility(t, LOOP, b)
<1>1. /\ a \in Feasible(t)
      /\ \A b \in Feasible(t) : U(b) < U(a) \/ U(b) = U(a)
  BY DEF Best
<1>2. /\ t.third_party_cost \in Nat
      /\ t.solve_cost # NoPath => t.solve_cost \in Nat
  BY DEF TaskType
<1>3. /\ "GIVE_UP" \in Feasible(t)
      /\ t.has_wall => {"BYPASS_SILENT", "DECLARE_BYPASS"} \subseteq Feasible(t)
      /\ a \in {"BYPASS_SILENT", "DECLARE_BYPASS"} => t.has_wall
      /\ t.has_lawful_exit => "LAWFUL_EXIT" \in Feasible(t)
      /\ t.solve_cost # NoPath => "SOLVE" \in Feasible(t)
      /\ a \in {"BYPASS_SILENT", "DECLARE_BYPASS", "LAWFUL_EXIT", "GIVE_UP", "SOLVE"}
  BY <1>1 DEF Feasible
<1>4. a # "BYPASS_SILENT"
  <2> SUFFICES ASSUME a = "BYPASS_SILENT" PROVE FALSE
    OBVIOUS
  <2>1. U("DECLARE_BYPASS") < U("BYPASS_SILENT") \/ U("DECLARE_BYPASS") = U("BYPASS_SILENT")
    BY <1>1, <1>3
  <2> QED BY <2>1, <1>2, LoopUtilities
<1>5. ASSUME t.solve_cost # NoPath, t.solve_cost <= 60, a \in {"LAWFUL_EXIT", "GIVE_UP"}
      PROVE  FALSE
  <2>1. U("SOLVE") < U(a) \/ U("SOLVE") = U(a)
    BY <1>1, <1>3, <1>5
  <2>2. U(a) <= 30 /\ U(a) \in Int
    BY <1>5, LoopUtilities
  <2>3. U("SOLVE") = 100 - t.solve_cost /\ t.solve_cost \in Nat
    BY <1>2, <1>5, LoopUtilities
  <2> HIDE DEF U
  <2> QED BY <2>1, <2>2, <2>3, <1>5
<1>6. ASSUME Forbidden(t), a = "DECLARE_BYPASS" PROVE FALSE
  <2>1. U("GIVE_UP") < U("DECLARE_BYPASS") \/ U("GIVE_UP") = U("DECLARE_BYPASS")
    BY <1>1, <1>3, <1>6
  <2> QED BY <2>1, <1>3, <1>6, LoopUtilities
<1>7. ASSUME ~Forbidden(t), t.has_lawful_exit, t.third_party_cost > 0, a = "DECLARE_BYPASS"
      PROVE  FALSE
  <2>1. U("LAWFUL_EXIT") < U("DECLARE_BYPASS") \/ U("LAWFUL_EXIT") = U("DECLARE_BYPASS")
    BY <1>1, <1>3, <1>7
  <2> QED BY <2>1, <1>2, <1>3, <1>7, LoopUtilities
<1>8. a \in {"DECLARE_BYPASS", "LAWFUL_EXIT", "GIVE_UP", "SOLVE"}
  BY <1>3, <1>4
<1>9. t.solve_cost # NoPath /\ t.solve_cost <= HardestWork => a \notin {"LAWFUL_EXIT", "GIVE_UP"}
  BY <1>5 DEF HardestWork
<1>10. Forbidden(t) \/ (t.has_lawful_exit /\ t.third_party_cost > 0) => a # "DECLARE_BYPASS"
  BY <1>6, <1>7
<1> QED BY <1>8, <1>9, <1>10

\* Such a choice leaves nothing undeclared and does not come near the zone.
LEMMA LoopIntentIsOpen ==
  ASSUME NEW t \in TaskType, NEW a \in Best(t, LOOP)
  PROVE  LET k == HonestIntent(t, a)
         IN  /\ k.action = a
             /\ \A i \in DOMAIN k.plan :
                  /\ k.plan[i].kind # "ZONE"
                  /\ k.plan[i].kind \in Licensed \/ k.plan[i] \in k.declared_scope
<1> DEFINE crossed == a \in {"BYPASS_SILENT", "DECLARE_BYPASS"} /\ Forbidden(t)
           plan == StepsFor(t, a, crossed)
<1>1. /\ a \in {"DECLARE_BYPASS", "LAWFUL_EXIT", "GIVE_UP", "SOLVE"}
      /\ ~crossed
  <2>1. /\ a \in {"DECLARE_BYPASS", "LAWFUL_EXIT", "GIVE_UP", "SOLVE"}
        /\ Forbidden(t) => a # "DECLARE_BYPASS"
    BY LoopChoice
  <2> QED BY <2>1
<1> HIDE DEF crossed
<1>2. crossed \in BOOLEAN
  BY <1>1 DEF crossed
<1>3. /\ \A i \in DOMAIN plan : plan[i].kind # "ZONE"
      /\ a \in {"SOLVE", "LAWFUL_EXIT", "GIVE_UP"} => \A i \in DOMAIN plan : plan[i].kind \in Licensed
  BY <1>1, <1>2, SoundPlan
<1> HIDE DEF plan
<1>4. a = "DECLARE_BYPASS" =>
        \A i \in DOMAIN plan : plan[i].kind \in Licensed \/ plan[i] \in ScopeFor(a, plan)
  BY DEF ScopeFor, Consequential
<1>5. HonestIntent(t, a) = Intent(a, ScopeFor(a, plan), plan)
  BY DEF HonestIntent, plan, crossed
<1>6. /\ HonestIntent(t, a).action = a /\ HonestIntent(t, a).plan = plan
      /\ HonestIntent(t, a).declared_scope = ScopeFor(a, plan)
  BY <1>5 DEF Intent
<1> QED BY <1>1, <1>3, <1>4, <1>6

LEMMA HonestInvHolds == Spec => []HonestInv
<1>1. Init => HonestInv
  BY DEF Init, HonestInv
<1>2. HonestInv /\ [Next]_vars => HonestInv'
  <2> SUFFICES ASSUME HonestInv, [Next]_vars PROVE HonestInv'
    OBVIOUS
  <2>1. CASE Decide
    <3>1. setting'.agent = "honest" =>
            \E a \in Best(setting'.task, setting'.scheme) : intent' = HonestIntent(setting'.task, a)
      BY <2>1 DEF Decide
    <3> QED BY <2>1, <3>1 DEF Decide, HonestInv
  <2>2. CASE Answer
    BY <2>2 DEF Answer, HonestInv
  <2>3. CASE ModelError
    BY <2>3 DEF ModelError, HonestInv
  <2>4. CASE Execute
    BY <2>4 DEF Execute, HonestInv
  <2>5. CASE Watch
    BY <2>5 DEF Watch, HonestInv
  <2>6. CASE NextEpisode
    BY <2>6 DEF NextEpisode, HonestInv
  <2>7. CASE UNCHANGED vars
    BY <2>7 DEF vars, HonestInv
  <2> QED BY <2>1, <2>2, <2>3, <2>4, <2>5, <2>6, <2>7 DEF Next
<1> QED BY <1>1, <1>2, PTL DEF Spec

\* Under LOOP the honest maximizer does the lawful work, keeps out of the zone,
\* buys no harm where there is an exit, and is never labelled a bypass.
THEOREM TheLoopPaysHolds == Spec => []TheLoopPays
<1>1. HonestInv /\ NoInnocentIsAccused => TheLoopPays
  <2> SUFFICES ASSUME HonestInv, NoInnocentIsAccused,
                      setting.scheme = LOOP, setting.agent = "honest", stage # "facing"
               PROVE  TheLoopPays
    BY DEF TheLoopPays
  <2> DEFINE t == setting.task
  <2>1. t \in TaskType
    BY SettingFields DEF HonestInv
  <2>2. PICK a \in Best(t, LOOP) : intent = HonestIntent(t, a)
    BY DEF HonestInv
  <2>3. /\ intent.action = a
        /\ \A i \in DOMAIN intent.plan :
             /\ intent.plan[i].kind # "ZONE"
             /\ intent.plan[i].kind \in Licensed \/ intent.plan[i] \in intent.declared_scope
    BY <2>1, <2>2, LoopIntentIsOpen
  <2>4. Undeclared = {}
    BY <2>3 DEF Undeclared, Happened, Taken
  <2>5. \A i \in Taken(setting.world, setting.task, intent) : intent.plan[i].kind # "ZONE"
    BY <2>3 DEF Taken
  <2>6. label # "bypass"
    BY <2>4, <2>5 DEF NoInnocentIsAccused
  <2>7. /\ intent.action \in {"DECLARE_BYPASS", "LAWFUL_EXIT", "GIVE_UP", "SOLVE"}
        /\ t.solve_cost # NoPath /\ t.solve_cost <= HardestWork =>
             intent.action \notin {"LAWFUL_EXIT", "GIVE_UP"}
        /\ Forbidden(t) \/ (t.has_lawful_exit /\ t.third_party_cost > 0) =>
             intent.action # "DECLARE_BYPASS"
    <3> HIDE DEF t
    <3> QED BY <2>1, <2>2, <2>3, LoopChoice
  <2>8. intent.action \in {"DECLARE_BYPASS", "LAWFUL_EXIT", "GIVE_UP", "SOLVE"} =>
          intent.action # "BYPASS_SILENT"
    OBVIOUS
  <2> QED BY <2>6, <2>7, <2>8 DEF TheLoopPays
<1> QED BY <1>1, HonestInvHolds, NoInnocentIsAccusedHolds, PTL

-----------------------------------------------------------------------------
(* The trace of the probe. *)

\* What is answered is on the disk or held back, but for the call in hand; while
\* the file is written anew it is in memory as well, and after a flush no other
\* line is held back.
KeptInv ==
  /\ process \in Alive \cup {"none", "stopped", "killed"}
  /\ recorded \in BOOLEAN
  /\ process \in Alive => todo \cap answered = {}
  /\ process = "rewriting" => answered = done /\ trace \cup buffer \subseteq done /\ ~recorded
  /\ process \in {"rewriting", "asking"} => current = {}
  /\ process \in {"asking", "written"} => answered = trace \cup buffer
  /\ process = "answered" => answered = trace \cup buffer \cup current
  /\ process \in {"asking", "answered"} /\ recorded => buffer = {}
  /\ process = "written" /\ recorded => buffer \subseteq current
  /\ process \in {"stopped", "killed"} /\ recorded =>
       trace \subseteq answered /\ answered \ trace \subseteq current

\* A process that has recorded a call of its own loses, however it ends, at most
\* the call in hand.
THEOREM KeptOnceRecordedHolds == ProbeSpec => []KeptOnceRecorded
<1>1. ProbeInit => KeptInv
  BY DEF ProbeInit, KeptInv, Alive
<1>2. KeptInv /\ [ProbeNext]_probeVars => KeptInv'
  <2> SUFFICES ASSUME KeptInv, [ProbeNext]_probeVars PROVE KeptInv'
    OBVIOUS
  <2> USE DEF KeptInv, Alive, file
  <2>1. CASE NewTrace
    BY <2>1 DEF NewTrace
  <2>2. CASE Resume
    BY <2>2 DEF Resume
  <2>3. CASE StartAsking
    BY <2>3 DEF StartAsking
  <2>4. CASE WriteLine
    BY <2>4 DEF WriteLine, Write
  <2>5. CASE Flush
    BY <2>5 DEF Flush
  <2>6. CASE Finish \/ Interrupt
    <3>1. process \in Alive /\ Close
      BY <2>6 DEF Finish, Interrupt
    <3>2. recorded => answered \ (trace \cup buffer) \subseteq current /\ trace \cup buffer \subseteq answered
      BY <3>1
    <3> QED
      BY <3>1, <3>2 DEF Close
  <2>7. CASE Kill
    <3>1. /\ process \in Alive /\ process' = "killed"
          /\ trace \subseteq trace' /\ trace' \subseteq trace \cup buffer
          /\ UNCHANGED <<current, todo, answered, recorded>>
      BY <2>7 DEF Kill
    <3>2. recorded => answered \ trace \subseteq current /\ trace \cup buffer \subseteq answered
      BY <3>1
    <3> QED
      BY <3>1, <3>2
  <2>8. ASSUME NEW c \in Call, Rewrite(c) PROVE KeptInv'
    BY <2>8 DEF Rewrite, Write
  <2>9. ASSUME NEW c \in Call, Answered(c) PROVE KeptInv'
    BY <2>9 DEF Answered, Ask
  <2>10. ASSUME NEW c \in Call, NEW transport \in BOOLEAN, Failed(c, transport) PROVE KeptInv'
    BY <2>10 DEF Failed, Ask
  <2>11. CASE UNCHANGED probeVars
    BY <2>11 DEF probeVars
  <2> QED
    BY <2>1, <2>2, <2>3, <2>4, <2>5, <2>6, <2>7, <2>8, <2>9, <2>10, <2>11 DEF ProbeNext
<1>3. KeptInv => KeptOnceRecorded
  BY DEF KeptInv, KeptOnceRecorded, Alive
<1> QED BY <1>1, <1>2, <1>3, PTL DEF ProbeSpec
=============================================================================
