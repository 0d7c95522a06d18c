---------------------------- MODULE WorldProofs ----------------------------
(***************************************************************************)
(* What the primitive updates of World, Activities and Transfer do to each *)
(* store, and the inductive invariant of the engine, which the life of an  *)
(* offer keeps, for every value of the constants.                          *)
(***************************************************************************)
EXTENDS WorldEngine, SumProofs

Worlds ==
  [ agents : [Agents -> AgentRecord], purses : [Agents -> Purse],
    transfers : [Transfers -> OfferRecord],
    announcements : [Announcements -> SUBSET Agents],
    timers : SUBSET TimerRecord,
    registrations : [Agents -> Purse \cup {None}] ]

TimerTypes == ActivityTypes \cup {"idle_reminder", "movement", "transfer"}

\* v is w with the agents A and the timers T.
Updates(v, w, A, T) ==
  /\ v \in Worlds /\ v.agents = A /\ v.timers = T
  /\ v.purses = w.purses /\ v.transfers = w.transfers
  /\ v.announcements = w.announcements /\ v.registrations = w.registrations

\* What is owned, offered and registered is the same.
SameStores(v, w) ==
  v.purses = w.purses /\ v.transfers = w.transfers /\ v.registrations = w.registrations

IR(a) == Timer("idle_reminder", {a}, None)
MV(a) == Timer("movement", {a}, None)

\* The timers T without those of the given types that agent a has.
Without(T, a, types) == {x \in T : ~(a \in x.agent_ids /\ x.type \in types)}

\* The element CHOOSE picks from a set that has one is in the set.
LEMMA ChooseElement ==
  ASSUME NEW S, S # {}
  PROVE  (CHOOSE x \in S : TRUE) \in S
OBVIOUS

\* A store is replaced and the others are as they were.
LEMMA AgentsLemma ==
  ASSUME NEW w \in Worlds, NEW A \in [Agents -> AgentRecord]
  PROVE  Updates([w EXCEPT !.agents = A], w, A, w.timers)
BY DEF Worlds, Updates

\* cancel and create replace the timers and nothing else.
LEMMA TimersLemma ==
  ASSUME NEW w \in Worlds, NEW T \in SUBSET TimerRecord
  PROVE  Updates([w EXCEPT !.timers = T], w, w.agents, T)
BY DEF Worlds, Updates

\* The stores of a world hold what their types declare.
LEMMA WorldsFields ==
  ASSUME NEW w \in Worlds
  PROVE  /\ w.agents \in [Agents -> AgentRecord]
         /\ w.purses \in [Agents -> Purse]
         /\ w.transfers \in [Transfers -> OfferRecord]
         /\ w.announcements \in [Announcements -> SUBSET Agents]
         /\ w.timers \in SUBSET TimerRecord
         /\ w.registrations \in [Agents -> Purse \cup {None}]
BY DEF Worlds

\* A setter changes one field of one agent and nothing else.
LEMMA SetStateLemma ==
  ASSUME NEW w \in Worlds, NEW a \in Agents, NEW s \in AgentStates
  PROVE  Updates(setState(w, a, s), w, [w.agents EXCEPT ![a].state = s], w.timers)
<1>1. [w.agents EXCEPT ![a].state = s] \in [Agents -> AgentRecord]
  BY WorldsFields DEF AgentRecord
<1>2. setState(w, a, s) = [w EXCEPT !.agents = [w.agents EXCEPT ![a].state = s]]
  BY DEF setState, Worlds
<1> QED
  BY <1>1, <1>2, AgentsLemma

\* clearExcludedInfoCommands changes one field of one agent.
LEMMA ClearExcludedLemma ==
  ASSUME NEW w \in Worlds, NEW a \in Agents
  PROVE  Updates(clearExcludedInfoCommands(w, a), w,
                 [w.agents EXCEPT ![a].excluded = {}], w.timers)
<1>a. w.agents[a] \in AgentRecord
  BY WorldsFields
<1>b. [w.agents[a] EXCEPT !.excluded = {}] \in AgentRecord
  BY <1>a DEF AgentRecord
<1>1. [w.agents EXCEPT ![a].excluded = {}] \in [Agents -> AgentRecord]
  BY <1>b, WorldsFields
<1>2. clearExcludedInfoCommands(w, a)
        = [w EXCEPT !.agents = [w.agents EXCEPT ![a].excluded = {}]]
  BY DEF clearExcludedInfoCommands, Worlds
<1> QED
  BY <1>1, <1>2, AgentsLemma

\* A timer built from an agent set and a subject has the declared type.
LEMMA TimerType ==
  ASSUME NEW type \in TimerTypes, NEW ids \in SUBSET Agents,
         NEW about \in Transfers \cup Actions \cup {None}
  PROVE  /\ Timer(type, ids, about) \in TimerRecord
         /\ Timer(type, ids, about).type = type
         /\ Timer(type, ids, about).agent_ids = ids
         /\ Timer(type, ids, about).about = about
         /\ Timer(type, ids, about).twin = FALSE
BY DEF Timer, TimerRecord, TimerTypes

\* A timer that is not pending yet is created as it is.
LEMMA CreateLemma ==
  ASSUME NEW w \in Worlds, NEW timer \in TimerRecord,
         timer.twin = FALSE, timer \notin w.timers
  PROVE  Updates(create(w, timer), w, w.agents, w.timers \cup {timer})
<1>1. [timer EXCEPT !.twin = timer \in w.timers] = timer
  BY DEF TimerRecord
<1>2. w.timers \cup {timer} \in SUBSET TimerRecord
  BY DEF Worlds
<1>3. create(w, timer) = [w EXCEPT !.timers = w.timers \cup {timer}]
  BY <1>1 DEF create, Worlds
<1> QED
  BY <1>2, <1>3, TimersLemma

\* cancelByType takes away the timers of one type that the agent has.
LEMMA CancelByTypeLemma ==
  ASSUME NEW w \in Worlds, NEW a \in Agents, NEW type \in TimerTypes
  PROVE  Updates(cancelByType(w, a, type), w, w.agents,
                 Without(w.timers, a, {type}))
<1>1. Without(w.timers, a, {type}) \in SUBSET TimerRecord
  BY WorldsFields DEF Without
<1>2. cancelByType(w, a, type)
        = [w EXCEPT !.timers = Without(w.timers, a, {type})]
  BY DEF cancelByType, Worlds, Without
<1> QED
  BY <1>1, <1>2, TimersLemma

\* The idle reminder of an agent is a timer filed under that agent alone.
LEMMA IdleReminderType ==
  ASSUME NEW a \in Agents
  PROVE  /\ IR(a) \in TimerRecord /\ IR(a).type = "idle_reminder"
         /\ IR(a).agent_ids = {a} /\ IR(a).twin = FALSE
         /\ MV(a) \in TimerRecord /\ MV(a).type = "movement"
         /\ MV(a).agent_ids = {a} /\ MV(a).twin = FALSE
BY DEF IR, MV, Timer, TimerRecord

\* startIdleReminder leaves the agent exactly one reminder, never a twin.
LEMMA StartIdleReminderLemma ==
  ASSUME NEW w \in Worlds, NEW a \in Agents
  PROVE  Updates(startIdleReminder(w, a), w, w.agents,
                 Without(w.timers, a, {"idle_reminder"}) \cup {IR(a)})
<1> DEFINE v == cancelByType(w, a, "idle_reminder")
<1>1. Updates(v, w, w.agents, Without(w.timers, a, {"idle_reminder"}))
  BY CancelByTypeLemma DEF TimerTypes
<1>2. startIdleReminder(w, a) = create(v, IR(a))
  BY DEF startIdleReminder, cancelIdleReminder, IR
<1> HIDE DEF v
<1>3. IR(a) \notin v.timers
  BY <1>1, IdleReminderType DEF Without, Updates
<1>4. Updates(create(v, IR(a)), v, v.agents, v.timers \cup {IR(a)})
  BY <1>1, <1>3, CreateLemma, IdleReminderType DEF Updates
<1> QED
  BY <1>1, <1>2, <1>4 DEF Updates

\* Idle with exactly one, fresh reminder.
LEMMA BecomeIdleLemma ==
  ASSUME NEW w \in Worlds, NEW a \in Agents
  PROVE  Updates(becomeIdle(w, a), w, [w.agents EXCEPT ![a].state = "idle"],
                 Without(w.timers, a, {"idle_reminder"}) \cup {IR(a)})
<1> DEFINE v == setState(w, a, "idle")
<1>1. Updates(v, w, [w.agents EXCEPT ![a].state = "idle"], w.timers)
  BY SetStateLemma DEF AgentStates
<1>2. becomeIdle(w, a) = startIdleReminder(v, a)
  BY DEF becomeIdle
<1> HIDE DEF v
<1>3. Updates(startIdleReminder(v, a), v, v.agents,
              Without(v.timers, a, {"idle_reminder"}) \cup {IR(a)})
  BY <1>1, StartIdleReminderLemma DEF Updates
<1> QED
  BY <1>1, <1>2, <1>3 DEF Updates

\* An activity replaces the agent's idle reminder and any timer of its type.
LEMMA StartActivityLemma ==
  ASSUME NEW w \in Worlds, NEW a \in Agents, NEW s \in AgentStates,
         NEW type \in TimerTypes,
         NEW about \in Transfers \cup Actions \cup {None}
  PROVE  Updates(startActivity(w, a, s, type, about), w,
           [w.agents EXCEPT ![a].state = s, ![a].excluded = {}],
           Without(w.timers, a, {"idle_reminder", type})
             \cup {Timer(type, {a}, about)})
<1> DEFINE v1 == cancelByType(w, a, "idle_reminder")
           v2 == cancelByType(v1, a, type)
           v3 == setState(v2, a, s)
<1>0. startActivity(w, a, s, type, about)
        = clearExcludedInfoCommands(create(v3, Timer(type, {a}, about)), a)
  BY DEF startActivity, cancelIdleReminder
<1>1. Updates(v1, w, w.agents, Without(w.timers, a, {"idle_reminder"}))
  BY CancelByTypeLemma DEF TimerTypes
<1> HIDE DEF v1
<1>2. Updates(v2, v1, v1.agents, Without(v1.timers, a, {type}))
  BY <1>1, CancelByTypeLemma DEF Updates
<1>a. Without(v1.timers, a, {type}) = Without(w.timers, a, {"idle_reminder", type})
  BY <1>1 DEF Updates, Without
<1> HIDE DEF v2
<1>3. Updates(v3, v2, [v2.agents EXCEPT ![a].state = s], v2.timers)
  BY <1>2, SetStateLemma DEF Updates
<1> HIDE DEF v3
<1> DEFINE timer == Timer(type, {a}, about)
<1>s. {a} \in SUBSET Agents
  OBVIOUS
<1>t. /\ timer \in TimerRecord /\ timer.twin = FALSE
      /\ timer.type = type /\ timer.agent_ids = {a}
  BY <1>s DEF Timer, TimerRecord, TimerTypes
<1> HIDE DEF timer
<1>b. /\ v3 \in Worlds
      /\ v3.timers = Without(w.timers, a, {"idle_reminder", type})
  BY <1>1, <1>2, <1>3, <1>a DEF Updates
<1>c. timer \notin v3.timers
  BY <1>b, <1>t DEF Without
<1>4. Updates(create(v3, timer), v3, v3.agents, v3.timers \cup {timer})
  BY <1>b, <1>c, <1>t, CreateLemma
<1> DEFINE v4 == create(v3, timer)
<1> HIDE DEF v4
<1>5. Updates(clearExcludedInfoCommands(v4, a), v4,
              [v4.agents EXCEPT ![a].excluded = {}], v4.timers)
  BY <1>4, ClearExcludedLemma DEF Updates, v4
<1>6. v4.agents = [w.agents EXCEPT ![a].state = s]
  BY <1>1, <1>2, <1>3, <1>4 DEF Updates, v4
<1>7. [v4.agents EXCEPT ![a].excluded = {}]
        = [w.agents EXCEPT ![a].state = s, ![a].excluded = {}]
  BY <1>6, WorldsFields
<1>8. startActivity(w, a, s, type, about) = clearExcludedInfoCommands(v4, a)
  BY <1>0 DEF v4, timer, v3, v2, v1
<1>9. Updates(v4, w, v4.agents,
              Without(w.timers, a, {"idle_reminder", type}) \cup {timer})
  BY <1>1, <1>2, <1>3, <1>4, <1>b DEF Updates, v4
<1> QED
  BY <1>5, <1>7, <1>8, <1>9 DEF Updates, timer

\* Agent a has one activity timer in T at most.
OneActivity(T, a) ==
  \A x, y \in T : /\ a \in x.agent_ids /\ x.type \in ActivityTypes
                  /\ a \in y.agent_ids /\ y.type \in ActivityTypes
                  => x = y

\* v has the agents of w, or those with agent a idle instead of in_action.
IdleAtMost(v, w, a) ==
  /\ v.agents \in {w.agents, [w.agents EXCEPT ![a].state = "idle"]}
  /\ w.agents[a].state # "in_action" => v.agents = w.agents

\* The one timer of that type goes.
LEMMA CancelActiveLemma ==
  ASSUME NEW w \in Worlds, NEW a \in Agents, NEW type \in ActivityTypes,
         OneActivity(w.timers, a)
  PROVE  LET v == cancelActive(w, a, type)
         IN  /\ Updates(v, w, v.agents, Without(w.timers, a, {type}))
             /\ IdleAtMost(v, w, a)
<1> DEFINE found == TimersOf(w, a, {type})
           T == Without(w.timers, a, {type})
           v1 == [w EXCEPT !.timers = T]
<1>1. T \in SUBSET TimerRecord
  BY WorldsFields DEF Without
<1>2. Updates(v1, w, w.agents, T)
  BY <1>1, TimersLemma
<1>3. CASE found = {}
  <2>1. w.timers = T
    BY <1>3 DEF TimersOf, Without
  <2>2. cancelActive(w, a, type) = w
    BY <1>3 DEF cancelActive
  <2> QED
    BY <2>1, <2>2 DEF Updates, IdleAtMost
<1>4. CASE found # {}
  <2>1. PICK x : x = CHOOSE y \in found : TRUE
    OBVIOUS
  <2>2. x \in found
    BY <1>4, <2>1, ChooseElement
  <2>3. w.timers \ {x} = T
    BY <2>2 DEF TimersOf, Without, OneActivity
  <2>4. cancel(w, x) = v1
    BY <2>3 DEF cancel, Worlds
  <2>5. cancelActive(w, a, type)
          = IF w.agents[a].state = "in_action" THEN setState(v1, a, "idle") ELSE v1
    BY <1>4, <2>1, <2>4 DEF cancelActive
  <2>6. Updates(setState(v1, a, "idle"), v1,
                [v1.agents EXCEPT ![a].state = "idle"], v1.timers)
    BY <1>2, SetStateLemma DEF Updates, AgentStates
  <2> HIDE DEF v1, T
  <2> QED
    BY <1>2, <2>5, <2>6 DEF Updates, IdleAtMost, T
<1> QED
  BY <1>3, <1>4

\* An agent with one activity timer at most still has that after a cancel.
LEMMA WithoutOneActivity ==
  ASSUME NEW T, NEW a, NEW b, NEW types, OneActivity(T, a)
  PROVE  OneActivity(Without(T, b, types), a)
BY DEF OneActivity, Without

\* In whatever order the three kinds are cancelled, all of them go.
LEMMA CancelThreeLemma ==
  ASSUME NEW w \in Worlds, NEW a \in Agents, OneActivity(w.timers, a),
         NEW p \in ActivityTypes, NEW q \in ActivityTypes, NEW r \in ActivityTypes,
         ActivityTypes = {p, q, r}
  PROVE  LET v == cancelActive(cancelActive(cancelActive(w, a, p), a, q), a, r)
         IN  /\ Updates(v, w, v.agents, Without(w.timers, a, ActivityTypes))
             /\ IdleAtMost(v, w, a)
<1> DEFINE v1 == cancelActive(w, a, p)
           v2 == cancelActive(v1, a, q)
           v3 == cancelActive(v2, a, r)
<1>1. Updates(v1, w, v1.agents, Without(w.timers, a, {p})) /\ IdleAtMost(v1, w, a)
  BY CancelActiveLemma
<1> HIDE DEF v1
<1>2. v1 \in Worlds /\ OneActivity(v1.timers, a)
  BY <1>1, WithoutOneActivity DEF Updates
<1>3. Updates(v2, v1, v2.agents, Without(v1.timers, a, {q})) /\ IdleAtMost(v2, v1, a)
  BY <1>2, CancelActiveLemma
<1> HIDE DEF v2
<1>4. v2 \in Worlds /\ OneActivity(v2.timers, a)
  BY <1>2, <1>3, WithoutOneActivity DEF Updates
<1>5. Updates(v3, v2, v3.agents, Without(v2.timers, a, {r})) /\ IdleAtMost(v3, v2, a)
  BY <1>4, CancelActiveLemma
<1> HIDE DEF v3
<1>6. v3.timers = Without(w.timers, a, ActivityTypes)
  BY <1>1, <1>3, <1>5 DEF Updates, Without
<1>7. [[w.agents EXCEPT ![a].state = "idle"] EXCEPT ![a].state = "idle"]
        = [w.agents EXCEPT ![a].state = "idle"]
  BY WorldsFields
<1>8. IdleAtMost(v3, w, a)
  BY <1>1, <1>3, <1>5, <1>7 DEF IdleAtMost
<1>9. Updates(v3, w, v3.agents, Without(w.timers, a, ActivityTypes))
  BY <1>1, <1>3, <1>5, <1>6 DEF Updates
<1> QED
  BY <1>8, <1>9 DEF v3, v2, v1

(***************************************************************************)
(* The roles of an offer.                                                  *)
(***************************************************************************)

\* Both agents are idle, released, each with a fresh reminder.
Released(A, from, to) ==
  [A EXCEPT ![from] = [@ EXCEPT !.active_transfer_id = None, !.state = "idle"],
            ![to] = [@ EXCEPT !.pending_transfer_id = None, !.state = "idle"]]

Reminded(T, a, b) ==
  {x \in T : ~((a \in x.agent_ids \/ b \in x.agent_ids) /\ x.type = "idle_reminder")}
    \cup {IR(a), IR(b)}

\* releaseSender frees a sender that is in its transfer, and reminds it.
LEMMA ReleaseSenderLemma ==
  ASSUME NEW w \in Worlds, NEW a \in Agents, NEW t \in Transfers,
         w.agents[a].active_transfer_id = t, w.agents[a].state = "in_transfer"
  PROVE  Updates(releaseSender(w, t, a), w,
           [w.agents EXCEPT ![a] =
              [@ EXCEPT !.active_transfer_id = None, !.state = "idle"]],
           Without(w.timers, a, {"idle_reminder"}) \cup {IR(a)})
<1> DEFINE r == [w.agents[a] EXCEPT !.active_transfer_id = None]
           v == [w EXCEPT !.agents = [w.agents EXCEPT ![a] = r]]
<1>1. w.agents[a] \in AgentRecord /\ w.agents \in [Agents -> AgentRecord]
  BY WorldsFields
<1>2. r \in AgentRecord /\ r.state = "in_transfer"
  BY <1>1 DEF AgentRecord
<1>3. v = [w EXCEPT !.agents[a].active_transfer_id = None]
  BY DEF Worlds
<1>4. releaseSender(w, t, a) = leaveTransfer(v, a)
  BY <1>3 DEF releaseSender
<1>5. Updates(v, w, [w.agents EXCEPT ![a] = r], w.timers)
  BY <1>1, <1>2, AgentsLemma
<1> HIDE DEF v
<1>6. leaveTransfer(v, a) = becomeIdle(v, a)
  BY <1>1, <1>2, <1>5 DEF leaveTransfer, Updates
<1>7. Updates(becomeIdle(v, a), v, [v.agents EXCEPT ![a].state = "idle"],
              Without(v.timers, a, {"idle_reminder"}) \cup {IR(a)})
  BY <1>5, BecomeIdleLemma DEF Updates
<1>8. [[w.agents EXCEPT ![a] = r] EXCEPT ![a].state = "idle"]
        = [w.agents EXCEPT ![a] =
             [@ EXCEPT !.active_transfer_id = None, !.state = "idle"]]
  BY <1>1
<1> QED
  BY <1>4, <1>5, <1>6, <1>7, <1>8 DEF Updates

\* releaseReceiver frees a receiver that is in its transfer, and reminds it.
LEMMA ReleaseReceiverLemma ==
  ASSUME NEW w \in Worlds, NEW a \in Agents, NEW t \in Transfers,
         w.agents[a].pending_transfer_id = t, w.agents[a].state = "in_transfer"
  PROVE  Updates(releaseReceiver(w, t, a), w,
           [w.agents EXCEPT ![a] =
              [@ EXCEPT !.pending_transfer_id = None, !.state = "idle"]],
           Without(w.timers, a, {"idle_reminder"}) \cup {IR(a)})
<1> DEFINE r == [w.agents[a] EXCEPT !.pending_transfer_id = None]
           v == [w EXCEPT !.agents = [w.agents EXCEPT ![a] = r]]
<1>1. w.agents[a] \in AgentRecord /\ w.agents \in [Agents -> AgentRecord]
  BY WorldsFields
<1>2. r \in AgentRecord /\ r.state = "in_transfer"
  BY <1>1 DEF AgentRecord
<1>3. v = [w EXCEPT !.agents[a].pending_transfer_id = None]
  BY DEF Worlds
<1>4. releaseReceiver(w, t, a) = leaveTransfer(v, a)
  BY <1>3 DEF releaseReceiver
<1>5. Updates(v, w, [w.agents EXCEPT ![a] = r], w.timers)
  BY <1>1, <1>2, AgentsLemma
<1> HIDE DEF v
<1>6. leaveTransfer(v, a) = becomeIdle(v, a)
  BY <1>1, <1>2, <1>5 DEF leaveTransfer, Updates
<1>7. Updates(becomeIdle(v, a), v, [v.agents EXCEPT ![a].state = "idle"],
              Without(v.timers, a, {"idle_reminder"}) \cup {IR(a)})
  BY <1>5, BecomeIdleLemma DEF Updates
<1>8. [[w.agents EXCEPT ![a] = r] EXCEPT ![a].state = "idle"]
        = [w.agents EXCEPT ![a] =
             [@ EXCEPT !.pending_transfer_id = None, !.state = "idle"]]
  BY <1>1
<1> QED
  BY <1>4, <1>5, <1>6, <1>7, <1>8 DEF Updates

\* clearTransferState frees both agents of an offer, and reminds both.
LEMMA ClearTransferStateLemma ==
  ASSUME NEW w \in Worlds, NEW t \in Transfers, NEW offer \in OfferRecord,
         NEW from \in Agents, NEW to \in Agents, from # to,
         offer.from_agent_id = from, offer.to_agent_id = to,
         w.agents[from].active_transfer_id = t,
         w.agents[to].pending_transfer_id = t,
         w.agents[from].state = "in_transfer", w.agents[to].state = "in_transfer"
  PROVE  Updates(clearTransferState(w, t, offer), w,
                 Released(w.agents, from, to), Reminded(w.timers, from, to))
<1> DEFINE v == releaseSender(w, t, from)
           A == [w.agents EXCEPT ![from] =
                   [@ EXCEPT !.active_transfer_id = None, !.state = "idle"]]
           T == Without(w.timers, from, {"idle_reminder"}) \cup {IR(from)}
<1>1. Updates(v, w, A, T)
  BY ReleaseSenderLemma
<1>2. clearTransferState(w, t, offer) = releaseReceiver(v, t, to)
  BY DEF clearTransferState
<1> HIDE DEF v
<1>3. v \in Worlds /\ v.agents[to] = w.agents[to]
  BY <1>1, WorldsFields DEF Updates
<1>4. Updates(releaseReceiver(v, t, to), v,
        [v.agents EXCEPT ![to] =
           [@ EXCEPT !.pending_transfer_id = None, !.state = "idle"]],
        Without(v.timers, to, {"idle_reminder"}) \cup {IR(to)})
  BY <1>3, ReleaseReceiverLemma
<1> DEFINE r1 == [w.agents[from] EXCEPT !.active_transfer_id = None, !.state = "idle"]
           r2 == [w.agents[to] EXCEPT !.pending_transfer_id = None, !.state = "idle"]
<1>a. A = [w.agents EXCEPT ![from] = r1]
  BY WorldsFields
<1>b. [v.agents EXCEPT ![to] =
         [@ EXCEPT !.pending_transfer_id = None, !.state = "idle"]]
        = [v.agents EXCEPT ![to] = r2]
  BY <1>3
<1>c. Released(w.agents, from, to) = [w.agents EXCEPT ![from] = r1, ![to] = r2]
  BY WorldsFields DEF Released
<1> HIDE DEF r1, r2
<1>5. [v.agents EXCEPT ![to] =
         [@ EXCEPT !.pending_transfer_id = None, !.state = "idle"]]
        = Released(w.agents, from, to)
  BY <1>1, <1>a, <1>b, <1>c, WorldsFields DEF Updates
<1>d. v.timers = T
  BY <1>1 DEF Updates
<1>e. from \notin IR(to).agent_ids /\ to \notin IR(from).agent_ids
  BY DEF IR, Timer
<1>6. Without(v.timers, to, {"idle_reminder"}) \cup {IR(to)}
        = Reminded(w.timers, from, to)
  BY <1>d, <1>e DEF Without, Reminded
<1> QED
  BY <1>1, <1>2, <1>4, <1>5, <1>6 DEF Updates


(***************************************************************************)
(* The inductive invariant, on a world.  Its transfer timer may be missing *)
(* for the offer skip, whose timer is the one that fires.                  *)
(***************************************************************************)
Held(w, t, skip) ==
  LET offer == w.transfers[t]
      from  == offer.from_agent_id
      to    == offer.to_agent_id
  IN  /\ from \in Agents /\ to \in Agents /\ from # to
      /\ w.agents[from].active_transfer_id = t
      /\ w.agents[to].pending_transfer_id = t
      /\ t # skip => TransferTimer(t, offer) \in w.timers

Backed(w, a) ==
  LET active  == w.agents[a].active_transfer_id
      pending == w.agents[a].pending_transfer_id
  IN  /\ active # None => Live(w, active) /\ w.transfers[active].from_agent_id = a
      /\ pending # None => Live(w, pending) /\ w.transfers[pending].to_agent_id = a
      /\ active = None \/ pending = None
      /\ w.agents[a].state = "in_transfer" <=> isInTransfer(w, a)

Roles(w, skip) ==
  /\ \A t \in Transfers : Live(w, t) => Held(w, t, skip)
  /\ \A a \in Agents : Backed(w, a)

\* A timer is one of its agent's state, or of an open offer.
Timed(w, x) ==
  /\ x.type = "action" => x.about \in Actions
  /\ x.type = "transfer" =>
       /\ x.about \in Transfers /\ Live(w, x.about)
       /\ x = TransferTimer(x.about, w.transfers[x.about])
  /\ \A a \in x.agent_ids :
       /\ x.type = "idle_reminder" => x = IR(a) /\ w.agents[a].state = "idle"
       /\ x.type = "movement" => x = MV(a) /\ w.agents[a].state = "moving"
       /\ x.type \in ActivityTypes =>
            x.agent_ids = {a} /\ w.agents[a].state = "in_action"

Busy(w, a) ==
  /\ OneActivity(w.timers, a)
  /\ w.agents[a].state = "moving" => MV(a) \in w.timers
  /\ w.agents[a].state = "in_action" =>
       \E x \in w.timers : a \in x.agent_ids /\ x.type \in ActivityTypes

Timing(w) ==
  /\ \A x \in w.timers : Timed(w, x)
  /\ \A a \in Agents : Busy(w, a)

Waiting(w) ==
  \A a \in Agents :
    /\ \A n \in Announcements :
         n \in w.agents[a].pending_announcements <=> a \in w.announcements[n]
    /\ w.agents[a].pending_announcements # {} => w.agents[a].state = "moving"
    /\ w.agents[a].announced => w.agents[a].state # "moving"

Control(w, skip) == w \in Worlds /\ Roles(w, skip) /\ Timing(w) /\ Waiting(w)

\* The registration of a logged-in agent exists and holds what it owns.
Saved(w) ==
  \A a \in Agents : LoggedIn(w, a) =>
    /\ Registered(w, a)
    /\ "activity" \notin FailingWrites => w.registrations[a] = w.purses[a]

Good(w) == Control(w, None) /\ Saved(w)

IInv ==
  /\ Good(world)
  /\ loggingIn \subseteq Agents
  /\ \A a \in loggingIn : Registered(world, a) /\ ~LoggedIn(world, a)

(***************************************************************************)
(* Ending an offer.                                                        *)
(***************************************************************************)

\* While the timer of an open offer fires, its agents have their roles.
LEMMA LiveAgents ==
  ASSUME NEW w, NEW t \in Transfers, Control(w, t), Live(w, t),
         NEW from, from = w.transfers[t].from_agent_id,
         NEW to, to = w.transfers[t].to_agent_id
  PROVE  /\ from \in Agents /\ to \in Agents /\ from # to
         /\ w.agents[from].active_transfer_id = t
         /\ w.agents[to].pending_transfer_id = t
         /\ w.agents[from].pending_transfer_id = None
         /\ w.agents[to].active_transfer_id = None
         /\ w.agents[from].state = "in_transfer"
         /\ w.agents[to].state = "in_transfer"
<1>1. Held(w, t, t)
  BY DEF Control, Roles
<1>2. t # None
  BY WorldAssumption
<1>3. \A a \in Agents : Backed(w, a)
  BY DEF Control, Roles
<1> QED
  BY <1>1, <1>2, <1>3 DEF Held, Backed, isInTransfer

\* The two agents of an open offer, and the roles they have.
LEMMA LiveFacts ==
  ASSUME NEW w, NEW skip, Control(w, skip), NEW t \in Transfers, Live(w, t)
  PROVE  LET offer == w.transfers[t]
             from  == offer.from_agent_id
             to    == offer.to_agent_id
         IN  /\ offer \in OfferRecord
             /\ from \in Agents /\ to \in Agents /\ from # to
             /\ w.agents[from].active_transfer_id = t
             /\ w.agents[to].pending_transfer_id = t
             /\ w.agents[from].pending_transfer_id = None
             /\ w.agents[to].active_transfer_id = None
             /\ w.agents[from].state = "in_transfer"
             /\ w.agents[to].state = "in_transfer"
<1>1. Held(w, t, skip)
  BY DEF Control, Roles
<1>2. t # None
  BY WorldAssumption
<1>3. \A a \in Agents : Backed(w, a)
  BY DEF Control, Roles
<1>4. w.transfers[t] \in OfferRecord
  BY WorldsFields DEF Control
<1> QED
  BY <1>1, <1>2, <1>3, <1>4 DEF Held, Backed, isInTransfer

\* The reminder of an idle agent is in order.
LEMMA ReminderTimed ==
  ASSUME NEW w, NEW a \in Agents, w.agents[a].state = "idle"
  PROVE  Timed(w, IR(a))
<1>1. /\ IR(a).type = "idle_reminder" /\ IR(a).agent_ids = {a}
  BY IdleReminderType
<1> QED
  BY <1>1 DEF Timed, ActivityTypes

\* The two agents released and the offer no longer open: all is in order.
LEMMA EndOffer ==
  ASSUME NEW w, NEW t \in Transfers, Control(w, t), Live(w, t),
         NEW v \in Worlds, NEW o \in OfferRecord, o.status # "open",
         v.agents = Released(w.agents, w.transfers[t].from_agent_id,
                             w.transfers[t].to_agent_id),
         v.timers = Reminded({x \in w.timers : ~(x.type = "transfer" /\ x.about = t)},
                             w.transfers[t].from_agent_id,
                             w.transfers[t].to_agent_id),
         v.transfers = [w.transfers EXCEPT ![t] = o],
         v.announcements = w.announcements
  PROVE  Control(v, None)
<1> DEFINE from == w.transfers[t].from_agent_id
           to == w.transfers[t].to_agent_id
<1>1. /\ from \in Agents /\ to \in Agents /\ from # to
      /\ w.agents[from].active_transfer_id = t
      /\ w.agents[to].pending_transfer_id = t
      /\ w.agents[from].pending_transfer_id = None
      /\ w.agents[to].active_transfer_id = None
      /\ w.agents[from].state = "in_transfer"
      /\ w.agents[to].state = "in_transfer"
  BY LiveAgents
<1>2. /\ w \in Worlds
      /\ w.agents \in [Agents -> AgentRecord]
      /\ w.transfers \in [Transfers -> OfferRecord]
  BY WorldsFields DEF Control
<1> HIDE DEF from, to
<1>3. /\ \A a \in Agents : a # from /\ a # to => v.agents[a] = w.agents[a]
      /\ v.agents[from] = [w.agents[from] EXCEPT !.active_transfer_id = None, !.state = "idle"]
      /\ v.agents[to] = [w.agents[to] EXCEPT !.pending_transfer_id = None, !.state = "idle"]
  BY <1>1, <1>2 DEF Released, from, to
<1>4. /\ v.agents[from].active_transfer_id = None
      /\ v.agents[from].pending_transfer_id = None
      /\ v.agents[to].active_transfer_id = None
      /\ v.agents[to].pending_transfer_id = None
      /\ v.agents[from].state = "idle" /\ v.agents[to].state = "idle"
      /\ v.agents[from].announced = w.agents[from].announced
      /\ v.agents[to].announced = w.agents[to].announced
      /\ v.agents[from].pending_announcements = w.agents[from].pending_announcements
      /\ v.agents[to].pending_announcements = w.agents[to].pending_announcements
  BY <1>1, <1>2, <1>3 DEF AgentRecord
<1>5. /\ ~Live(v, t)
      /\ \A u \in Transfers : u # t => v.transfers[u] = w.transfers[u]
  BY <1>2 DEF Live
<1>6. \A x : x \in v.timers <=>
         \/ x = IR(from) \/ x = IR(to)
         \/ /\ x \in w.timers /\ ~(x.type = "transfer" /\ x.about = t)
            /\ ~((from \in x.agent_ids \/ to \in x.agent_ids) /\ x.type = "idle_reminder")
  BY DEF Reminded, from, to
<1>7. Roles(v, None)
  <2>1. ASSUME NEW u \in Transfers, Live(v, u)
        PROVE  Held(v, u, None)
    <3>1. u # t /\ Live(w, u) /\ v.transfers[u] = w.transfers[u]
      BY <1>5, <2>1 DEF Live
    <3>2. Held(w, u, t)
      BY <3>1 DEF Control, Roles
    <3>3. TransferTimer(u, v.transfers[u]) \in v.timers
      BY <1>6, <3>1, <3>2 DEF Held, TransferTimer, Timer
    <3>4. v.transfers[u].from_agent_id \notin {from, to}
      BY <1>1, <3>1, <3>2, WorldAssumption DEF Held
    <3>5. v.transfers[u].to_agent_id \notin {from, to}
      BY <1>1, <3>1, <3>2, WorldAssumption DEF Held
    <3> QED
      BY <1>3, <3>1, <3>2, <3>3, <3>4, <3>5, ZenonT(30) DEF Held
  <2>2. ASSUME NEW a \in Agents
        PROVE  Backed(v, a)
    <3>1. CASE a \in {from, to}
      BY <1>4, <3>1 DEF Backed, isInTransfer
    <3>2. CASE a \notin {from, to}
      <4>1. Backed(w, a) /\ v.agents[a] = w.agents[a]
        BY <1>3, <3>2 DEF Control, Roles
      <4>2. w.agents[a].active_transfer_id # t /\ w.agents[a].pending_transfer_id # t
        BY <3>2, <4>1, WorldAssumption DEF Backed, from, to
      <4>3. w.agents[a] \in AgentRecord
        BY <1>2
      <4>4. \A u \in Transfers \ {t} :
              (Live(v, u) <=> Live(w, u)) /\ v.transfers[u] = w.transfers[u]
        BY <1>5 DEF Live
      <4>5. /\ w.agents[a].active_transfer_id \in (Transfers \ {t}) \cup {None}
            /\ w.agents[a].pending_transfer_id \in (Transfers \ {t}) \cup {None}
        BY <4>2, <4>3 DEF AgentRecord
      <4>6. v.agents[a] = w.agents[a]
        BY <4>1
      <4>7. /\ v.agents[a].active_transfer_id # None =>
                  /\ Live(v, v.agents[a].active_transfer_id)
                  /\ v.transfers[v.agents[a].active_transfer_id].from_agent_id = a
            /\ v.agents[a].pending_transfer_id # None =>
                  /\ Live(v, v.agents[a].pending_transfer_id)
                  /\ v.transfers[v.agents[a].pending_transfer_id].to_agent_id = a
        BY <4>1, <4>4, <4>5, <4>6 DEF Backed
      <4> QED
        BY <4>1, <4>6, <4>7 DEF Backed, isInTransfer
    <3> QED
      BY <3>1, <3>2
  <2> QED
    BY <2>1, <2>2 DEF Roles
<1>8. Timing(v)
  <2>1. ASSUME NEW x \in v.timers
        PROVE  Timed(v, x)
    <3>1. CASE x = IR(from) \/ x = IR(to)
      <4> QED
        BY <1>1, <1>4, <3>1, ReminderTimed
    <3>2. CASE x \notin {IR(from), IR(to)}
      <4>1. /\ Timed(w, x) /\ ~(x.type = "transfer" /\ x.about = t)
            /\ ~((from \in x.agent_ids \/ to \in x.agent_ids) /\ x.type = "idle_reminder")
            /\ x.agent_ids \subseteq Agents
        BY <1>2, <1>6, <3>2, WorldsFields DEF Control, Timing, TimerRecord
      <4>2. \A a \in x.agent_ids : a \in {from, to} => w.agents[a].state = "in_transfer"
        BY <1>1
      <4>3. \A a \in x.agent_ids : a \in {from, to} =>
              x.type \notin {"idle_reminder", "movement"} \cup ActivityTypes
        BY <4>1, <4>2 DEF Timed
      <4>4. \A a \in x.agent_ids : a \notin {from, to} => v.agents[a] = w.agents[a]
        BY <1>3, <4>1
      <4>5. x.type = "transfer" =>
              Live(v, x.about) /\ v.transfers[x.about] = w.transfers[x.about]
        BY <1>5, <4>1 DEF Timed, Live
      <4> QED
        BY <4>1, <4>3, <4>4, <4>5 DEF Timed
    <3> QED
      BY <3>1, <3>2
  <2>2. ASSUME NEW a \in Agents
        PROVE  Busy(v, a)
    <3>1. Busy(w, a)
      BY DEF Control, Timing
    <3>a. \A x \in v.timers : x.type \in ActivityTypes => x \in w.timers
      BY <1>1, <1>6, IdleReminderType DEF ActivityTypes
    <3>2. OneActivity(v.timers, a)
      BY <3>1, <3>a DEF Busy, OneActivity
    <3>3. CASE a \in {from, to}
      BY <1>4, <3>2, <3>3 DEF Busy
    <3>4. CASE a \notin {from, to}
      BY <1>3, <1>6, <3>1, <3>2, <3>4, IdleReminderType DEF Busy, ActivityTypes
    <3> QED
      BY <3>3, <3>4
  <2> QED
    BY <2>1, <2>2 DEF Timing
<1>9. Waiting(v)
  <2>1. ASSUME NEW a \in Agents
        PROVE  /\ v.agents[a].pending_announcements
                    = w.agents[a].pending_announcements
               /\ v.agents[a].announced = w.agents[a].announced
               /\ \/ v.agents[a].state = w.agents[a].state
                  \/ /\ v.agents[a].state = "idle"
                     /\ w.agents[a].state = "in_transfer"
    BY <1>1, <1>3, <1>4
  <2> QED
    BY <2>1 DEF Control, Waiting
<1> QED
  BY <1>7, <1>8, <1>9 DEF Control

(***************************************************************************)
(* Steps that leave the offers alone.                                      *)
(***************************************************************************)

\* States, roles, offers and timers unchanged: so are their relations.
LEMMA Cosmetic ==
  ASSUME NEW w, NEW skip, Control(w, skip), NEW v \in Worlds,
         v.transfers = w.transfers, v.timers = w.timers, Waiting(v),
         \A a \in Agents :
           /\ v.agents[a].state = w.agents[a].state
           /\ v.agents[a].active_transfer_id = w.agents[a].active_transfer_id
           /\ v.agents[a].pending_transfer_id = w.agents[a].pending_transfer_id
  PROVE  Control(v, skip)
<1>1. \A t \in Transfers : Live(v, t) => Held(v, t, skip)
  BY DEF Control, Roles, Held, Live
<1>2. \A a \in Agents : Backed(v, a)
  BY DEF Control, Roles, Backed, isInTransfer, Live
<1>3. \A x \in v.timers : Timed(v, x)
  <2> SUFFICES ASSUME NEW x \in v.timers PROVE Timed(v, x)
    OBVIOUS
  <2>1. Timed(w, x) /\ x.agent_ids \subseteq Agents
    BY WorldsFields DEF Control, Timing, TimerRecord
  <2> QED
    BY <2>1 DEF Timed, Live
<1>4. \A a \in Agents : Busy(v, a)
  BY DEF Control, Timing, Busy
<1> QED
  BY <1>1, <1>2, <1>3, <1>4 DEF Control, Roles, Timing

\* The timers of an agent out of any transfer are those of its state.
LEMMA OwnTimers ==
  ASSUME NEW w, NEW skip, Control(w, skip), NEW a \in Agents,
         w.agents[a].state # "in_transfer",
         NEW x \in w.timers, a \in x.agent_ids
  PROVE  \/ w.agents[a].state = "idle" /\ x = IR(a)
         \/ w.agents[a].state = "moving" /\ x = MV(a)
         \/ /\ w.agents[a].state = "in_action"
            /\ x.type \in ActivityTypes /\ x.agent_ids = {a}
<1>1. Timed(w, x)
  BY DEF Control, Timing
<1>2. x \in TimerRecord
  BY WorldsFields DEF Control
<1>3. CASE x.type = "transfer"
  <2>1. /\ x.about \in Transfers /\ Live(w, x.about)
        /\ x.agent_ids = { w.transfers[x.about].from_agent_id,
                           w.transfers[x.about].to_agent_id }
    BY <1>1, <1>3 DEF Timed, TransferTimer, Timer
  <2>2. /\ w.agents[w.transfers[x.about].from_agent_id].state = "in_transfer"
        /\ w.agents[w.transfers[x.about].to_agent_id].state = "in_transfer"
    BY <2>1, LiveFacts
  <2> QED
    BY <2>1, <2>2
<1>4. CASE x.type # "transfer"
  <2>1. x.type \in ActivityTypes \cup {"idle_reminder", "movement"}
    BY <1>2, <1>4 DEF TimerRecord
  <2> QED
    BY <1>1, <2>1 DEF Timed
<1> QED
  BY <1>3, <1>4

\* The timers T that are not agent a's.
NotOwn(T, a) == {x \in T : a \notin x.agent_ids}

\* An agent out of any transfer changes its own state and its own timers.
LEMMA OwnStep ==
  ASSUME NEW w, Control(w, None), NEW a \in Agents,
         w.agents[a].state # "in_transfer",
         NEW v \in Worlds, NEW R,
         v.transfers = w.transfers,
         \A b \in Agents \ {a} : v.agents[b] = w.agents[b],
         v.agents[a].state # "in_transfer",
         v.agents[a].active_transfer_id = None,
         v.agents[a].pending_transfer_id = None,
         v.timers = NotOwn(w.timers, a) \cup R,
         \A x \in R : x.agent_ids = {a} /\ Timed(v, x),
         Busy(v, a), Waiting(v)
  PROVE  Control(v, None)
<1>1. ASSUME NEW t \in Transfers, Live(v, t)
      PROVE  Held(v, t, None)
  <2>1. Live(w, t)
    BY <1>1 DEF Live
  <2>2. Held(w, t, None)
    BY <2>1 DEF Control, Roles
  <2>3. /\ w.transfers[t].from_agent_id # a /\ w.transfers[t].to_agent_id # a
    BY <2>1, LiveFacts
  <2>4. TransferTimer(t, w.transfers[t]) \in v.timers
    BY <2>2, <2>3, WorldAssumption DEF Held, NotOwn, TransferTimer, Timer
  <2> QED
    BY <2>2, <2>3, <2>4 DEF Held
<1>2. ASSUME NEW b \in Agents
      PROVE  Backed(v, b)
  <2>1. CASE b = a
    BY <2>1 DEF Backed, isInTransfer
  <2>2. CASE b # a
    <3>1. Backed(w, b) /\ v.agents[b] = w.agents[b]
      BY <2>2 DEF Control, Roles
    <3> QED
      BY <3>1 DEF Backed, isInTransfer, Live
  <2> QED
    BY <2>1, <2>2
<1>3. ASSUME NEW x \in v.timers
      PROVE  Timed(v, x)
  <2>1. CASE x \in w.timers /\ a \notin x.agent_ids
    <3>1. Timed(w, x) /\ x.agent_ids \subseteq Agents
      BY <2>1, WorldsFields DEF Control, Timing, TimerRecord
    <3>2. \A b \in x.agent_ids : v.agents[b] = w.agents[b]
      BY <2>1, <3>1
    <3> QED
      BY <3>1, <3>2 DEF Timed, Live
  <2> QED
    BY <2>1 DEF NotOwn
<1>4. ASSUME NEW b \in Agents, b # a
      PROVE  Busy(v, b)
  <2>1. Busy(w, b) /\ v.agents[b] = w.agents[b]
    BY <1>4 DEF Control, Timing
  <2>2. \A x : b \in x.agent_ids => (x \in v.timers => x \in w.timers)
    BY <1>4 DEF NotOwn
  <2>3. \A x \in w.timers : b \in x.agent_ids /\ x.type # "transfer" => x \in v.timers
    <3> SUFFICES ASSUME NEW x \in w.timers, b \in x.agent_ids,
                        x.type # "transfer", a \in x.agent_ids
                 PROVE  FALSE
      BY DEF NotOwn
    <3>0. x = IR(a) \/ x = MV(a) \/ x.agent_ids = {a}
      BY OwnTimers
    <3>a. IR(a).agent_ids = {a} /\ MV(a).agent_ids = {a}
      BY IdleReminderType
    <3>1. x.agent_ids = {a}
      BY <3>0, <3>a
    <3> QED
      BY <1>4, <3>1
  <2>4. MV(b).type = "movement" /\ MV(b).agent_ids = {b}
    BY IdleReminderType
  <2>5. OneActivity(v.timers, b)
    BY <2>1, <2>2 DEF Busy, OneActivity
  <2> QED
    BY <2>1, <2>3, <2>4, <2>5 DEF Busy, ActivityTypes
<1> QED
  BY <1>1, <1>2, <1>3, <1>4 DEF Control, Roles, Timing

(***************************************************************************)
(* The three ways an offer ends: refunded, refund failed, accepted.        *)
(***************************************************************************)
LEMMA CreditType ==
  ASSUME NEW p \in Purse, NEW q \in Purse
  PROVE  credit(p, q) \in Purse
<1>1. p.items \in Nat /\ q.items \in Nat /\ p.money \in Nat /\ q.money \in Nat
  BY DEF Purse
<1>2. fitting(p.items, q.items) \in Nat
  BY <1>1, WorldAssumption DEF fitting
<1> QED
  BY <1>1, <1>2 DEF credit, Purse

\* Offer t of w is over in v, and only the purse of a may have changed, with
\* its registration.
Ended(v, w, t, a) ==
  LET from == w.transfers[t].from_agent_id
      to   == w.transfers[t].to_agent_id
  IN  /\ v \in Worlds
      /\ v.agents = Released(w.agents, from, to)
      /\ v.timers = Reminded({x \in w.timers : ~(x.type = "transfer" /\ x.about = t)},
                             from, to)
      /\ v.announcements = w.announcements
      /\ \E o \in OfferRecord :
           o.status # "open" /\ v.transfers = [w.transfers EXCEPT ![t] = o]
      /\ \A b \in Agents \ {a} : /\ v.purses[b] = w.purses[b]
                                 /\ v.registrations[b] = w.registrations[b]
      /\ \/ v.registrations[a] = v.purses[a] /\ v.purses[a] \in Purse
         \/ v.purses[a] = w.purses[a] /\ v.registrations[a] = w.registrations[a]

\* Once an offer has ended all is in order again, registrations included.
LEMMA EndedGood ==
  ASSUME NEW w, NEW t \in Transfers, Control(w, t), Live(w, t), Saved(w),
         NEW a \in Agents, NEW v, Ended(v, w, t, a)
  PROVE  /\ Good(v)
         /\ \A b \in Agents : LoggedIn(v, b) <=> LoggedIn(w, b)
         /\ \A b \in Agents : Registered(w, b) => Registered(v, b)
<1>1. Control(v, None)
  BY EndOffer, SMTT(30) DEF Ended
<1>2. /\ w.agents[w.transfers[t].from_agent_id].state = "in_transfer"
      /\ w.agents[w.transfers[t].to_agent_id].state = "in_transfer"
      /\ w.transfers[t].from_agent_id \in Agents
      /\ w.transfers[t].to_agent_id \in Agents
      /\ w.transfers[t].from_agent_id # w.transfers[t].to_agent_id
  BY LiveFacts
<1>3. ASSUME NEW b \in Agents
      PROVE  LoggedIn(v, b) <=> LoggedIn(w, b)
  <2>1. LoggedIn(w, w.transfers[t].from_agent_id)
        /\ LoggedIn(w, w.transfers[t].to_agent_id)
    BY <1>2 DEF LoggedIn
  <2>2. w.agents \in [Agents -> AgentRecord] /\ w.agents[b] \in AgentRecord
    BY WorldsFields DEF Control
  <2>3. CASE b \notin {w.transfers[t].from_agent_id, w.transfers[t].to_agent_id}
    <3>1. v.agents[b] = w.agents[b]
      BY <1>2, <2>2, <2>3 DEF Ended, Released
    <3> QED
      BY <3>1 DEF LoggedIn
  <2>4. CASE b \in {w.transfers[t].from_agent_id, w.transfers[t].to_agent_id}
    <3> DEFINE r1 == [w.agents[b] EXCEPT !.active_transfer_id = None, !.state = "idle"]
               r2 == [w.agents[b] EXCEPT !.pending_transfer_id = None, !.state = "idle"]
    <3>0. r1.state = "idle" /\ r2.state = "idle"
      BY <2>2 DEF AgentRecord
    <3>b. ASSUME b = w.transfers[t].from_agent_id
          PROVE  v.agents[b].state = "idle"
      <4>1. v.agents[b] = r1
        BY <1>2, <2>2, <3>b DEF Ended, Released
      <4> HIDE DEF r1, r2
      <4> QED
        BY <3>0, <4>1
    <3>c. ASSUME b = w.transfers[t].to_agent_id
          PROVE  v.agents[b].state = "idle"
      <4>1. v.agents[b] = r2
        BY <1>2, <2>2, <3>c DEF Ended, Released
      <4> HIDE DEF r1, r2
      <4> QED
        BY <3>0, <4>1
    <3>1. v.agents[b].state = "idle"
      BY <2>4, <3>b, <3>c
    <3> QED
      BY <2>1, <2>4, <3>1 DEF LoggedIn
  <2> QED
    BY <2>3, <2>4
<1>4. ASSUME NEW b \in Agents, Registered(w, b)
      PROVE  Registered(v, b)
  <2>1. CASE b # a
    BY <1>4, <2>1 DEF Registered, Ended
  <2>2. CASE b = a
    BY <1>4, <2>2, WorldAssumption DEF Registered, Ended
  <2> QED
    BY <2>1, <2>2
<1>5. ASSUME NEW b \in Agents, LoggedIn(v, b), "activity" \notin FailingWrites
      PROVE  v.registrations[b] = v.purses[b]
  <2>1. w.registrations[b] = w.purses[b]
    BY <1>3, <1>5 DEF Saved
  <2> QED
    BY <2>1 DEF Ended
<1>6. Saved(v)
  BY <1>3, <1>4, <1>5 DEF Saved
<1> QED
  BY <1>1, <1>3, <1>4, <1>6 DEF Good

\* Both roles and the timer of the offer go, whatever the refund does.
LEMMA ReleaseBoth ==
  ASSUME NEW w, NEW t \in Transfers, Control(w, t), Live(w, t),
         NEW u \in Worlds, u.agents = w.agents, u.timers = w.timers
  PROVE  LET from == w.transfers[t].from_agent_id
             to   == w.transfers[t].to_agent_id
         IN  Updates(clearTransferState(cancelTransferTimer(u, t), t, w.transfers[t]),
               u, Released(w.agents, from, to),
               Reminded({x \in w.timers : ~(x.type = "transfer" /\ x.about = t)},
                        from, to))
<1> DEFINE from == w.transfers[t].from_agent_id
           to == w.transfers[t].to_agent_id
           T == {x \in w.timers : ~(x.type = "transfer" /\ x.about = t)}
           u1 == cancelTransferTimer(u, t)
<1>1. T \in SUBSET TimerRecord
  BY WorldsFields DEF Control
<1>2. u1 = [u EXCEPT !.timers = T]
  BY DEF cancelTransferTimer, Worlds
<1>3. Updates(u1, u, u.agents, T)
  BY <1>1, <1>2, TimersLemma
<1>4. /\ from \in Agents /\ to \in Agents /\ from # to
      /\ w.agents[from].active_transfer_id = t
      /\ w.agents[to].pending_transfer_id = t
      /\ w.agents[from].state = "in_transfer" /\ w.agents[to].state = "in_transfer"
      /\ w.transfers[t] \in OfferRecord
  BY LiveFacts
<1> HIDE DEF u1, T
<1>5. u1 \in Worlds /\ u1.agents = w.agents /\ u1.timers = T
  BY <1>3 DEF Updates
<1>6. Updates(clearTransferState(u1, t, w.transfers[t]), u1,
              Released(u1.agents, from, to), Reminded(u1.timers, from, to))
  BY <1>4, <1>5, ClearTransferStateLemma
<1> QED
  BY <1>3, <1>5, <1>6 DEF Updates, u1, T

\* Agent a of v owns p, in memory and on disk, and offer t is o.
Handed(v, w, a, p, t, o) ==
  /\ v.purses = [w.purses EXCEPT ![a] = p]
  /\ v.registrations = [w.registrations EXCEPT ![a] = p]
  /\ v.transfers = [w.transfers EXCEPT ![t] = o]

\* The sender of offer t has its escrow back, or the refund could not be written.
Refunded(v, w, t, faults) ==
  LET offer == w.transfers[t]
      from  == offer.from_agent_id
  IN  \/ /\ <<"refund", t>> \in faults
         /\ v.purses = w.purses /\ v.registrations = w.registrations
         /\ v.transfers = [w.transfers EXCEPT ![t] = [offer EXCEPT !.status = "refund_failed"]]
      \/ Handed(v, w, from, credit(w.purses[from], offer.escrow), t, NoOffer)

\* A refund, written or failed, ends the offer.
LEMMA FinalizeRefundLemma ==
  ASSUME NEW w, NEW t \in Transfers, NEW faults, Control(w, t), Live(w, t)
  PROVE  /\ Ended(finalizeRefund(w, t, faults), w, t, w.transfers[t].from_agent_id)
         /\ Refunded(finalizeRefund(w, t, faults), w, t, faults)
<1> DEFINE offer == w.transfers[t]
           from == offer.from_agent_id
           to == offer.to_agent_id
           A == Released(w.agents, from, to)
           T == Reminded({x \in w.timers : ~(x.type = "transfer" /\ x.about = t)},
                         from, to)
           r == clearTransferState(cancelTransferTimer(w, t), t, offer)
<1>1. w \in Worlds
  BY DEF Control
<1>2. Updates(r, w, A, T)
  BY <1>1, ReleaseBoth
<1>3. /\ offer \in OfferRecord /\ from \in Agents /\ to \in Agents
      /\ w.agents[from].state = "in_transfer"
  BY LiveFacts
<1>4. finalizeRefund(w, t, faults)
        = IF refundThrows(w, t, faults)
          THEN [r EXCEPT !.transfers[t].status = "refund_failed"]
          ELSE [refundEscrow(r, offer) EXCEPT !.transfers[t] = NoOffer]
  BY DEF finalizeRefund
<1> HIDE DEF r, A, T
<1>5. r \in Worlds /\ r.transfers = w.transfers /\ r.purses = w.purses
      /\ r.registrations = w.registrations /\ r.announcements = w.announcements
      /\ r.agents = A /\ r.timers = T
  BY <1>2 DEF Updates
<1>6. CASE refundThrows(w, t, faults)
  <2> DEFINE o == [offer EXCEPT !.status = "refund_failed"]
             v == [r EXCEPT !.transfers = [w.transfers EXCEPT ![t] = o]]
  <2>1. o \in OfferRecord /\ o.status = "refund_failed"
    BY <1>3 DEF OfferRecord
  <2>2. finalizeRefund(w, t, faults) = v
    BY <1>4, <1>5, <1>6 DEF Worlds
  <2>3. [w.transfers EXCEPT ![t] = o] \in [Transfers -> OfferRecord]
    BY <1>1, <2>1, WorldsFields
  <2>4. v \in Worlds
    BY <1>5, <2>3 DEF Worlds
  <2>5. /\ v.agents = A /\ v.timers = T /\ v.announcements = w.announcements
        /\ v.transfers = [w.transfers EXCEPT ![t] = o]
        /\ v.purses = w.purses /\ v.registrations = w.registrations
    BY <1>5 DEF Worlds
  <2>b. <<"refund", t>> \in faults
    BY <1>3, <1>6 DEF refundThrows, LoggedIn
  <2> HIDE DEF v
  <2>7. Refunded(v, w, t, faults)
    BY <2>5, <2>b DEF Refunded
  <2> HIDE DEF o
  <2>6. \E p \in OfferRecord :
          p.status # "open" /\ v.transfers = [w.transfers EXCEPT ![t] = p]
    BY <2>1, <2>5
  <2>8. Ended(v, w, t, from)
    BY <2>4, <2>5, <2>6 DEF Ended, A, T
  <2> QED
    BY <2>2, <2>7, <2>8
<1>7. CASE ~refundThrows(w, t, faults)
  <2> DEFINE p == credit(w.purses[from], offer.escrow)
             u == creditAgent(r, from, offer.escrow)
             v == [u EXCEPT !.transfers = [w.transfers EXCEPT ![t] = NoOffer]]
  <2>a. LoggedIn(r, from)
    <3> DEFINE r1 == [w.agents[from] EXCEPT !.active_transfer_id = None, !.state = "idle"]
               r2 == [w.agents[to] EXCEPT !.pending_transfer_id = None, !.state = "idle"]
    <3>0. w.agents[from] \in AgentRecord /\ w.agents[to] \in AgentRecord
      BY <1>1, <1>3, WorldsFields
    <3>1. r1.state = "idle" /\ r2.state = "idle"
      BY <3>0 DEF AgentRecord
    <3>2. A[from] = r1 \/ A[from] = r2
      BY <1>1, <1>3, WorldsFields, LiveFacts DEF A, Released
    <3> HIDE DEF r1, r2
    <3> QED
      BY <1>5, <3>1, <3>2 DEF LoggedIn
  <2>1. w.purses[from] \in Purse /\ offer.escrow \in Purse
    BY <1>1, <1>3, WorldsFields DEF OfferRecord
  <2>2. p \in Purse
    BY <2>1, CreditType
  <2> HIDE DEF p
  <2>3. u = [r EXCEPT !.purses = [w.purses EXCEPT ![from] = p],
                      !.registrations = [w.registrations EXCEPT ![from] = p]]
    BY <1>1, <1>3, <1>5, WorldsFields
       DEF creditAgent, persistLoggedInAgentState, Worlds, p
  <2>4. NoOffer \in OfferRecord /\ NoOffer.status # "open"
    BY DEF NoOffer, OfferRecord, Nothing, Purse
  <2>5. /\ [w.transfers EXCEPT ![t] = NoOffer] \in [Transfers -> OfferRecord]
        /\ [w.purses EXCEPT ![from] = p] \in [Agents -> Purse]
        /\ [w.registrations EXCEPT ![from] = p] \in [Agents -> Purse \cup {None}]
    BY <1>1, <2>2, <2>4, WorldsFields
  <2>6. u \in Worlds /\ u.agents = A /\ u.timers = T
        /\ u.announcements = w.announcements /\ u.transfers = w.transfers
        /\ u.purses = [w.purses EXCEPT ![from] = p]
        /\ u.registrations = [w.registrations EXCEPT ![from] = p]
    BY <1>5, <2>3, <2>5 DEF Worlds
  <2>7. finalizeRefund(w, t, faults) = v
    BY <1>4, <1>7, <2>a, <2>6 DEF refundEscrow, Worlds
  <2> HIDE DEF u
  <2>8. /\ v \in Worlds /\ v.agents = A /\ v.timers = T
        /\ v.announcements = w.announcements
        /\ v.transfers = [w.transfers EXCEPT ![t] = NoOffer]
        /\ v.purses = [w.purses EXCEPT ![from] = p]
        /\ v.registrations = [w.registrations EXCEPT ![from] = p]
    BY <2>5, <2>6 DEF Worlds
  <2> HIDE DEF v
  <2>9. /\ v.registrations[from] = p /\ v.purses[from] = p
        /\ \A b \in Agents \ {from} : /\ v.purses[b] = w.purses[b]
                                      /\ v.registrations[b] = w.registrations[b]
    BY <1>1, <1>3, <2>8, WorldsFields
  <2>10. Refunded(v, w, t, faults)
    BY <2>8 DEF Refunded, Handed, p
  <2>11. Ended(v, w, t, from)
    BY <2>2, <2>4, <2>8, <2>9 DEF Ended, A, T
  <2> QED
    BY <2>7, <2>10, <2>11
<1> QED
  BY <1>6, <1>7

\* Who is logged in is unchanged, and no registration is gone.
Keeps(v, w) ==
  \A a \in Agents : /\ LoggedIn(v, a) <=> LoggedIn(w, a)
                    /\ Registered(w, a) => Registered(v, a)

\* With every offer timed, any one offer may be exempt from having a timer.
LEMMA ControlSkip ==
  ASSUME NEW w, NEW skip, Control(w, None)
  PROVE  Control(w, skip)
BY WorldAssumption DEF Control, Roles, Held

\* A busy agent out of S goes on with what it does.
Steady(v, w, S) ==
  \A b \in Agents \ S : w.agents[b].state \in {"moving", "in_action"} =>
    v.agents[b].state = w.agents[b].state

\* Steps one after the other disturb whom one of them disturbs.
LEMMA SteadyTwice ==
  ASSUME NEW w, NEW u, NEW v, NEW S, Steady(u, w, S), Steady(v, u, S)
  PROVE  Steady(v, w, S)
BY DEF Steady

\* The states of all agents but a are as they were.
LEMMA OthersSteady ==
  ASSUME NEW w, NEW v, NEW a,
         \A b \in Agents \ {a} : v.agents[b].state = w.agents[b].state
  PROVE  Steady(v, w, {a})
BY DEF Steady

\* The end of an offer disturbs its two agents, who are in a transfer.
LEMMA EndedSteady ==
  ASSUME NEW w, NEW t \in Transfers, Control(w, t), Live(w, t), NEW v, NEW a,
         Ended(v, w, t, a)
  PROVE  Steady(v, w, {})
<1> DEFINE from == w.transfers[t].from_agent_id
           to == w.transfers[t].to_agent_id
<1>1. /\ from \in Agents /\ to \in Agents /\ from # to
      /\ w.agents \in [Agents -> AgentRecord]
      /\ w.agents[from].state = "in_transfer" /\ w.agents[to].state = "in_transfer"
  BY LiveFacts, WorldsFields DEF Control
<1>2. \A b \in Agents \ {from, to} : v.agents[b] = w.agents[b]
  BY <1>1 DEF Ended, Released
<1> QED
  BY <1>1, <1>2 DEF Steady

\* Giving an agent its info commands back disturbs nothing.
LEMMA ClearExcludedGood ==
  ASSUME NEW w, NEW a \in Agents, Good(w)
  PROVE  /\ Good(clearExcludedInfoCommands(w, a))
         /\ Keeps(clearExcludedInfoCommands(w, a), w)
<1> DEFINE v == clearExcludedInfoCommands(w, a)
           r == [w.agents[a] EXCEPT !.excluded = {}]
<1>1. Updates(v, w, [w.agents EXCEPT ![a].excluded = {}], w.timers)
  BY ClearExcludedLemma DEF Good, Control
<1>2. w.agents \in [Agents -> AgentRecord] /\ w.agents[a] \in AgentRecord
  BY WorldsFields DEF Good, Control
<1>3. /\ r.state = w.agents[a].state
      /\ r.active_transfer_id = w.agents[a].active_transfer_id
      /\ r.pending_transfer_id = w.agents[a].pending_transfer_id
      /\ r.pending_announcements = w.agents[a].pending_announcements
      /\ r.announced = w.agents[a].announced
  BY <1>2 DEF AgentRecord
<1>4. [w.agents EXCEPT ![a].excluded = {}] = [w.agents EXCEPT ![a] = r]
  BY <1>2
<1> HIDE DEF v, r
<1>5. \A b \in Agents :
        /\ v.agents[b].state = w.agents[b].state
        /\ v.agents[b].active_transfer_id = w.agents[b].active_transfer_id
        /\ v.agents[b].pending_transfer_id = w.agents[b].pending_transfer_id
        /\ v.agents[b].pending_announcements = w.agents[b].pending_announcements
        /\ v.agents[b].announced = w.agents[b].announced
  BY <1>1, <1>2, <1>3, <1>4 DEF Updates
<1>6. Waiting(v)
  BY <1>1, <1>5 DEF Good, Control, Waiting, Updates
<1>7. Control(v, None)
  BY <1>1, <1>5, <1>6, Cosmetic, ZenonT(40) DEF Good, Updates
<1>8. Keeps(v, w)
  BY <1>1, <1>5 DEF Keeps, LoggedIn, Registered, Updates
<1>9. Saved(v)
  BY <1>1, <1>5 DEF Good, Saved, LoggedIn, Registered, Updates
<1> QED
  BY <1>7, <1>8, <1>9 DEF Good, v

\* clearExcludedInfoCommands changes no state.
LEMMA ExcludedStates ==
  ASSUME NEW w \in Worlds, NEW a \in Agents
  PROVE  \A b \in Agents :
           clearExcludedInfoCommands(w, a).agents[b].state = w.agents[b].state
<1> DEFINE v == clearExcludedInfoCommands(w, a)
           r == [w.agents[a] EXCEPT !.excluded = {}]
<1>1. v.agents = [w.agents EXCEPT ![a].excluded = {}]
  BY ClearExcludedLemma DEF Updates
<1>2. w.agents \in [Agents -> AgentRecord] /\ w.agents[a] \in AgentRecord
  BY WorldsFields
<1>3. r.state = w.agents[a].state /\ v.agents = [w.agents EXCEPT ![a] = r]
  BY <1>1, <1>2 DEF AgentRecord
<1> HIDE DEF r, v
<1> QED
  BY <1>2, <1>3 DEF v

\* Agent a of v owns p, in memory and on disk; else v is w.
Credited(v, w, a, p) ==
  /\ v \in Worlds /\ v.agents = w.agents /\ v.timers = w.timers
  /\ v.announcements = w.announcements /\ v.transfers = w.transfers
  /\ v.purses = [w.purses EXCEPT ![a] = p]
  /\ v.registrations = [w.registrations EXCEPT ![a] = p]

\* creditAgent changes the purse of one agent and writes it to disk.
LEMMA CreditAgentLemma ==
  ASSUME NEW w \in Worlds, NEW a \in Agents, NEW escrow \in Purse
  PROVE  LET p == credit(w.purses[a], escrow)
         IN  p \in Purse /\ Credited(creditAgent(w, a, escrow), w, a, p)
<1> DEFINE p == credit(w.purses[a], escrow)
<1>1. p \in Purse
  BY CreditType, WorldsFields
<1>2. creditAgent(w, a, escrow)
        = [w EXCEPT !.purses = [w.purses EXCEPT ![a] = p],
                    !.registrations = [w.registrations EXCEPT ![a] = p]]
  BY WorldsFields DEF creditAgent, persistLoggedInAgentState, Worlds
<1> HIDE DEF p
<1>3. /\ [w.purses EXCEPT ![a] = p] \in [Agents -> Purse]
      /\ [w.registrations EXCEPT ![a] = p] \in [Agents -> Purse \cup {None}]
  BY <1>1, WorldsFields
<1>4. Credited(creditAgent(w, a, escrow), w, a, p)
  BY <1>1, <1>2, <1>3 DEF Worlds, Credited
<1> QED
  BY <1>1, <1>4 DEF p

\* An accepted offer ends with its value in the receiver's purse.
LEMMA SettleAcceptLemma ==
  ASSUME NEW w, NEW t \in Transfers, Good(w), Live(w, t), NEW a \in Agents,
         w.transfers[t].to_agent_id = a
  PROVE  /\ Good(settleAccept(w, t, a)) /\ Keeps(settleAccept(w, t, a), w)
         /\ Steady(settleAccept(w, t, a), w, {})
         /\ Handed(settleAccept(w, t, a), w, a,
                   credit(w.purses[a], w.transfers[t].escrow), t, NoOffer)
<1> DEFINE offer == w.transfers[t]
           from == offer.from_agent_id
           p == credit(w.purses[a], offer.escrow)
           u == creditAgent(w, a, offer.escrow)
           r == clearTransferState(cancelTransferTimer(u, t), t, offer)
           v == [r EXCEPT !.transfers = [w.transfers EXCEPT ![t] = NoOffer]]
           A == Released(w.agents, from, a)
           T == Reminded({x \in w.timers : ~(x.type = "transfer" /\ x.about = t)},
                         from, a)
<1>1. Control(w, t) /\ w \in Worlds /\ Saved(w)
  BY ControlSkip DEF Good, Control
<1>2. offer \in OfferRecord /\ offer.escrow \in Purse
  BY <1>1, WorldsFields DEF OfferRecord
<1>3. p \in Purse /\ Credited(u, w, a, p)
  BY <1>1, <1>2, CreditAgentLemma
<1> HIDE DEF u, p
<1>4. Updates(r, u, A, T)
  BY <1>1, <1>3, ReleaseBoth DEF Credited
<1> HIDE DEF r, A, T
<1>5. NoOffer \in OfferRecord /\ NoOffer.status # "open"
  BY DEF NoOffer, OfferRecord, Nothing, Purse
<1>6. [w.transfers EXCEPT ![t] = NoOffer] \in [Transfers -> OfferRecord]
  BY <1>1, <1>5, WorldsFields
<1>7. settleAccept(w, t, a) = clearExcludedInfoCommands(v, a)
  BY <1>3, <1>4 DEF settleAccept, Credited, Updates, Worlds, u, r
<1>8. /\ v \in Worlds /\ v.agents = A /\ v.timers = T
      /\ v.announcements = w.announcements
      /\ v.transfers = [w.transfers EXCEPT ![t] = NoOffer]
      /\ v.purses = [w.purses EXCEPT ![a] = p]
      /\ v.registrations = [w.registrations EXCEPT ![a] = p]
  BY <1>3, <1>4, <1>6 DEF Credited, Updates, Worlds
<1> HIDE DEF v
<1>9. /\ v.registrations[a] = p /\ v.purses[a] = p
      /\ \A b \in Agents \ {a} : /\ v.purses[b] = w.purses[b]
                                 /\ v.registrations[b] = w.registrations[b]
  BY <1>1, <1>8, WorldsFields
<1>10. Ended(v, w, t, a)
  BY <1>3, <1>5, <1>8, <1>9 DEF Ended, A, T
<1>11. Good(v) /\ Keeps(v, w)
  BY <1>1, <1>10, EndedGood DEF Keeps
<1>12. Steady(v, w, {})
  BY <1>1, <1>10, EndedSteady
<1>13. \A b \in Agents : clearExcludedInfoCommands(v, a).agents[b].state = v.agents[b].state
  BY <1>11, ExcludedStates DEF Good, Control
<1>14. Steady(clearExcludedInfoCommands(v, a), w, {})
  BY <1>12, <1>13 DEF Steady
<1>15. Updates(clearExcludedInfoCommands(v, a), v, [v.agents EXCEPT ![a].excluded = {}],
               v.timers)
  BY <1>8, ClearExcludedLemma
<1>16. Handed(clearExcludedInfoCommands(v, a), w, a, p, t, NoOffer)
  BY <1>8, <1>15 DEF Handed, Updates
<1> QED
  BY <1>7, <1>11, <1>14, <1>16, ClearExcludedGood DEF Keeps, p

\* A cancelled offer: what its two agents are afterwards.
LEMMA CancelTransferLemma ==
  ASSUME NEW w, NEW t \in Transfers, NEW faults, Good(w), Live(w, t)
  PROVE  LET v == cancelTransfer(w, t, faults)
         IN  /\ v = finalizeRefund(w, t, faults)
             /\ Good(v) /\ Keeps(v, w) /\ Refunded(v, w, t, faults)
             /\ Ended(v, w, t, w.transfers[t].from_agent_id)
<1>1. cancelTransfer(w, t, faults) = finalizeRefund(w, t, faults)
  BY DEF cancelTransfer, Live
<1>2. Control(w, t) /\ Saved(w) /\ w.transfers[t].from_agent_id \in Agents
  BY ControlSkip, LiveFacts DEF Good
<1>3. /\ Ended(finalizeRefund(w, t, faults), w, t, w.transfers[t].from_agent_id)
      /\ Refunded(finalizeRefund(w, t, faults), w, t, faults)
  BY <1>2, FinalizeRefundLemma
<1> QED
  BY <1>1, <1>2, <1>3, EndedGood DEF Keeps

\* Whatever ends an open offer in a world that is in order disturbs nobody else.
LEMMA CancelSteady ==
  ASSUME NEW w, Good(w), NEW t \in Transfers, Live(w, t), NEW faults
  PROVE  Steady(finalizeRefund(w, t, faults), w, {})
<1>1. Control(w, t)
  BY ControlSkip DEF Good
<1> QED
  BY <1>1, CancelTransferLemma, EndedSteady

\* A rejected offer ends with the world in order.
LEMMA RejectTransferLemma ==
  ASSUME NEW w, NEW t \in Transfers, NEW a \in Agents, NEW faults,
         Good(w), Live(w, t)
  PROVE  /\ Good(rejectTransfer(w, t, a, faults))
         /\ Keeps(rejectTransfer(w, t, a, faults), w)
         /\ Steady(rejectTransfer(w, t, a, faults), w, {})
<1> DEFINE u == finalizeRefund(w, t, faults)
<1>1. Good(u) /\ Keeps(u, w) /\ Steady(u, w, {})
  BY CancelTransferLemma, CancelSteady
<1>2. rejectTransfer(w, t, a, faults) = clearExcludedInfoCommands(u, a)
  BY DEF rejectTransfer
<1> HIDE DEF u
<1>3. \A b \in Agents : clearExcludedInfoCommands(u, a).agents[b].state = u.agents[b].state
  BY <1>1, ExcludedStates DEF Good, Control
<1>4. Steady(clearExcludedInfoCommands(u, a), w, {})
  BY <1>1, <1>3 DEF Steady
<1> QED
  BY <1>1, <1>2, <1>4, ClearExcludedGood DEF Keeps

\* An accepted offer ends with the world in order, settled or refunded.
LEMMA AcceptTransferLemma ==
  ASSUME NEW w, NEW t \in Transfers, NEW a \in Agents, NEW faults,
         Good(w), canAcceptTransfer(w, t, a)
  PROVE  /\ Good(acceptTransfer(w, t, a, faults))
         /\ Keeps(acceptTransfer(w, t, a, faults), w)
         /\ Steady(acceptTransfer(w, t, a, faults), w, {})
<1>1. Live(w, t) /\ w.transfers[t].to_agent_id = a
  BY DEF canAcceptTransfer, canRejectTransfer
<1>2. CASE cannotReceive(w, t, a, faults)
  <2>1. acceptTransfer(w, t, a, faults) = finalizeRefund(w, t, faults)
    BY <1>1, <1>2, CancelTransferLemma DEF acceptTransfer
  <2> QED
    BY <1>1, <2>1, CancelTransferLemma, CancelSteady
<1>3. CASE ~cannotReceive(w, t, a, faults) /\ drops(w.purses[a], w.transfers[t].escrow)
  BY <1>1, <1>3, RejectTransferLemma DEF acceptTransfer
<1>4. CASE ~cannotReceive(w, t, a, faults) /\ ~drops(w.purses[a], w.transfers[t].escrow)
  BY <1>1, <1>4, SettleAcceptLemma DEF acceptTransfer
<1> QED
  BY <1>2, <1>3, <1>4

\* When its own timer fires, an open offer is without it for a moment.
LEMMA FiredTimer ==
  ASSUME NEW w, Good(w), NEW x \in w.timers, x.type = "transfer"
  PROVE  /\ x.about \in Transfers /\ Live(w, x.about)
         /\ Control(cancel(w, x), x.about) /\ Live(cancel(w, x), x.about)
         /\ Saved(cancel(w, x)) /\ Keeps(w, cancel(w, x)) /\ Keeps(cancel(w, x), w)
         /\ cancel(w, x).agents = w.agents
<1> DEFINE t == x.about
           T == w.timers \ {x}
           v == [w EXCEPT !.timers = T]
<1>1. w \in Worlds /\ Control(w, None) /\ x \in TimerRecord /\ Saved(w)
  BY WorldsFields DEF Good, Control
<1>2. Timed(w, x) /\ t \in Transfers /\ Live(w, t)
  BY <1>1 DEF Control, Timing, Timed
<1>3. T \in SUBSET TimerRecord
  BY <1>1, WorldsFields
<1>4. cancel(w, x) = v
  BY DEF cancel, Worlds
<1>5. Updates(v, w, w.agents, T)
  BY <1>1, <1>3, TimersLemma
<1> HIDE DEF v, T
<1>6. Waiting(v)
  BY <1>1, <1>5 DEF Control, Waiting, Updates
<1>7. ASSUME NEW u \in Transfers, Live(v, u)
      PROVE  Held(v, u, t)
  <2>1. Live(w, u) /\ v.transfers[u] = w.transfers[u]
    BY <1>5, <1>7 DEF Live, Updates
  <2>2. Held(w, u, None) /\ u # None
    BY <1>1, <2>1, WorldAssumption DEF Control, Roles
  <2>3. u # t => TransferTimer(u, w.transfers[u]) # x
    BY DEF TransferTimer, Timer
  <2> QED
    BY <1>5, <2>1, <2>2, <2>3 DEF Held, Updates, T
<1>8. ASSUME NEW a \in Agents
      PROVE  Backed(v, a) /\ Busy(v, a)
  <2>1. Backed(w, a) /\ Busy(w, a)
    BY <1>1 DEF Control, Roles, Timing
  <2>2. Backed(v, a)
    BY <1>5, <2>1 DEF Backed, isInTransfer, Live, Updates
  <2>3. /\ \A y \in v.timers : y \in w.timers
        /\ \A y \in w.timers : y.type # "transfer" => y \in v.timers
    BY <1>5 DEF Updates, T
  <2>4. MV(a).type = "movement"
    BY IdleReminderType
  <2>5. OneActivity(v.timers, a)
    BY <2>1, <2>3 DEF Busy, OneActivity
  <2>6. Busy(v, a)
    BY <1>5, <2>1, <2>3, <2>4, <2>5 DEF Busy, Updates, ActivityTypes
  <2> QED
    BY <2>2, <2>6
<1>9. ASSUME NEW y \in v.timers
      PROVE  Timed(v, y)
  <2>1. Timed(w, y)
    BY <1>1, <1>5 DEF Updates, T, Control, Timing
  <2> QED
    BY <1>5, <2>1 DEF Timed, Live, Updates
<1>10. Control(v, t)
  BY <1>5, <1>6, <1>7, <1>8, <1>9 DEF Control, Roles, Timing, Updates
<1>11. Saved(v) /\ Keeps(w, v) /\ Keeps(v, w) /\ Live(v, t)
  BY <1>1, <1>2, <1>5 DEF Saved, Keeps, LoggedIn, Registered, Updates, Live
<1> QED
  BY <1>2, <1>4, <1>5, <1>10, <1>11 DEF Updates

\* An expired offer ends with the world in order.
LEMMA TransferTimeoutLemma ==
  ASSUME NEW w, Good(w), NEW x \in w.timers, x.type = "transfer", NEW faults
  PROVE  /\ Good(handleTransferTimeout(w, x, faults))
         /\ Keeps(handleTransferTimeout(w, x, faults), w)
         /\ Steady(handleTransferTimeout(w, x, faults), w, {})
<1> DEFINE t == x.about
           u == cancel(w, x)
           v == finalizeRefund(u, t, faults)
<1>1. /\ t \in Transfers /\ Live(w, t) /\ Control(u, t) /\ Live(u, t)
      /\ Saved(u) /\ Keeps(w, u) /\ Keeps(u, w) /\ u.agents = w.agents
  BY FiredTimer
<1>2. handleTransferTimeout(w, x, faults) = v
  BY <1>1 DEF handleTransferTimeout
<1> HIDE DEF u
<1>3. Ended(v, u, t, u.transfers[t].from_agent_id)
      /\ u.transfers[t].from_agent_id \in Agents
  BY <1>1, FinalizeRefundLemma, LiveFacts
<1> HIDE DEF v
<1>4. Good(v) /\ Keeps(v, u) /\ Steady(v, u, {})
  BY <1>1, <1>3, EndedGood, EndedSteady DEF Keeps
<1> QED
  BY <1>1, <1>2, <1>4 DEF Keeps, Steady

(***************************************************************************)
(* Opening an offer.                                                       *)
(***************************************************************************)
LEMMA EnterTransferLemma ==
  ASSUME NEW w \in Worlds, NEW a \in Agents, OneActivity(w.timers, a)
  PROVE  Updates(enterTransfer(w, a), w,
                 [w.agents EXCEPT ![a].state = "in_transfer"],
                 Without(w.timers, a, ActivityTypes \cup {"idle_reminder"}))
<1> DEFINE v1 == setState(w, a, "in_transfer")
           v2 == cancelByType(v1, a, "idle_reminder")
           v3 == cancelActive(cancelActive(cancelActive(v2, a, "wait"), a, "action"),
                              a, "item_use")
<1>1. Updates(v1, w, [w.agents EXCEPT ![a].state = "in_transfer"], w.timers)
  BY SetStateLemma DEF AgentStates
<1> HIDE DEF v1
<1>2. Updates(v2, v1, v1.agents, Without(v1.timers, a, {"idle_reminder"}))
  BY <1>1, CancelByTypeLemma DEF Updates, TimerTypes
<1> HIDE DEF v2
<1>3. v2 \in Worlds /\ OneActivity(v2.timers, a)
  BY <1>1, <1>2, WithoutOneActivity DEF Updates
<1>4. ActivityTypes = {"wait", "action", "item_use"}
  BY DEF ActivityTypes
<1>5. Updates(v3, v2, v3.agents, Without(v2.timers, a, ActivityTypes))
      /\ IdleAtMost(v3, v2, a)
  BY <1>3, <1>4, CancelThreeLemma
<1>6. enterTransfer(w, a) = v3
  BY DEF enterTransfer, cancelIdleReminder, cancelActiveActivities, v1, v2
<1> HIDE DEF v3
<1>7. v2.agents[a].state = "in_transfer"
  BY <1>1, <1>2, WorldsFields DEF Updates, AgentRecord
<1>8. v3.agents = v2.agents
  BY <1>5, <1>7 DEF IdleAtMost
<1>9. v3.timers = Without(w.timers, a, ActivityTypes \cup {"idle_reminder"})
  BY <1>1, <1>2, <1>5 DEF Updates, Without
<1> QED
  BY <1>1, <1>2, <1>5, <1>6, <1>8, <1>9 DEF Updates

\* An agent that may enter a transfer is in none and does not move.
Free(w, a) ==
  /\ w.agents[a].state \in {"idle", "in_action"}
  /\ w.agents[a].active_transfer_id = None
  /\ w.agents[a].pending_transfer_id = None

\* The agents of w once a and b hold the two roles of offer t.
Engaged(A, t, a, b) ==
  [A EXCEPT ![a] = [@ EXCEPT !.active_transfer_id = t, !.state = "in_transfer"],
            ![b] = [@ EXCEPT !.pending_transfer_id = t, !.state = "in_transfer"]]

\* acquireTransferRolesPair engages two free agents and takes their own timers.
LEMMA AcquireLemma ==
  ASSUME NEW w, Control(w, None), NEW from \in Agents, NEW to \in Agents,
         from # to, Free(w, from), Free(w, to), NEW t \in Transfers
  PROVE  Updates(acquireTransferRolesPair(w, from, to, t), w,
                 Engaged(w.agents, t, from, to),
                 NotOwn(NotOwn(w.timers, from), to))
<1> DEFINE K == ActivityTypes \cup {"idle_reminder"}
           r1 == [w.agents[from] EXCEPT !.active_transfer_id = t]
           r2 == [w.agents[to] EXCEPT !.pending_transfer_id = t]
           s1 == [w.agents[from] EXCEPT !.active_transfer_id = t, !.state = "in_transfer"]
           s2 == [w.agents[to] EXCEPT !.pending_transfer_id = t, !.state = "in_transfer"]
           A0 == [w.agents EXCEPT ![from] = r1, ![to] = r2]
           w0 == [w EXCEPT !.agents = A0]
           w1 == enterTransfer(w0, from)
           w2 == enterTransfer(w1, to)
<1>1. /\ w \in Worlds /\ w.agents \in [Agents -> AgentRecord]
      /\ w.agents[from] \in AgentRecord /\ w.agents[to] \in AgentRecord
  BY WorldsFields DEF Control
<1>2. r1 \in AgentRecord /\ r2 \in AgentRecord
  BY <1>1 DEF AgentRecord
<1>3. /\ [r1 EXCEPT !.state = "in_transfer"] = s1
      /\ [r2 EXCEPT !.state = "in_transfer"] = s2
  BY <1>1 DEF AgentRecord
<1>4. acquireTransferRolesPair(w, from, to, t) = w2
  <2>1. [w EXCEPT !.agents[from].active_transfer_id = t,
                  !.agents[to].pending_transfer_id = t] = w0
    BY <1>1 DEF Worlds
  <2> HIDE DEF w0
  <2> QED
    BY <2>1 DEF acquireTransferRolesPair
<1>5. Engaged(w.agents, t, from, to) = [w.agents EXCEPT ![from] = s1, ![to] = s2]
  BY <1>1 DEF Engaged
<1> HIDE DEF r1, r2, s1, s2
<1>6. A0 \in [Agents -> AgentRecord]
  BY <1>1, <1>2
<1>7. Updates(w0, w, A0, w.timers)
  BY <1>1, <1>6, AgentsLemma
<1> HIDE DEF w0
<1>8. OneActivity(w.timers, from) /\ OneActivity(w.timers, to)
  BY DEF Control, Timing, Busy
<1>9. Updates(w1, w0, [w0.agents EXCEPT ![from].state = "in_transfer"],
              Without(w0.timers, from, K))
  <2>1. w0 \in Worlds /\ OneActivity(w0.timers, from)
    BY <1>7, <1>8 DEF Updates
  <2> QED
    BY <2>1, EnterTransferLemma
<1> HIDE DEF w1
<1>10. w1 \in Worlds /\ OneActivity(w1.timers, to)
  BY <1>7, <1>8, <1>9, WithoutOneActivity DEF Updates
<1>11. Updates(w2, w1, [w1.agents EXCEPT ![to].state = "in_transfer"],
               Without(w1.timers, to, K))
  BY <1>10, EnterTransferLemma
<1> HIDE DEF w2
<1>12. [A0 EXCEPT ![from].state = "in_transfer"]
         = [w.agents EXCEPT ![from] = s1, ![to] = r2]
  BY <1>1, <1>3
<1>13. [[w.agents EXCEPT ![from] = s1, ![to] = r2] EXCEPT ![to].state = "in_transfer"]
         = [w.agents EXCEPT ![from] = s1, ![to] = s2]
  BY <1>1, <1>3
<1>14. w2.agents = Engaged(w.agents, t, from, to)
  BY <1>5, <1>7, <1>9, <1>11, <1>12, <1>13 DEF Updates
<1>15. ASSUME NEW a \in {from, to}, NEW x \in w.timers, a \in x.agent_ids
       PROVE  x.type \in K
  <2>1. a \in Agents /\ w.agents[a].state \in {"idle", "in_action"}
    BY DEF Free
  <2>2. x = IR(a) \/ x.type \in ActivityTypes
    BY <1>15, <2>1, OwnTimers
  <2>3. IR(a).type = "idle_reminder"
    BY <2>1, IdleReminderType
  <2> QED
    BY <2>2, <2>3
<1>16. Without(Without(w.timers, from, K), to, K) = NotOwn(NotOwn(w.timers, from), to)
  BY <1>15 DEF Without, NotOwn
<1> QED
  BY <1>4, <1>7, <1>9, <1>11, <1>14, <1>16 DEF Updates

\* What an offer that has just opened does to its world.
Begun(v, w, t, from, to) ==
  /\ v \in Worlds
  /\ v.agents = Engaged(w.agents, t, from, to)
  /\ v.announcements = w.announcements
  /\ \E o \in OfferRecord :
       /\ o.status = "open" /\ o.from_agent_id = from /\ o.to_agent_id = to
       /\ v.transfers = [w.transfers EXCEPT ![t] = o]
       /\ v.timers = NotOwn(NotOwn(w.timers, from), to) \cup {TransferTimer(t, o)}

\* An offer, its roles and its timer made together leave the world in order.
LEMMA BeginOffer ==
  ASSUME NEW w, Control(w, None), NEW from \in Agents, NEW to \in Agents,
         from # to, Free(w, from), Free(w, to),
         NEW t \in Transfers, ~Live(w, t), NEW v, Begun(v, w, t, from, to)
  PROVE  Control(v, None)
<1>1. /\ w \in Worlds /\ w.agents \in [Agents -> AgentRecord]
      /\ w.agents[from] \in AgentRecord /\ w.agents[to] \in AgentRecord
      /\ w.transfers \in [Transfers -> OfferRecord]
  BY WorldsFields DEF Control
<1>2. PICK o \in OfferRecord :
        /\ o.status = "open" /\ o.from_agent_id = from /\ o.to_agent_id = to
        /\ v.transfers = [w.transfers EXCEPT ![t] = o]
        /\ v.timers = NotOwn(NotOwn(w.timers, from), to) \cup {TransferTimer(t, o)}
  BY DEF Begun
<1>3. /\ \A a \in Agents \ {from, to} : v.agents[a] = w.agents[a]
      /\ v.agents[from] = [w.agents[from] EXCEPT !.active_transfer_id = t, !.state = "in_transfer"]
      /\ v.agents[to] = [w.agents[to] EXCEPT !.pending_transfer_id = t, !.state = "in_transfer"]
  BY <1>1 DEF Begun, Engaged
<1>4. /\ v.agents[from].active_transfer_id = t /\ v.agents[from].pending_transfer_id = None
      /\ v.agents[from].state = "in_transfer"
      /\ v.agents[from].announced = w.agents[from].announced
      /\ v.agents[from].pending_announcements = w.agents[from].pending_announcements
  BY <1>1, <1>3 DEF AgentRecord, Free
<1>5. /\ v.agents[to].pending_transfer_id = t /\ v.agents[to].active_transfer_id = None
      /\ v.agents[to].state = "in_transfer"
      /\ v.agents[to].announced = w.agents[to].announced
      /\ v.agents[to].pending_announcements = w.agents[to].pending_announcements
  BY <1>1, <1>3 DEF AgentRecord, Free
<1>6. /\ v.transfers[t] = o /\ Live(v, t) /\ t # None
      /\ \A u \in Transfers \ {t} : v.transfers[u] = w.transfers[u]
  BY <1>1, <1>2, WorldAssumption DEF Live
<1> DEFINE tt == TransferTimer(t, o)
<1>7. tt.type = "transfer" /\ tt.about = t /\ tt.agent_ids = {from, to}
  BY <1>2 DEF TransferTimer, Timer
<1> HIDE DEF tt
<1>8. \A x : x \in v.timers <=>
         \/ x = tt
         \/ x \in w.timers /\ from \notin x.agent_ids /\ to \notin x.agent_ids
  BY <1>2 DEF NotOwn, tt
<1>9. ASSUME NEW u \in Transfers, u # t, Live(v, u)
      PROVE  Held(v, u, None)
  <2>1. Live(w, u) /\ v.transfers[u] = w.transfers[u]
    BY <1>6, <1>9 DEF Live
  <2>2. Held(w, u, None)
    BY <2>1 DEF Control, Roles
  <2>3. /\ w.transfers[u].from_agent_id \notin {from, to}
        /\ w.transfers[u].to_agent_id \notin {from, to}
    BY <2>1, LiveFacts DEF Free
  <2>4. TransferTimer(u, w.transfers[u]) \in v.timers
    BY <1>8, <2>2, <2>3, WorldAssumption DEF Held, TransferTimer, Timer
  <2> QED
    BY <1>3, <2>1, <2>2, <2>3, <2>4 DEF Held
<1>10. Held(v, t, None)
  BY <1>2, <1>4, <1>5, <1>6, <1>8 DEF Held, tt
<1>11. ASSUME NEW a \in Agents \ {from, to}
       PROVE  Backed(v, a) /\ Busy(v, a)
  <2>1. Backed(w, a) /\ Busy(w, a) /\ v.agents[a] = w.agents[a]
    BY <1>3 DEF Control, Roles, Timing
  <2>2. w.agents[a] \in AgentRecord
    BY <1>1
  <2>3. \A u \in Transfers : Live(w, u) => Live(v, u) /\ v.transfers[u] = w.transfers[u]
    BY <1>6 DEF Live
  <2>4. /\ v.agents[a].active_transfer_id # None =>
             /\ Live(v, v.agents[a].active_transfer_id)
             /\ v.transfers[v.agents[a].active_transfer_id].from_agent_id = a
        /\ v.agents[a].pending_transfer_id # None =>
             /\ Live(v, v.agents[a].pending_transfer_id)
             /\ v.transfers[v.agents[a].pending_transfer_id].to_agent_id = a
    BY <2>1, <2>2, <2>3 DEF Backed, AgentRecord
  <2>5. Backed(v, a)
    BY <2>1, <2>4 DEF Backed, isInTransfer
  <2>6. \A x \in v.timers : x.type # "transfer" => x \in w.timers
    BY <1>7, <1>8
  <2>7. OneActivity(v.timers, a)
    BY <2>1, <2>6 DEF Busy, OneActivity, ActivityTypes
  <2>8. ASSUME NEW x \in w.timers, x.agent_ids = {a}
        PROVE  x \in v.timers
    BY <1>8, <2>8
  <2>9. MV(a).agent_ids = {a}
    BY IdleReminderType
  <2>10. \A x \in w.timers : a \in x.agent_ids /\ x.type \in ActivityTypes => x.agent_ids = {a}
    BY DEF Control, Timing, Timed
  <2>11. Busy(v, a)
    BY <2>1, <2>7, <2>8, <2>9, <2>10 DEF Busy
  <2> QED
    BY <2>5, <2>11
<1>12. ASSUME NEW a \in {from, to}
       PROVE  Backed(v, a) /\ Busy(v, a)
  <2>1. Backed(v, a)
    BY <1>2, <1>4, <1>5, <1>6 DEF Backed, isInTransfer
  <2>2. \A x \in v.timers : a \in x.agent_ids => x = tt
    BY <1>8
  <2>3. Busy(v, a)
    BY <1>4, <1>5, <2>2 DEF Busy, OneActivity
  <2> QED
    BY <2>1, <2>3
<1>13. ASSUME NEW x \in v.timers
       PROVE  Timed(v, x)
  <2>1. CASE x = tt
    <3>1. x.type = "transfer" /\ x.about = t /\ x = TransferTimer(t, v.transfers[t])
      BY <1>6, <1>7, <2>1 DEF tt
    <3> QED
      BY <1>6, <3>1 DEF Timed, ActivityTypes
  <2>2. CASE x # tt
    <3>1. x \in w.timers /\ from \notin x.agent_ids /\ to \notin x.agent_ids
      BY <1>8, <2>2
    <3>2. Timed(w, x) /\ x.agent_ids \subseteq Agents
      BY <3>1, WorldsFields DEF Control, Timing, TimerRecord
    <3>3. \A a \in x.agent_ids : v.agents[a] = w.agents[a]
      BY <1>3, <3>1, <3>2
    <3>4. \A u \in Transfers : Live(w, u) => Live(v, u) /\ v.transfers[u] = w.transfers[u]
      BY <1>6 DEF Live
    <3> QED
      BY <3>2, <3>3, <3>4 DEF Timed
  <2> QED
    BY <2>1, <2>2
<1>14. Waiting(v)
  <2>1. ASSUME NEW a \in Agents
        PROVE  /\ v.agents[a].pending_announcements
                    = w.agents[a].pending_announcements
               /\ v.agents[a].announced = w.agents[a].announced
               /\ \/ v.agents[a].state = w.agents[a].state
                  \/ /\ v.agents[a].state = "in_transfer"
                     /\ w.agents[a].state \in {"idle", "in_action"}
    BY <1>3, <1>4, <1>5 DEF Free
  <2>2. v.announcements = w.announcements
    BY DEF Begun
  <2> QED
    BY <2>1, <2>2 DEF Control, Waiting
<1> QED
  BY <1>9, <1>10, <1>11, <1>12, <1>13, <1>14 DEF Control, Roles, Timing, Begun

\* An agent out of any transfer becomes idle, with a reminder or without one.
LEMMA IdleStep ==
  ASSUME NEW w, Control(w, None), NEW a \in Agents,
         w.agents[a].state \notin {"in_transfer", "moving"},
         NEW v \in Worlds, NEW R \in SUBSET {IR(a)},
         v.agents = [w.agents EXCEPT ![a].state = "idle"],
         v.timers = NotOwn(w.timers, a) \cup R,
         v.transfers = w.transfers, v.announcements = w.announcements
  PROVE  Control(v, None)
<1>1. /\ w.agents \in [Agents -> AgentRecord] /\ w.agents[a] \in AgentRecord
  BY WorldsFields DEF Control
<1>2. \A b \in Agents \ {a} : v.agents[b] = w.agents[b]
  BY <1>1
<1> DEFINE r == [w.agents[a] EXCEPT !.state = "idle"]
<1>3. v.agents[a] = r
  BY <1>1
<1>4. /\ r.state = "idle" /\ r.active_transfer_id = w.agents[a].active_transfer_id
      /\ r.pending_transfer_id = w.agents[a].pending_transfer_id
      /\ r.announced = w.agents[a].announced
      /\ r.pending_announcements = w.agents[a].pending_announcements
  BY <1>1 DEF AgentRecord
<1> HIDE DEF r
<1>5. Backed(w, a)
  BY DEF Control, Roles
<1>6. r.active_transfer_id = None /\ r.pending_transfer_id = None
  BY <1>4, <1>5 DEF Backed, isInTransfer
<1>7. IR(a).type = "idle_reminder" /\ IR(a).agent_ids = {a}
  BY IdleReminderType
<1>8. Timed(v, IR(a))
  BY <1>3, <1>4, ReminderTimed
<1>9. \A x \in v.timers : a \in x.agent_ids => x = IR(a)
  BY DEF NotOwn
<1>10. Busy(v, a)
  BY <1>3, <1>4, <1>7, <1>9 DEF Busy, OneActivity, ActivityTypes
<1>11. Waiting(v)
  <2>1. ASSUME NEW b \in Agents
        PROVE  /\ v.agents[b].pending_announcements
                    = w.agents[b].pending_announcements
               /\ v.agents[b].announced = w.agents[b].announced
               /\ \/ v.agents[b].state = w.agents[b].state
                  \/ /\ v.agents[b].state = "idle"
                     /\ w.agents[b].state # "moving"
    BY <1>2, <1>3, <1>4
  <2> QED
    BY <2>1 DEF Control, Waiting
<1>12. \A x \in R : x.agent_ids = {a} /\ Timed(v, x)
  BY <1>7, <1>8
<1>13. v.agents[a].state # "in_transfer" /\ w.agents[a].state # "in_transfer"
       /\ v.agents[a].active_transfer_id = None /\ v.agents[a].pending_transfer_id = None
  BY <1>3, <1>4, <1>6
<1> QED
  BY <1>2, <1>10, <1>11, <1>12, <1>13, OwnStep

\* A debit never leaves a negative amount.
LEMMA DebitType ==
  ASSUME NEW p \in Purse, NEW q \in Purse
  PROVE  debit(p, q) \in Purse
BY DEF debit, AtLeastZero, Purse

\* A debit that cannot be written leaves both agents idle and reminded.
LEMMA RollbackLemma ==
  ASSUME NEW w, Good(w), NEW from \in Agents, NEW to \in Agents,
         from # to, Free(w, from), Free(w, to),
         NEW t \in Transfers, NEW offer \in OfferRecord,
         offer.from_agent_id = from, offer.to_agent_id = to
  PROVE  LET v == clearTransferState(acquireTransferRolesPair(w, from, to, t), t, offer)
         IN  /\ Good(v) /\ Keeps(v, w) /\ SameStores(v, w)
             /\ \A b \in Agents \ {from, to} : v.agents[b] = w.agents[b]
<1> DEFINE w1 == acquireTransferRolesPair(w, from, to, t)
           v == clearTransferState(w1, t, offer)
           s1 == [w.agents[from] EXCEPT !.active_transfer_id = t, !.state = "in_transfer"]
           s2 == [w.agents[to] EXCEPT !.pending_transfer_id = t, !.state = "in_transfer"]
           i1 == [w.agents[from] EXCEPT !.state = "idle"]
           i2 == [w.agents[to] EXCEPT !.state = "idle"]
           T1 == NotOwn(w.timers, from) \cup {IR(from)}
           m == [w EXCEPT !.agents = [w.agents EXCEPT ![from].state = "idle"],
                          !.timers = T1]
<1>1. /\ w \in Worlds /\ Control(w, None) /\ Saved(w)
      /\ w.agents \in [Agents -> AgentRecord]
      /\ w.agents[from] \in AgentRecord /\ w.agents[to] \in AgentRecord
  BY WorldsFields DEF Good, Control
<1>2. Updates(w1, w, Engaged(w.agents, t, from, to), NotOwn(NotOwn(w.timers, from), to))
  BY <1>1, AcquireLemma
<1>3. Engaged(w.agents, t, from, to) = [w.agents EXCEPT ![from] = s1, ![to] = s2]
  BY <1>1 DEF Engaged
<1>4. /\ s1.active_transfer_id = t /\ s1.state = "in_transfer"
      /\ s2.pending_transfer_id = t /\ s2.state = "in_transfer"
  BY <1>1 DEF AgentRecord
<1>5. /\ [s1 EXCEPT !.active_transfer_id = None, !.state = "idle"] = i1
      /\ [s2 EXCEPT !.pending_transfer_id = None, !.state = "idle"] = i2
  BY <1>1 DEF AgentRecord, Free
<1> HIDE DEF w1, s1, s2, i1, i2
<1>6. /\ w1 \in Worlds /\ w1.agents = [w.agents EXCEPT ![from] = s1, ![to] = s2]
      /\ w1.timers = NotOwn(NotOwn(w.timers, from), to)
      /\ w1.agents[from] = s1 /\ w1.agents[to] = s2
  BY <1>1, <1>2, <1>3 DEF Updates
<1>7. Updates(v, w1, Released(w1.agents, from, to), Reminded(w1.timers, from, to))
  BY <1>4, <1>6, ClearTransferStateLemma
<1> HIDE DEF v
<1>8. Released(w1.agents, from, to)
        = [w1.agents EXCEPT
             ![from] = [s1 EXCEPT !.active_transfer_id = None, !.state = "idle"],
             ![to] = [s2 EXCEPT !.pending_transfer_id = None, !.state = "idle"]]
  BY <1>6 DEF Released
<1>9. Released(w1.agents, from, to) = [w.agents EXCEPT ![from] = i1, ![to] = i2]
  BY <1>1, <1>5, <1>6, <1>8
<1>10. /\ IR(from).agent_ids = {from} /\ IR(to).agent_ids = {to}
       /\ IR(from) \in TimerRecord /\ IR(to) \in TimerRecord
  BY IdleReminderType
<1>11. Reminded(w1.timers, from, to) = NotOwn(T1, to) \cup {IR(to)}
  BY <1>6, <1>10 DEF Reminded, NotOwn
<1>12. m \in Worlds /\ m.agents = [w.agents EXCEPT ![from] = i1] /\ m.timers = T1
       /\ m.transfers = w.transfers /\ m.announcements = w.announcements
       /\ m.agents = [w.agents EXCEPT ![from].state = "idle"]
  <2>1. T1 \in SUBSET TimerRecord
    BY <1>1, <1>10, WorldsFields DEF NotOwn
  <2>2. i1 \in AgentRecord /\ [w.agents EXCEPT ![from].state = "idle"]
                                = [w.agents EXCEPT ![from] = i1]
    BY <1>1 DEF i1, AgentRecord, AgentStates
  <2>3. [w.agents EXCEPT ![from] = i1] \in [Agents -> AgentRecord]
    BY <1>1, <2>2
  <2> HIDE DEF T1
  <2> QED
    BY <1>1, <2>1, <2>2, <2>3 DEF Worlds
<1> HIDE DEF m
<1>13. Control(m, None)
  BY <1>1, <1>12, IdleStep DEF Free
<1>14. m.agents[to] = w.agents[to] /\ m.agents[to].state \in {"idle", "in_action"}
  BY <1>1, <1>12 DEF Free
<1>15. [m.agents EXCEPT ![to].state = "idle"] = [w.agents EXCEPT ![from] = i1, ![to] = i2]
  BY <1>1, <1>12 DEF i2
<1>16. /\ v \in Worlds /\ v.agents = [m.agents EXCEPT ![to].state = "idle"]
       /\ v.timers = NotOwn(m.timers, to) \cup {IR(to)}
       /\ v.transfers = m.transfers /\ v.announcements = m.announcements
       /\ v.purses = w.purses /\ v.registrations = w.registrations
  BY <1>2, <1>7, <1>9, <1>11, <1>12, <1>15 DEF Updates
<1>17. Control(v, None)
  BY <1>13, <1>14, <1>16, IdleStep
<1>18. i1.state = "idle" /\ i2.state = "idle"
  BY <1>1 DEF i1, i2, AgentRecord
<1>19. \A a \in Agents \ {from, to} : v.agents[a] = w.agents[a]
  BY <1>1, <1>15, <1>16
<1>20. v.agents[from] = i1 /\ v.agents[to] = i2
  BY <1>1, <1>15, <1>16
<1>21. \A a \in Agents : LoggedIn(v, a) <=> LoggedIn(w, a)
  BY <1>18, <1>19, <1>20 DEF LoggedIn, Free
<1>22. Good(v) /\ Keeps(v, w)
  BY <1>1, <1>16, <1>17, <1>21 DEF Good, Saved, Keeps, Registered
<1>23. SameStores(v, w)
  BY <1>12, <1>16 DEF SameStores
<1> QED
  BY <1>19, <1>22, <1>23 DEF v, w1

\* Agent from has paid for an open offer t out of its purse.
Opened(v, w, t, from, payload) ==
  \E o \in OfferRecord :
    /\ o.status = "open" /\ o.from_agent_id = from /\ o.escrow = payload
    /\ Handed(v, w, from, debit(w.purses[from], payload), t, o)

\* startTransfer leaves the world in order, whether its debit is written or not.
LEMMA StartTransferLemma ==
  ASSUME NEW w, Good(w), NEW from \in Agents, NEW to \in Agents,
         from # to, Free(w, from), Free(w, to),
         NEW t \in Transfers, ~Live(w, t), NEW payload \in Purse, NEW faults
  PROVE  LET v == startTransfer(w, t, from, to, payload, faults)
         IN  /\ Good(v) /\ Keeps(v, w) /\ Steady(v, w, {from, to})
             /\ <<"debit", t>> \notin faults =>
                  v.agents[from].state # "idle" /\ v.agents[to].state # "idle"
             /\ SameStores(v, w) \/ Opened(v, w, t, from, payload)
<1> DEFINE o == [status |-> "open", from_agent_id |-> from, to_agent_id |-> to,
                 escrow |-> payload]
           w1 == acquireTransferRolesPair(w, from, to, t)
           p == debit(w.purses[from], payload)
           w2 == [w1 EXCEPT !.transfers[t] = o,
                            !.purses[from] = debit(@, payload)]
           w3 == persistLoggedInAgentState(w2, from)
           w4 == create(w3, TransferTimer(t, o))
<1>1. /\ w \in Worlds /\ Control(w, None) /\ Saved(w)
      /\ w.agents \in [Agents -> AgentRecord]
      /\ w.agents[from] \in AgentRecord /\ w.agents[to] \in AgentRecord
  BY WorldsFields DEF Good, Control
<1>2. o \in OfferRecord /\ o.status = "open" /\ o.from_agent_id = from
      /\ o.to_agent_id = to /\ o.escrow = payload
  BY DEF OfferRecord
<1>3. startTransfer(w, t, from, to, payload, faults)
        = IF <<"debit", t>> \in faults THEN clearTransferState(w1, t, o)
          ELSE clearExcludedInfoCommands(w4, from)
  BY DEF startTransfer
<1> HIDE DEF o
<1>4. /\ Good(clearTransferState(w1, t, o)) /\ Keeps(clearTransferState(w1, t, o), w)
      /\ SameStores(clearTransferState(w1, t, o), w)
      /\ \A b \in Agents \ {from, to} :
           clearTransferState(w1, t, o).agents[b] = w.agents[b]
  BY <1>2, RollbackLemma
<1>5. Updates(w1, w, Engaged(w.agents, t, from, to), NotOwn(NotOwn(w.timers, from), to))
  BY <1>1, AcquireLemma
<1> HIDE DEF w1
<1>6. p \in Purse
  BY <1>1, DebitType, WorldsFields
<1> DEFINE X == [w.transfers EXCEPT ![t] = o]
           P == [w.purses EXCEPT ![from] = p]
           G == [w.registrations EXCEPT ![from] = p]
           A == Engaged(w.agents, t, from, to)
           T == NotOwn(NotOwn(w.timers, from), to)
<1>7. X \in [Transfers -> OfferRecord] /\ P \in [Agents -> Purse]
      /\ G \in [Agents -> Purse \cup {None}] /\ P[from] = p
  BY <1>1, <1>2, <1>6, WorldsFields
<1>8. w2 = [w1 EXCEPT !.transfers = X, !.purses = P]
  BY <1>5 DEF Updates, Worlds
<1> HIDE DEF p, X, P, A, T, w2
<1>9. /\ w2 \in Worlds /\ w2.agents = A /\ w2.timers = T /\ w2.transfers = X
      /\ w2.purses = P /\ w2.announcements = w.announcements
      /\ w2.registrations = w.registrations
  BY <1>5, <1>7, <1>8 DEF Updates, Worlds, A, T
<1>10. w3 = [w2 EXCEPT !.registrations = G]
  BY <1>7, <1>9 DEF persistLoggedInAgentState, Worlds
<1> HIDE DEF w3, G
<1>11. /\ w3 \in Worlds /\ w3.agents = A /\ w3.timers = T /\ w3.transfers = X
       /\ w3.purses = P /\ w3.announcements = w.announcements
       /\ w3.registrations = G
  BY <1>7, <1>9, <1>10 DEF Worlds
<1>12. TransferTimer(t, o) \in TimerRecord /\ TransferTimer(t, o).twin = FALSE
       /\ TransferTimer(t, o) \notin w3.timers
  BY <1>2, <1>11 DEF TransferTimer, Timer, TimerRecord, T, NotOwn
<1>13. Updates(w4, w3, w3.agents, w3.timers \cup {TransferTimer(t, o)})
  BY <1>11, <1>12, CreateLemma
<1> HIDE DEF w4
<1>14. /\ w4 \in Worlds /\ w4.agents = A /\ w4.timers = T \cup {TransferTimer(t, o)}
       /\ w4.transfers = X /\ w4.announcements = w.announcements
       /\ w4.purses = P /\ w4.registrations = G
  BY <1>11, <1>13 DEF Updates
<1>15. \E q \in OfferRecord :
         /\ q.status = "open" /\ q.from_agent_id = from /\ q.to_agent_id = to
         /\ w4.transfers = [w.transfers EXCEPT ![t] = q]
         /\ w4.timers = NotOwn(NotOwn(w.timers, from), to) \cup {TransferTimer(t, q)}
  BY <1>2, <1>14 DEF X, T
<1>16. Begun(w4, w, t, from, to)
  BY <1>14, <1>15 DEF Begun, A
<1>17. Control(w4, None)
  BY <1>1, <1>16, BeginOffer
<1>18. /\ \A a \in Agents : LoggedIn(w4, a) <=> LoggedIn(w, a)
       /\ w4.agents[from].state = "in_transfer" /\ w4.agents[to].state = "in_transfer"
       /\ \A a \in Agents \ {from, to} : w4.agents[a] = w.agents[a]
  <2> DEFINE s1 == [w.agents[from] EXCEPT !.active_transfer_id = t, !.state = "in_transfer"]
             s2 == [w.agents[to] EXCEPT !.pending_transfer_id = t, !.state = "in_transfer"]
  <2>1. s1.state = "in_transfer" /\ s2.state = "in_transfer"
    BY <1>1 DEF AgentRecord
  <2>2. A = [w.agents EXCEPT ![from] = s1, ![to] = s2]
    BY <1>1 DEF A, Engaged
  <2> HIDE DEF s1, s2
  <2>3. /\ w4.agents[from] = s1 /\ w4.agents[to] = s2
        /\ \A a \in Agents \ {from, to} : w4.agents[a] = w.agents[a]
    BY <1>1, <1>14, <2>2
  <2> QED
    BY <2>1, <2>3 DEF LoggedIn, Free
<1>19. /\ \A a \in Agents \ {from} : /\ w4.purses[a] = w.purses[a]
                                     /\ w4.registrations[a] = w.registrations[a]
       /\ w4.purses[from] = p /\ w4.registrations[from] = p /\ p # None
  BY <1>1, <1>6, <1>14, WorldsFields, WorldAssumption DEF P, G
<1>20. Keeps(w4, w) /\ Saved(w4)
  BY <1>1, <1>18, <1>19 DEF Keeps, Saved, Registered
<1>21. Good(clearExcludedInfoCommands(w4, from))
       /\ Keeps(clearExcludedInfoCommands(w4, from), w)
  BY <1>17, <1>20, ClearExcludedGood DEF Good, Keeps
<1>22. \A b \in Agents :
         clearExcludedInfoCommands(w4, from).agents[b].state = w4.agents[b].state
  BY <1>14, ExcludedStates
<1>23. /\ Steady(clearExcludedInfoCommands(w4, from), w, {from, to})
       /\ Steady(clearTransferState(w1, t, o), w, {from, to})
  BY <1>4, <1>18, <1>22 DEF Steady
<1>24. Opened(clearExcludedInfoCommands(w4, from), w, t, from, payload)
  <2>1. Updates(clearExcludedInfoCommands(w4, from), w4,
                [w4.agents EXCEPT ![from].excluded = {}], w4.timers)
    BY <1>14, ClearExcludedLemma
  <2>2. Handed(clearExcludedInfoCommands(w4, from), w, from,
               debit(w.purses[from], payload), t, o)
    BY <1>14, <2>1 DEF Updates, Handed, X, P, G, p
  <2> QED
    BY <1>2, <2>2 DEF Opened
<1> QED
  BY <1>3, <1>4, <1>18, <1>21, <1>22, <1>23, <1>24
============================================================================
