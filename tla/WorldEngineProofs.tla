------------------------- MODULE WorldEngineProofs -------------------------
(***************************************************************************)
(* The engine keeps its type invariant, the roles of open offers, the      *)
(* agreement of states and timers, the announcement queues and the copy of *)
(* memory on disk, its steps interrupt nobody they should not, and what a  *)
(* prompt offers is accepted, for every value of the constants.            *)
(***************************************************************************)
EXTENDS WorldProofs, Choices

(***************************************************************************)
(* Steps of one agent.                                                     *)
(***************************************************************************)

\* Only what plays no part in the invariant changes, or a window.
LEMMA CosmeticGood ==
  ASSUME NEW w, Good(w), NEW v \in Worlds,
         v.transfers = w.transfers, v.timers = w.timers,
         v.purses = w.purses, v.registrations = w.registrations, Waiting(v),
         \A a \in Agents :
           /\ v.agents[a].state = w.agents[a].state
           /\ v.agents[a].active_transfer_id = w.agents[a].active_transfer_id
           /\ v.agents[a].pending_transfer_id = w.agents[a].pending_transfer_id
  PROVE  Good(v) /\ Keeps(v, w)
<1>1. Control(v, None)
  BY Cosmetic DEF Good
<1>2. Saved(v) /\ Keeps(v, w)
  BY DEF Good, Saved, Keeps, LoggedIn, Registered
<1> QED
  BY <1>1, <1>2 DEF Good

\* Closing a window disturbs nothing.
LEMMA ClearWindowGood ==
  ASSUME NEW w, Good(w), NEW a \in Agents
  PROVE  LET v == clearActiveServerAnnouncement(w, a)
         IN  /\ Good(v) /\ Keeps(v, w) /\ v.agents[a].announced = FALSE
             /\ v.transfers = w.transfers /\ SameStores(v, w)
             /\ \A b \in Agents : v.agents[b].state = w.agents[b].state
<1> DEFINE v == clearActiveServerAnnouncement(w, a)
           r == [w.agents[a] EXCEPT !.announced = FALSE]
<1>1. /\ w \in Worlds /\ w.agents \in [Agents -> AgentRecord]
      /\ w.agents[a] \in AgentRecord /\ Waiting(w)
  BY WorldsFields DEF Good, Control
<1>2. /\ r \in AgentRecord /\ r.announced = FALSE /\ r.state = w.agents[a].state
      /\ r.active_transfer_id = w.agents[a].active_transfer_id
      /\ r.pending_transfer_id = w.agents[a].pending_transfer_id
      /\ r.pending_announcements = w.agents[a].pending_announcements
  BY <1>1 DEF AgentRecord
<1>3. v = [w EXCEPT !.agents = [w.agents EXCEPT ![a] = r]]
  BY <1>1 DEF clearActiveServerAnnouncement, Worlds
<1> HIDE DEF r, v
<1>4. [w.agents EXCEPT ![a] = r] \in [Agents -> AgentRecord]
  BY <1>1, <1>2
<1>5. Updates(v, w, [w.agents EXCEPT ![a] = r], w.timers)
  BY <1>1, <1>3, <1>4, AgentsLemma
<1>6. v.agents[a] = r /\ \A b \in Agents \ {a} : v.agents[b] = w.agents[b]
  BY <1>1, <1>5 DEF Updates
<1>7. \A b \in Agents :
        /\ v.agents[b].state = w.agents[b].state
        /\ v.agents[b].active_transfer_id = w.agents[b].active_transfer_id
        /\ v.agents[b].pending_transfer_id = w.agents[b].pending_transfer_id
        /\ v.agents[b].pending_announcements = w.agents[b].pending_announcements
  BY <1>2, <1>6
<1>8. \A b \in Agents : b # a => v.agents[b].announced = w.agents[b].announced
  BY <1>6
<1>9. v.agents[a].announced = FALSE
  BY <1>2, <1>6
<1>10. Waiting(v)
  BY <1>1, <1>5, <1>7, <1>8, <1>9 DEF Waiting, Updates
<1>11. Good(v) /\ Keeps(v, w)
  BY <1>5, <1>7, <1>10, CosmeticGood DEF Updates
<1>12. SameStores(v, w)
  BY <1>5 DEF SameStores, Updates
<1> QED
  BY <1>5, <1>7, <1>9, <1>11, <1>12 DEF Updates, v

\* An idle agent starts to move or to do something.
LEMMA StartGood ==
  ASSUME NEW w, Good(w), NEW a \in Agents, w.agents[a].state = "idle",
         NEW s, NEW type \in TimerTypes,
         NEW about \in Transfers \cup Actions \cup {None},
         \/ /\ s = "moving" /\ type = "movement" /\ about = None
            /\ ~w.agents[a].announced
         \/ /\ s = "in_action" /\ type \in ActivityTypes
            /\ type = "action" => about \in Actions
  PROVE  LET v == startActivity(w, a, s, type, about)
         IN  /\ Good(v) /\ Keeps(v, w) /\ v.purses = w.purses
             /\ v.registrations = w.registrations /\ Steady(v, w, {a})
<1> DEFINE v == startActivity(w, a, s, type, about)
           x == Timer(type, {a}, about)
           r == [w.agents[a] EXCEPT !.state = s, !.excluded = {}]
<1>1. /\ w \in Worlds /\ Control(w, None) /\ Saved(w) /\ s \in AgentStates
      /\ w.agents \in [Agents -> AgentRecord] /\ w.agents[a] \in AgentRecord
  BY WorldsFields DEF Good, Control, AgentStates
<1>2. Updates(v, w, [w.agents EXCEPT ![a].state = s, ![a].excluded = {}],
              Without(w.timers, a, {"idle_reminder", type}) \cup {x})
  BY <1>1, StartActivityLemma
<1> HIDE DEF v
<1>3. /\ r.state = s /\ r.active_transfer_id = w.agents[a].active_transfer_id
      /\ r.pending_transfer_id = w.agents[a].pending_transfer_id
      /\ r.announced = w.agents[a].announced
      /\ r.pending_announcements = w.agents[a].pending_announcements
  BY <1>1 DEF AgentRecord
<1>4. [w.agents EXCEPT ![a].state = s, ![a].excluded = {}] = [w.agents EXCEPT ![a] = r]
  BY <1>1
<1> HIDE DEF r
<1>5. v.agents[a] = r /\ \A b \in Agents \ {a} : v.agents[b] = w.agents[b]
  BY <1>1, <1>2, <1>4 DEF Updates
<1>6. /\ x.agent_ids = {a} /\ x.type = type /\ x.about = about
      /\ (s = "moving" => x = MV(a))
  BY DEF Timer, MV, ActivityTypes
<1>7. Backed(w, a) /\ IR(a).type = "idle_reminder"
  BY <1>1, IdleReminderType DEF Control, Roles
<1>8. r.active_transfer_id = None /\ r.pending_transfer_id = None
  BY <1>3, <1>7 DEF Backed, isInTransfer
<1>9. \A y \in w.timers : a \in y.agent_ids => y.type = "idle_reminder"
  BY <1>1, <1>7, OwnTimers
<1>10. v.timers = NotOwn(w.timers, a) \cup {x}
  BY <1>2, <1>9 DEF Updates, Without, NotOwn
<1> HIDE DEF x
<1>11. Timed(v, x)
  BY <1>3, <1>5, <1>6 DEF Timed, ActivityTypes
<1>12. \A y \in v.timers : a \in y.agent_ids => y = x
  BY <1>10 DEF NotOwn
<1>13. Busy(v, a)
  BY <1>3, <1>5, <1>6, <1>10, <1>12 DEF Busy, OneActivity
<1>14. Waiting(v)
  <2>1. w.agents[a].pending_announcements = {}
    BY <1>1 DEF Control, Waiting
  <2>2. ASSUME NEW b \in Agents
        PROVE  /\ v.agents[b].pending_announcements
                    = w.agents[b].pending_announcements
               /\ v.agents[b].announced = w.agents[b].announced
               /\ b # a => v.agents[b].state = w.agents[b].state
    BY <1>3, <1>5
  <2>3. v.agents[a].state = s /\ v.announcements = w.announcements
    BY <1>2, <1>3, <1>5 DEF Updates
  <2>4. s = "moving" => ~v.agents[a].announced
    BY <2>2
  <2> QED
    BY <1>1, <2>1, <2>2, <2>3, <2>4 DEF Control, Waiting
<1>15. Control(v, None)
  <2>1. v.agents[a].state # "in_transfer" /\ v.agents[a].active_transfer_id = None
        /\ v.agents[a].pending_transfer_id = None
    BY <1>3, <1>5, <1>8
  <2>2. \A y \in {x} : y.agent_ids = {a} /\ Timed(v, y)
    BY <1>6, <1>11
  <2>3. v \in Worlds /\ v.transfers = w.transfers
    BY <1>2 DEF Updates
  <2>4. \A b \in Agents \ {a} : v.agents[b] = w.agents[b]
    BY <1>5
  <2> DEFINE R == {x}
  <2>5. v.timers = NotOwn(w.timers, a) \cup R
    BY <1>10
  <2>6. \A y \in R : y.agent_ids = {a} /\ Timed(v, y)
    BY <2>2
  <2> HIDE DEF R
  <2> QED
    BY <1>1, <1>13, <1>14, <2>1, <2>3, <2>4, <2>5, <2>6, OwnStep
<1>16. \A b \in Agents : LoggedIn(v, b) <=> LoggedIn(w, b)
  BY <1>3, <1>5 DEF LoggedIn
<1>17. Steady(v, w, {a})
  BY <1>5, OthersSteady
<1> QED
  BY <1>1, <1>2, <1>15, <1>16, <1>17 DEF Good, Saved, Keeps, Registered, Updates, v

(***************************************************************************)
(* The interruption that precedes every command.                           *)
(***************************************************************************)

\* The end of an offer leaves its two agents idle and opens no other.
LEMMA EndedStates ==
  ASSUME NEW w, NEW t \in Transfers, Control(w, t), Live(w, t),
         NEW a \in Agents, NEW v, Ended(v, w, t, a)
  PROVE  /\ v.agents[w.transfers[t].from_agent_id].state = "idle"
         /\ v.agents[w.transfers[t].to_agent_id].state = "idle"
         /\ \A u \in Transfers :
              Live(v, u) => Live(w, u) /\ u # t /\ v.transfers[u] = w.transfers[u]
<1> DEFINE from == w.transfers[t].from_agent_id
           to == w.transfers[t].to_agent_id
           r1 == [w.agents[from] EXCEPT !.active_transfer_id = None, !.state = "idle"]
           r2 == [w.agents[to] EXCEPT !.pending_transfer_id = None, !.state = "idle"]
<1>1. /\ from \in Agents /\ to \in Agents /\ from # to
      /\ w.agents \in [Agents -> AgentRecord]
      /\ w.transfers \in [Transfers -> OfferRecord]
  BY LiveFacts, WorldsFields DEF Control
<1>2. r1.state = "idle" /\ r2.state = "idle"
  BY <1>1 DEF AgentRecord
<1>3. v.agents[from] = r1 /\ v.agents[to] = r2
  BY <1>1 DEF Ended, Released
<1>4. \A u \in Transfers :
        Live(v, u) => Live(w, u) /\ u # t /\ v.transfers[u] = w.transfers[u]
  BY <1>1 DEF Ended, Live
<1> HIDE DEF r1, r2
<1> QED
  BY <1>2, <1>3, <1>4

\* Interrupting the offer of an agent makes it idle and opens no offer.
LEMMA InterruptTransferLemma ==
  ASSUME NEW w, Good(w), NEW a \in Agents, NEW faults,
         w.agents[a].state = "in_transfer"
  PROVE  LET v == interruptTransfer(w, a, faults)
         IN  /\ Good(v) /\ Keeps(v, w) /\ v.agents[a].state = "idle"
             /\ \A t \in Transfers : Live(v, t) => Live(w, t)
             /\ Steady(v, w, {a})
             /\ \E t \in Transfers : Live(w, t) /\ Refunded(v, w, t, faults)
<1> DEFINE t == OwnTransfer(w, a)
           v == cancelTransfer(w, t, faults)
<1>1. Backed(w, a) /\ Control(w, None) /\ w.agents[a] \in AgentRecord
  BY WorldsFields DEF Good, Control, Roles
<1>2. /\ t \in Transfers /\ t # None /\ Live(w, t)
      /\ a \in {w.transfers[t].from_agent_id, w.transfers[t].to_agent_id}
  BY <1>1, WorldAssumption DEF Backed, isInTransfer, OwnTransfer, AgentRecord
<1>3. interruptTransfer(w, a, faults) = v
  BY <1>2 DEF interruptTransfer
<1> HIDE DEF t
<1>4. /\ Good(v) /\ Keeps(v, w) /\ Ended(v, w, t, w.transfers[t].from_agent_id)
      /\ Refunded(v, w, t, faults)
  BY <1>2, CancelTransferLemma
<1>5. Control(w, t) /\ w.transfers[t].from_agent_id \in Agents
  BY <1>1, <1>2, ControlSkip, LiveFacts
<1> HIDE DEF v
<1>6. v.agents[a].state = "idle" /\ \A u \in Transfers : Live(v, u) => Live(w, u)
  BY <1>2, <1>4, <1>5, EndedStates
<1>7. Steady(v, w, {})
  BY <1>2, <1>4, <1>5, EndedSteady
<1> QED
  BY <1>2, <1>3, <1>4, <1>6, <1>7 DEF Steady

\* Interrupting an activity takes its timer with it.
LEMMA InterruptActivityLemma ==
  ASSUME NEW w, Good(w), NEW a \in Agents, LoggedIn(w, a),
         w.agents[a].state \notin {"in_transfer", "moving"}
  PROVE  LET v == setState(interruptActivity(w, a), a, "idle")
         IN  /\ Good(v) /\ Keeps(v, w) /\ v.agents[a].state = "idle"
             /\ v.transfers = w.transfers /\ Steady(v, w, {a}) /\ SameStores(v, w)
<1> DEFINE u == interruptActivity(w, a)
           v == setState(u, a, "idle")
           A == [w.agents EXCEPT ![a].state = "idle"]
<1>1. /\ w \in Worlds /\ Control(w, None) /\ Saved(w)
      /\ w.agents \in [Agents -> AgentRecord] /\ w.agents[a] \in AgentRecord
  BY WorldsFields DEF Good, Control
<1>2. \E R \in SUBSET {IR(a)} :
        Updates(u, w, u.agents, NotOwn(w.timers, a) \cup R) /\ IdleAtMost(u, w, a)
  <2>1. CASE w.agents[a].state = "in_action"
    <3>1. OneActivity(w.timers, a) /\ ActivityTypes = {"action", "wait", "item_use"}
      BY <1>1 DEF Control, Timing, Busy, ActivityTypes
    <3>2. u = cancelActive(cancelActive(cancelActive(w, a, "action"), a, "wait"),
                           a, "item_use")
      BY <2>1 DEF interruptActivity
    <3> HIDE DEF u
    <3>3. Updates(u, w, u.agents, Without(w.timers, a, ActivityTypes))
          /\ IdleAtMost(u, w, a)
      BY <1>1, <3>1, <3>2, CancelThreeLemma
    <3>4. \A x \in w.timers : a \in x.agent_ids => x.type \in ActivityTypes
      BY <1>1, <2>1, OwnTimers
    <3>5. Without(w.timers, a, ActivityTypes) = NotOwn(w.timers, a) \cup {}
      BY <3>4 DEF Without, NotOwn
    <3>6. Updates(u, w, u.agents, NotOwn(w.timers, a) \cup {})
      BY <3>3, <3>5
    <3>7. {} \in SUBSET {IR(a)}
      OBVIOUS
    <3> QED
      BY <3>3, <3>6, <3>7
  <2>2. CASE w.agents[a].state # "in_action"
    <3> DEFINE R == {x \in w.timers : a \in x.agent_ids}
    <3>1. R \in SUBSET {IR(a)}
      BY <1>1, <2>2, OwnTimers
    <3>2. w.timers = NotOwn(w.timers, a) \cup R
      BY DEF NotOwn
    <3>3. u = w
      BY <2>2 DEF interruptActivity
    <3>4. Updates(w, w, w.agents, w.timers) /\ IdleAtMost(w, w, a)
      BY <1>1 DEF Updates, IdleAtMost
    <3> HIDE DEF R, u
    <3> QED
      BY <3>1, <3>2, <3>3, <3>4
  <2> QED
    BY <2>1, <2>2
<1> HIDE DEF u
<1>3. PICK R \in SUBSET {IR(a)} :
        Updates(u, w, u.agents, NotOwn(w.timers, a) \cup R) /\ IdleAtMost(u, w, a)
  BY <1>2
<1>4. Updates(v, u, [u.agents EXCEPT ![a].state = "idle"], u.timers)
  BY <1>3, SetStateLemma DEF Updates, AgentStates
<1>5. [A EXCEPT ![a].state = "idle"] = A
  BY <1>1
<1>6. [u.agents EXCEPT ![a].state = "idle"] = A
  BY <1>3, <1>5 DEF IdleAtMost
<1> HIDE DEF v, A
<1>7. /\ v \in Worlds /\ v.agents = A /\ v.timers = NotOwn(w.timers, a) \cup R
      /\ v.transfers = w.transfers /\ v.announcements = w.announcements
      /\ v.purses = w.purses /\ v.registrations = w.registrations
  BY <1>3, <1>4, <1>6 DEF Updates
<1>8. Control(v, None)
  BY <1>1, <1>3, <1>7, IdleStep DEF A
<1>9. A[a].state = "idle" /\ \A b \in Agents \ {a} : A[b] = w.agents[b]
  BY <1>1 DEF A, AgentRecord
<1>10. \A b \in Agents : LoggedIn(v, b) <=> LoggedIn(w, b)
  BY <1>7, <1>9 DEF LoggedIn
<1>11. Steady(v, w, {a})
  BY <1>7, <1>9, OthersSteady
<1>12. SameStores(v, w)
  BY <1>7 DEF SameStores
<1>13. Good(v) /\ Keeps(v, w)
  BY <1>1, <1>7, <1>8, <1>10 DEF Good, Saved, Keeps, Registered
<1> QED
  BY <1>7, <1>9, <1>11, <1>12, <1>13 DEF v, u

\* After the interruption of an actionable agent it is idle, its window closed.
LEMMA InterruptionLemma ==
  ASSUME NEW w, Good(w), NEW a \in Agents, NEW faults
  PROVE  LET v == handleServerAnnouncementInterruption(w, a, faults)
         IN  /\ Good(v) /\ Keeps(v, w)
             /\ requireActionableAgent(w, a) =>
                  v.agents[a].state = "idle" /\ ~v.agents[a].announced
             /\ \A t \in Transfers : Live(v, t) => Live(w, t)
             /\ Steady(v, w, {a}) /\ (~w.agents[a].announced => v = w)
             /\ \/ SameStores(v, w)
                \/ \E t \in Transfers : Live(w, t) /\ Refunded(v, w, t, faults)
<1> DEFINE v == handleServerAnnouncementInterruption(w, a, faults)
           u1 == interruptTransfer(w, a, faults)
           u2 == setState(interruptActivity(w, a), a, "idle")
<1>1. CASE ~LoggedIn(w, a) \/ ~w.agents[a].announced
  <2>1. v = w
    BY <1>1 DEF handleServerAnnouncementInterruption
  <2> QED
    BY <1>1, <2>1 DEF Keeps, requireActionableAgent, Steady, SameStores
<1>2. CASE LoggedIn(w, a) /\ w.agents[a].announced /\ w.agents[a].state = "in_transfer"
  <2>1. v = clearActiveServerAnnouncement(u1, a)
    BY <1>2 DEF handleServerAnnouncementInterruption
  <2>2. /\ Good(u1) /\ Keeps(u1, w) /\ u1.agents[a].state = "idle"
        /\ \A t \in Transfers : Live(u1, t) => Live(w, t)
        /\ Steady(u1, w, {a})
        /\ \E t \in Transfers : Live(w, t) /\ Refunded(u1, w, t, faults)
    BY <1>2, InterruptTransferLemma
  <2> HIDE DEF u1, v
  <2>3. /\ Good(v) /\ Keeps(v, u1) /\ v.agents[a].announced = FALSE
        /\ \A b \in Agents : v.agents[b].state = u1.agents[b].state
        /\ v.transfers = u1.transfers /\ SameStores(v, u1)
    BY <2>1, <2>2, ClearWindowGood
  <2>4. \E t \in Transfers : Live(w, t) /\ Refunded(v, w, t, faults)
    BY <2>2, <2>3 DEF Refunded, Handed, SameStores
  <2> QED
    BY <1>2, <2>2, <2>3, <2>4 DEF Keeps, Live, Steady, v
<1>3. CASE LoggedIn(w, a) /\ w.agents[a].announced /\ w.agents[a].state # "in_transfer"
  <2>1. v = clearActiveServerAnnouncement(u2, a)
    BY <1>3 DEF handleServerAnnouncementInterruption
  <2>a. w.agents[a].state # "moving"
    BY <1>3 DEF Good, Control, Waiting
  <2>2. /\ Good(u2) /\ Keeps(u2, w) /\ u2.agents[a].state = "idle"
        /\ u2.transfers = w.transfers /\ Steady(u2, w, {a}) /\ SameStores(u2, w)
    BY <1>3, <2>a, InterruptActivityLemma
  <2> HIDE DEF u2, v
  <2>3. /\ Good(v) /\ Keeps(v, u2) /\ v.agents[a].announced = FALSE
        /\ \A b \in Agents : v.agents[b].state = u2.agents[b].state
        /\ v.transfers = u2.transfers /\ SameStores(v, u2)
    BY <2>1, <2>2, ClearWindowGood
  <2> QED
    BY <1>3, <2>2, <2>3 DEF Keeps, Live, Steady, SameStores, v
<1> QED
  BY <1>1, <1>2, <1>3

(***************************************************************************)
(* Commands.                                                               *)
(***************************************************************************)
LEMMA MoveLemma ==
  ASSUME NEW w, Good(w), NEW a \in Agents, NEW faults, requireActionableAgent(w, a)
  PROVE  LET v == executeValidatedMove(
                    handleServerAnnouncementInterruption(w, a, faults), a)
         IN  Good(v) /\ Keeps(v, w) /\ Steady(v, w, {a})
<1> DEFINE u == handleServerAnnouncementInterruption(w, a, faults)
           v == executeValidatedMove(u, a)
<1>1. /\ Good(u) /\ Keeps(u, w) /\ Steady(u, w, {a})
      /\ u.agents[a].state = "idle" /\ ~u.agents[a].announced
  BY InterruptionLemma
<1>2. v = startActivity(u, a, "moving", "movement", None)
  BY DEF executeValidatedMove
<1> HIDE DEF u
<1>3. Good(startActivity(u, a, "moving", "movement", None))
      /\ Keeps(startActivity(u, a, "moving", "movement", None), u)
      /\ Steady(startActivity(u, a, "moving", "movement", None), u, {a})
  BY <1>1, StartGood DEF TimerTypes
<1> HIDE DEF v
<1> QED
  BY <1>1, <1>2, <1>3, SteadyTwice DEF Keeps, u, v

\* Starting an activity from idle leaves the world in order.
LEMMA BusyLemma ==
  ASSUME NEW w, Good(w), NEW a \in Agents, w.agents[a].state = "idle",
         NEW type \in ActivityTypes, NEW about \in Actions \cup {None},
         type = "action" => about \in Actions
  PROVE  LET v == startActivity(w, a, "in_action", type, about)
         IN  Good(v) /\ Keeps(v, w) /\ Steady(v, w, {a})
<1>1. type \in TimerTypes /\ about \in Transfers \cup Actions \cup {None}
  BY DEF TimerTypes
<1> QED
  BY <1>1, StartGood

\* executeWait leaves the world in order.
LEMMA WaitLemma ==
  ASSUME NEW w, Good(w), NEW a \in Agents, NEW faults, requireActionableAgent(w, a)
  PROVE  LET v == executeValidatedWait(
                    handleServerAnnouncementInterruption(w, a, faults), a)
         IN  Good(v) /\ Keeps(v, w) /\ Steady(v, w, {a})
<1> DEFINE u == handleServerAnnouncementInterruption(w, a, faults)
<1>1. /\ Good(u) /\ Keeps(u, w) /\ Steady(u, w, {a})
      /\ u.agents[a].state = "idle" /\ ~u.agents[a].announced
  BY InterruptionLemma
<1> HIDE DEF u
<1>2. Good(startActivity(u, a, "in_action", "wait", None))
      /\ Keeps(startActivity(u, a, "in_action", "wait", None), u)
      /\ Steady(startActivity(u, a, "in_action", "wait", None), u, {a})
  BY <1>1, BusyLemma DEF ActivityTypes
<1> QED
  BY <1>1, <1>2, SteadyTwice DEF Keeps, u, executeValidatedWait

\* useItem leaves the world in order, venue items included.
LEMMA UseItemLemma ==
  ASSUME NEW w, Good(w), NEW a \in Agents, NEW faults,
         requireActionableAgent(w, a), NEW item_type
  PROVE  LET v == executeValidatedUseItem(
                    handleServerAnnouncementInterruption(w, a, faults), a, item_type)
         IN  Good(v) /\ Keeps(v, w) /\ Steady(v, w, {a})
<1> DEFINE u == handleServerAnnouncementInterruption(w, a, faults)
           v == executeValidatedUseItem(u, a, item_type)
<1>1. /\ Good(u) /\ Keeps(u, w) /\ Steady(u, w, {a})
      /\ u.agents[a].state = "idle" /\ ~u.agents[a].announced
  BY InterruptionLemma
<1> HIDE DEF u
<1>2. ASSUME item_type = "venue"
      PROVE  Good(v) /\ Keeps(v, u) /\ Steady(v, u, {a})
  <2>1. v = clearExcludedInfoCommands(u, a)
    BY <1>2 DEF executeValidatedUseItem
  <2> HIDE DEF v
  <2>2. Good(v) /\ Keeps(v, u)
    BY <1>1, <2>1, ClearExcludedGood
  <2>3. \A b \in Agents : v.agents[b].state = u.agents[b].state
    BY <1>1, <2>1, ExcludedStates DEF Good, Control
  <2> QED
    BY <2>2, <2>3, OthersSteady
<1>3. ASSUME item_type # "venue"
      PROVE  Good(v) /\ Keeps(v, u) /\ Steady(v, u, {a})
  <2>1. v = startActivity(u, a, "in_action", "item_use", None)
    BY <1>3 DEF executeValidatedUseItem
  <2> HIDE DEF v
  <2> QED
    BY <1>1, <2>1, BusyLemma DEF ActivityTypes
<1> HIDE DEF v
<1>4. Good(v) /\ Keeps(v, u) /\ Steady(v, u, {a})
  BY <1>2, <1>3
<1> QED
  BY <1>1, <1>4, SteadyTwice DEF Keeps, u, v

\* Agent a spends or earns: memory and disk still agree if its write is sure.
Settled(v, w, a) ==
  /\ v \in Worlds /\ v.agents = w.agents /\ v.timers = w.timers
  /\ v.transfers = w.transfers /\ v.announcements = w.announcements
  /\ \A b \in Agents \ {a} : /\ v.purses[b] = w.purses[b]
                             /\ v.registrations[b] = w.registrations[b]
  /\ Registered(v, a)
  /\ "activity" \notin FailingWrites => v.registrations[a] = v.purses[a]

\* settleActivity changes one purse, which a failed write leaves ahead of disk.
LEMMA SettleLemma ==
  ASSUME NEW w \in Worlds, NEW a \in Agents, Registered(w, a), NEW p \in Purse,
         NEW faults, <<"activity", a>> \in faults => "activity" \in FailingWrites
  PROVE  /\ Settled(settleActivity(w, a, p, faults), w, a)
         /\ settleActivity(w, a, p, faults).purses[a] = p
         /\ settleActivity(w, a, p, faults).registrations[a]
              \in {p, w.registrations[a]}
<1> DEFINE P == [w.purses EXCEPT ![a] = p]
           R == [w.registrations EXCEPT ![a] = p]
           w1 == [w EXCEPT !.purses = P]
           w2 == [w1 EXCEPT !.registrations = R]
<1>1. /\ P \in [Agents -> Purse] /\ R \in [Agents -> Purse \cup {None}]
      /\ P[a] = p /\ R[a] = p /\ p # None
      /\ \A b \in Agents \ {a} : P[b] = w.purses[b] /\ R[b] = w.registrations[b]
  BY WorldsFields, WorldAssumption
<1>2. [w EXCEPT !.purses[a] = p] = w1
  BY DEF Worlds
<1> HIDE DEF P
<1>3. /\ w1 \in Worlds /\ w1.agents = w.agents /\ w1.timers = w.timers
      /\ w1.transfers = w.transfers /\ w1.announcements = w.announcements
      /\ w1.purses = P /\ w1.registrations = w.registrations
  BY <1>1 DEF Worlds
<1> HIDE DEF w1
<1>4. persistLoggedInAgentState(w1, a) = w2
  BY <1>1, <1>3 DEF persistLoggedInAgentState, Worlds
<1> HIDE DEF R
<1>5. /\ w2 \in Worlds /\ w2.agents = w.agents /\ w2.timers = w.timers
      /\ w2.transfers = w.transfers /\ w2.announcements = w.announcements
      /\ w2.purses = P /\ w2.registrations = R
  BY <1>1, <1>3 DEF Worlds
<1> HIDE DEF w2
<1>6. CASE <<"activity", a>> \in faults
  <2>1. settleActivity(w, a, p, faults) = w1
    BY <1>2, <1>6 DEF settleActivity
  <2> QED
    BY <1>1, <1>3, <1>6, <2>1 DEF Settled, Registered
<1>7. CASE <<"activity", a>> \notin faults
  <2>1. settleActivity(w, a, p, faults) = w2
    BY <1>2, <1>4, <1>7 DEF settleActivity
  <2> QED
    BY <1>1, <1>5, <2>1 DEF Settled, Registered
<1> QED
  BY <1>6, <1>7

\* A settled purse disturbs nothing.
LEMMA SettledGood ==
  ASSUME NEW w, Good(w), NEW a \in Agents, NEW v, Settled(v, w, a)
  PROVE  Good(v) /\ Keeps(v, w)
<1>1. Waiting(v)
  BY DEF Good, Control, Waiting, Settled
<1>2. Control(v, None)
  BY <1>1, Cosmetic DEF Good, Settled
<1>3. Saved(v) /\ Keeps(v, w)
  BY DEF Good, Saved, Keeps, LoggedIn, Registered, Settled
<1> QED
  BY <1>2, <1>3 DEF Good

\* A purse that is not touched is settled.
LEMMA SettledSelf ==
  ASSUME NEW w, Good(w), NEW a \in Agents, LoggedIn(w, a)
  PROVE  Settled(w, w, a) /\ Registered(w, a)
BY DEF Good, Control, Saved, Settled

\* executeAction leaves the world in order, whether its cost is written or not.
LEMMA ActionLemma ==
  ASSUME NEW w, Good(w), NEW a \in Agents, NEW x \in Actions, NEW faults,
         <<"activity", a>> \in faults => "activity" \in FailingWrites,
         requireActionableAgent(w, a)
  PROVE  LET v == executeValidatedAction(
                    handleServerAnnouncementInterruption(w, a, faults), a, x, faults)
         IN  Good(v) /\ Keeps(v, w) /\ Steady(v, w, {a})
<1> DEFINE u == handleServerAnnouncementInterruption(w, a, faults)
           u1 == payForAction(u, a, x, faults)
           u2 == startActivity(u1, a, "in_action", "action", x)
           v == executeValidatedAction(u, a, x, faults)
<1>1. /\ Good(u) /\ Keeps(u, w) /\ Steady(u, w, {a})
      /\ u.agents[a].state = "idle" /\ ~u.agents[a].announced
  BY InterruptionLemma
<1>2. v = [u2 EXCEPT !.agents[a].last_action_id = x]
  BY DEF executeValidatedAction
<1> HIDE DEF u, v
<1>3. u \in Worlds /\ u.purses[a] \in Purse /\ LoggedIn(u, a)
  BY <1>1, WorldsFields DEF Good, Control, LoggedIn
<1>4. Catalogue[x].cost \in Purse
  BY WorldAssumption
<1>5. Settled(u1, u, a)
  BY <1>1, <1>3, <1>4, SettledSelf, SettleLemma, DebitType DEF payForAction
<1> HIDE DEF u1
<1>6. Good(u1) /\ Keeps(u1, u) /\ u1.agents[a].state = "idle"
  BY <1>1, <1>5, SettledGood DEF Settled
<1>7. Good(u2) /\ Keeps(u2, u1) /\ Steady(u2, u1, {a})
  BY <1>6, BusyLemma DEF ActivityTypes
<1> HIDE DEF u2
<1> DEFINE r == [u2.agents[a] EXCEPT !.last_action_id = x]
<1>8. /\ u2 \in Worlds /\ u2.agents \in [Agents -> AgentRecord]
      /\ u2.agents[a] \in AgentRecord /\ Waiting(u2)
  BY <1>7, WorldsFields DEF Good, Control
<1>9. /\ r \in AgentRecord /\ r.state = u2.agents[a].state
      /\ r.active_transfer_id = u2.agents[a].active_transfer_id
      /\ r.pending_transfer_id = u2.agents[a].pending_transfer_id
      /\ r.announced = u2.agents[a].announced
      /\ r.pending_announcements = u2.agents[a].pending_announcements
  BY <1>8 DEF AgentRecord
<1>10. v = [u2 EXCEPT !.agents = [u2.agents EXCEPT ![a] = r]]
  BY <1>2, <1>8 DEF Worlds
<1> HIDE DEF r
<1>11. [u2.agents EXCEPT ![a] = r] \in [Agents -> AgentRecord]
  BY <1>8, <1>9
<1>12. Updates(v, u2, [u2.agents EXCEPT ![a] = r], u2.timers)
  BY <1>8, <1>10, <1>11, AgentsLemma
<1>13. v.agents[a] = r /\ \A b \in Agents \ {a} : v.agents[b] = u2.agents[b]
  BY <1>8, <1>12 DEF Updates
<1>14. \A b \in Agents :
         /\ v.agents[b].state = u2.agents[b].state
         /\ v.agents[b].active_transfer_id = u2.agents[b].active_transfer_id
         /\ v.agents[b].pending_transfer_id = u2.agents[b].pending_transfer_id
         /\ v.agents[b].announced = u2.agents[b].announced
         /\ v.agents[b].pending_announcements = u2.agents[b].pending_announcements
  BY <1>9, <1>13
<1>15. Waiting(v)
  BY <1>8, <1>12, <1>14 DEF Waiting, Updates
<1>16. Good(v) /\ Keeps(v, u2)
  BY <1>7, <1>12, <1>14, <1>15, CosmeticGood DEF Updates
<1>17. Steady(u1, u, {a}) /\ Steady(v, u2, {a})
  BY <1>5, <1>14 DEF Settled, Steady
<1>18. Steady(v, w, {a})
  BY <1>1, <1>7, <1>17 DEF Steady
<1> QED
  BY <1>1, <1>6, <1>7, <1>16, <1>18 DEF Keeps, u, v

\* A refused action interrupts its agent and leaves the world in order.
LEMMA RejectActionLemma ==
  ASSUME NEW w, Good(w), NEW a \in Agents, NEW faults
  PROVE  LET v == handleServerAnnouncementInterruption(
                    clearExcludedInfoCommands(w, a), a, faults)
         IN  Good(v) /\ Keeps(v, w) /\ Steady(v, w, {a})
<1> DEFINE u == clearExcludedInfoCommands(w, a)
           v == handleServerAnnouncementInterruption(u, a, faults)
<1>1. Good(u) /\ Keeps(u, w) /\ \A b \in Agents : u.agents[b].state = w.agents[b].state
  BY ClearExcludedGood, ExcludedStates DEF Good, Control
<1> HIDE DEF u
<1>2. Good(v) /\ Keeps(v, u) /\ Steady(v, u, {a})
  BY <1>1, InterruptionLemma
<1> HIDE DEF v
<1> QED
  BY <1>1, <1>2 DEF Keeps, Steady, u, v

(***************************************************************************)
(* Timers.                                                                 *)
(***************************************************************************)

\* The timer of an activity has gone and what it cost or earned is settled.
LEMMA CompleteGood ==
  ASSUME NEW w, Good(w), NEW a \in Agents, NEW x \in w.timers, a \in x.agent_ids,
         x.type \in ActivityTypes, NEW u, Settled(u, cancel(w, x), a)
  PROVE  LET v == becomeIdle(u, a)
         IN  /\ Good(v) /\ Keeps(v, w) /\ Steady(v, w, {a})
             /\ w.agents[a].state # "moving"
<1> DEFINE v == becomeIdle(u, a)
           T == w.timers \ {x}
<1>1. /\ w \in Worlds /\ Control(w, None) /\ Saved(w)
      /\ w.agents \in [Agents -> AgentRecord] /\ w.agents[a] \in AgentRecord
  BY WorldsFields DEF Good, Control
<1>2. w.agents[a].state = "in_action"
  BY <1>1 DEF Control, Timing, Timed
<1>3. T \in SUBSET TimerRecord
  BY <1>1, WorldsFields
<1>4. Updates(cancel(w, x), w, w.agents, T)
  <2>1. cancel(w, x) = [w EXCEPT !.timers = T]
    BY DEF cancel, Worlds
  <2> QED
    BY <1>1, <1>3, <2>1, TimersLemma
<1>5. /\ u \in Worlds /\ u.agents = w.agents /\ u.timers = T
      /\ u.transfers = w.transfers /\ u.announcements = w.announcements
      /\ \A b \in Agents \ {a} : /\ u.purses[b] = w.purses[b]
                                 /\ u.registrations[b] = w.registrations[b]
      /\ Registered(u, a)
      /\ "activity" \notin FailingWrites => u.registrations[a] = u.purses[a]
  BY <1>4 DEF Settled, Updates
<1>6. Updates(v, u, [u.agents EXCEPT ![a].state = "idle"],
              Without(u.timers, a, {"idle_reminder"}) \cup {IR(a)})
  BY <1>5, BecomeIdleLemma
<1>7. \A y \in w.timers : a \in y.agent_ids => y = x
  <2>1. OneActivity(w.timers, a)
    BY <1>1 DEF Control, Timing, Busy
  <2>2. \A y \in w.timers : a \in y.agent_ids => y.type \in ActivityTypes
    BY <1>1, <1>2, OwnTimers
  <2> QED
    BY <2>1, <2>2 DEF OneActivity
<1>8. Without(T, a, {"idle_reminder"}) = NotOwn(w.timers, a)
  BY <1>7 DEF Without, NotOwn
<1> HIDE DEF v, T
<1> DEFINE R == {IR(a)}
<1>9. /\ v \in Worlds /\ v.agents = [w.agents EXCEPT ![a].state = "idle"]
      /\ v.timers = NotOwn(w.timers, a) \cup R
      /\ v.transfers = w.transfers /\ v.announcements = w.announcements
      /\ v.purses = u.purses /\ v.registrations = u.registrations
  BY <1>5, <1>6, <1>8 DEF Updates
<1>10. R \in SUBSET {IR(a)}
  OBVIOUS
<1> HIDE DEF R
<1>11. Control(v, None)
  BY <1>1, <1>2, <1>9, <1>10, IdleStep
<1>12. v.agents[a].state = "idle" /\ \A b \in Agents \ {a} : v.agents[b] = w.agents[b]
  BY <1>1, <1>9 DEF AgentRecord
<1>13. \A b \in Agents : LoggedIn(v, b) <=> LoggedIn(w, b)
  BY <1>2, <1>12 DEF LoggedIn
<1>14. Keeps(v, w)
  BY <1>5, <1>9, <1>13 DEF Keeps, Registered
<1>15. Saved(v)
  BY <1>1, <1>5, <1>9, <1>13 DEF Saved, Registered
<1>16. Steady(v, w, {a})
  BY <1>12, OthersSteady
<1> QED
  BY <1>2, <1>11, <1>14, <1>15, <1>16 DEF Good, v

\* The agent of a pending activity timer is logged in, and may be settled.
LEMMA ActivityFired ==
  ASSUME NEW w, Good(w), NEW a \in Agents, NEW x \in w.timers, a \in x.agent_ids,
         x.type \in ActivityTypes
  PROVE  /\ w.agents[a].state = "in_action" /\ LoggedIn(w, a)
         /\ cancel(w, x) \in Worlds /\ w.purses[a] \in Purse
         /\ cancel(w, x).agents = w.agents /\ cancel(w, x).purses = w.purses
         /\ Registered(cancel(w, x), a)
         /\ Settled(cancel(w, x), cancel(w, x), a)
<1> DEFINE T == w.timers \ {x}
<1>1. /\ w \in Worlds /\ w.timers \in SUBSET TimerRecord /\ w.purses[a] \in Purse
  BY WorldsFields DEF Good, Control
<1>2. cancel(w, x) = [w EXCEPT !.timers = T]
  BY <1>1 DEF cancel, Worlds
<1>3. T \in SUBSET TimerRecord
  BY <1>1
<1>4. Updates(cancel(w, x), w, w.agents, T)
  BY <1>1, <1>2, <1>3, TimersLemma
<1>5. w.agents[a].state = "in_action" /\ LoggedIn(w, a)
  BY DEF Good, Control, Timing, Timed, LoggedIn
<1>6. /\ Registered(w, a)
      /\ "activity" \notin FailingWrites => w.registrations[a] = w.purses[a]
  BY <1>5 DEF Good, Saved
<1> QED
  BY <1>1, <1>4, <1>5, <1>6 DEF Updates, Registered, Settled

\* The end of a wait leaves the world in order.
LEMMA WaitCompletedLemma ==
  ASSUME NEW w, Good(w), NEW a \in Agents, NEW x \in w.timers, a \in x.agent_ids,
         x.type = "wait"
  PROVE  LET v == handleWaitCompleted(w, x, a)
         IN  /\ Good(v) /\ Keeps(v, w) /\ Steady(v, w, {a})
             /\ w.agents[a].state # "moving"
<1>1. x.type \in ActivityTypes
  BY DEF ActivityTypes
<1> QED
  BY <1>1, ActivityFired, CompleteGood DEF handleWaitCompleted

\* The end of an action leaves the world in order, rewards included.
LEMMA ActionCompletedLemma ==
  ASSUME NEW w, Good(w), NEW a \in Agents, NEW x \in w.timers, a \in x.agent_ids,
         x.type = "action", NEW faults,
         <<"activity", a>> \in faults => "activity" \in FailingWrites
  PROVE  LET v == handleActionCompleted(w, x, a, faults)
         IN  /\ Good(v) /\ Keeps(v, w) /\ Steady(v, w, {a})
             /\ w.agents[a].state # "moving"
<1> DEFINE u == cancel(w, x)
           y == rewardAction(u, a, x.about, faults)
<1>1. x.type \in ActivityTypes
  BY DEF ActivityTypes
<1>2. /\ LoggedIn(w, a) /\ u \in Worlds /\ u.purses[a] \in Purse
      /\ Registered(u, a) /\ Settled(u, u, a)
  BY <1>1, ActivityFired
<1>a. x.about \in Actions
  BY DEF Good, Control, Timing, Timed
<1>3. Catalogue[x.about].reward \in Purse
  BY <1>a, WorldAssumption
<1> HIDE DEF u
<1>4. Settled(y, u, a)
  BY <1>2, <1>3, SettleLemma, CreditType DEF rewardAction
<1>5. handleActionCompleted(w, x, a, faults) = becomeIdle(y, a)
  BY <1>2 DEF handleActionCompleted, u
<1> HIDE DEF y
<1> QED
  BY <1>1, <1>4, <1>5, CompleteGood DEF u

\* The end of an item use leaves the world in order.
LEMMA ItemUseCompletedLemma ==
  ASSUME NEW w, Good(w), NEW a \in Agents, NEW x \in w.timers, a \in x.agent_ids,
         x.type = "item_use", NEW faults,
         <<"activity", a>> \in faults => "activity" \in FailingWrites
  PROVE  LET v == handleItemUseCompleted(w, x, a, faults)
         IN  /\ Good(v) /\ Keeps(v, w) /\ Steady(v, w, {a})
             /\ w.agents[a].state # "moving"
<1> DEFINE u == cancel(w, x)
           p == debit(w.purses[a], [money |-> 0, items |-> 1])
           y == settleActivity(u, a, p, faults)
<1>1. x.type \in ActivityTypes
  BY DEF ActivityTypes
<1>2. /\ w.agents[a].state = "in_action" /\ u \in Worlds /\ w.purses[a] \in Purse
      /\ Registered(u, a)
  BY <1>1, ActivityFired
<1>3. [money |-> 0, items |-> 1] \in Purse
  BY DEF Purse
<1>4. p \in Purse
  BY <1>2, <1>3, DebitType
<1>5. handleItemUseCompleted(w, x, a, faults) = becomeIdle(y, a)
  BY <1>2 DEF handleItemUseCompleted
<1> HIDE DEF u, p
<1>6. Settled(y, u, a)
  BY <1>2, <1>4, SettleLemma
<1> HIDE DEF y
<1> QED
  BY <1>1, <1>5, <1>6, CompleteGood DEF u

\* A reminder that fires starts again at once: the world is as before.
LEMMA IdleReminderFiredLemma ==
  ASSUME NEW w, Good(w), NEW a \in Agents, NEW x \in w.timers, a \in x.agent_ids,
         x.type = "idle_reminder"
  PROVE  LET v == handleIdleReminderFired(w, x, a)
         IN  Good(v) /\ Keeps(v, w) /\ v.agents = w.agents
<1> DEFINE u == cancel(w, x)
           v == create(u, IR(a))
           T == w.timers \ {x}
<1>1. /\ w \in Worlds /\ w.timers \in SUBSET TimerRecord
  BY WorldsFields DEF Good, Control
<1>2. x = IR(a) /\ LoggedIn(w, a)
  BY DEF Good, Control, Timing, Timed, LoggedIn
<1>3. T \in SUBSET TimerRecord /\ u = [w EXCEPT !.timers = T]
  BY <1>1 DEF cancel, Worlds
<1>4. Updates(u, w, w.agents, T)
  BY <1>1, <1>3, TimersLemma
<1> HIDE DEF u
<1>5. IR(a) \in TimerRecord /\ IR(a).twin = FALSE /\ IR(a) \notin u.timers
  BY <1>2, <1>4, IdleReminderType DEF Updates
<1>6. Updates(v, u, u.agents, u.timers \cup {IR(a)})
  BY <1>4, <1>5, CreateLemma DEF Updates
<1>7. Updates(v, w, w.agents, w.timers)
  BY <1>2, <1>4, <1>6 DEF Updates
<1>8. handleIdleReminderFired(w, x, a) = v
  BY <1>2 DEF handleIdleReminderFired, IR, u
<1> HIDE DEF v
<1>9. Waiting(v)
  BY <1>7 DEF Updates, Good, Control, Waiting
<1> QED
  BY <1>7, <1>8, <1>9, CosmeticGood DEF Updates

\* Delivering what an agent missed: its queue is empty, on both sides.
Delivered(v, u, a) ==
  /\ v \in Worlds /\ v.timers = u.timers /\ v.transfers = u.transfers
  /\ v.purses = u.purses /\ v.registrations = u.registrations
  /\ \A b \in Agents \ {a} : v.agents[b] = u.agents[b]
  /\ v.agents[a].state = u.agents[a].state
  /\ v.agents[a].active_transfer_id = u.agents[a].active_transfer_id
  /\ v.agents[a].pending_transfer_id = u.agents[a].pending_transfer_id
  /\ v.agents[a].pending_announcements = {}
  /\ (\E n \in u.agents[a].pending_announcements : u.announcements[n] # {})
       => v.agents[a].announced
  /\ \A n \in Announcements :
       v.announcements[n] = IF n \in u.agents[a].pending_announcements
                            THEN u.announcements[n] \ {a} ELSE u.announcements[n]

\* On arrival an agent is awaited by no announcement any more.
LEMMA DeliverLemma ==
  ASSUME NEW u \in Worlds, NEW a \in Agents
  PROVE  Delivered(handlePendingServerAnnouncements(u, a), u, a)
<1> DEFINE r == [u.agents[a] EXCEPT !.pending_announcements = {}]
           q == [r EXCEPT !.announced = TRUE, !.excluded = {}]
           N == [n \in Announcements |->
                   IF n \in u.agents[a].pending_announcements
                   THEN u.announcements[n] \ {a} ELSE u.announcements[n]]
           v1 == [u EXCEPT !.agents = [u.agents EXCEPT ![a] = r],
                           !.announcements = N]
           v2 == [v1 EXCEPT !.agents[a].announced = TRUE]
           v3 == [u EXCEPT !.agents = [u.agents EXCEPT ![a] = q],
                           !.announcements = N]
<1>1. /\ u.agents \in [Agents -> AgentRecord] /\ u.agents[a] \in AgentRecord
      /\ u.announcements \in [Announcements -> SUBSET Agents]
  BY WorldsFields
<1>2. /\ r \in AgentRecord /\ q \in AgentRecord
      /\ r.state = u.agents[a].state /\ q.state = u.agents[a].state
      /\ r.active_transfer_id = u.agents[a].active_transfer_id
      /\ q.active_transfer_id = u.agents[a].active_transfer_id
      /\ r.pending_transfer_id = u.agents[a].pending_transfer_id
      /\ q.pending_transfer_id = u.agents[a].pending_transfer_id
      /\ r.pending_announcements = {} /\ q.pending_announcements = {}
      /\ q.announced
  BY <1>1 DEF AgentRecord
<1>3. N \in [Announcements -> SUBSET Agents]
  BY <1>1
<1>4. [u EXCEPT !.agents[a].pending_announcements = {},
                !.announcements = [n \in Announcements |->
                   IF n \in u.agents[a].pending_announcements
                   THEN @[n] \ {a} ELSE @[n]]] = v1
  BY <1>1 DEF Worlds
<1>5. clearExcludedInfoCommands(v2, a) = v3
  BY <1>1, ZenonT(40) DEF clearExcludedInfoCommands, Worlds
<1> HIDE DEF v2
<1>6. handlePendingServerAnnouncements(u, a)
        = IF \A n \in u.agents[a].pending_announcements : u.announcements[n] = {}
          THEN v1 ELSE v3
  BY <1>4, <1>5 DEF handlePendingServerAnnouncements, v2
<1> HIDE DEF r, q
<1>7. ASSUME \A n \in u.agents[a].pending_announcements : u.announcements[n] = {}
      PROVE  Delivered(v1, u, a)
  <2>1. [u.agents EXCEPT ![a] = r] \in [Agents -> AgentRecord]
    BY <1>1, <1>2
  <2>2. v1 \in Worlds
    BY <1>3, <2>1 DEF Worlds
  <2>3. /\ v1.agents = [u.agents EXCEPT ![a] = r] /\ v1.announcements = N
        /\ v1.timers = u.timers /\ v1.transfers = u.transfers
        /\ v1.purses = u.purses /\ v1.registrations = u.registrations
    BY DEF Worlds
  <2> HIDE DEF v1
  <2> QED
    BY <1>1, <1>2, <1>7, <2>2, <2>3 DEF Delivered
<1>8. Delivered(v3, u, a)
  <2>1. [u.agents EXCEPT ![a] = q] \in [Agents -> AgentRecord]
    BY <1>1, <1>2
  <2>2. v3 \in Worlds
    BY <1>3, <2>1 DEF Worlds
  <2>3. /\ v3.agents = [u.agents EXCEPT ![a] = q] /\ v3.announcements = N
        /\ v3.timers = u.timers /\ v3.transfers = u.transfers
        /\ v3.purses = u.purses /\ v3.registrations = u.registrations
    BY DEF Worlds
  <2> HIDE DEF v3
  <2> QED
    BY <1>1, <1>2, <2>2, <2>3 DEF Delivered
<1> HIDE DEF v1, v3
<1> QED
  BY <1>6, <1>7, <1>8

\* An arrival leaves the world in order, its announcements delivered.
LEMMA MovementCompletedLemma ==
  ASSUME NEW w, Good(w), NEW a \in Agents, NEW x \in w.timers, a \in x.agent_ids,
         x.type = "movement"
  PROVE  LET v == handleMovementCompleted(w, x, a)
         IN  /\ Good(v) /\ Keeps(v, w) /\ v.agents[a].state = "idle"
             /\ \A b \in Agents \ {a} : v.agents[b] = w.agents[b]
             /\ w.agents[a].pending_announcements # {} => v.agents[a].announced
<1> DEFINE u1 == cancel(w, x)
           u == becomeIdle(u1, a)
           v == handlePendingServerAnnouncements(u, a)
           T == w.timers \ {x}
           r == [w.agents[a] EXCEPT !.state = "idle"]
           R == {IR(a)}
<1>1. /\ w \in Worlds /\ Control(w, None) /\ Saved(w)
      /\ w.agents \in [Agents -> AgentRecord] /\ w.agents[a] \in AgentRecord
      /\ w.timers \in SUBSET TimerRecord
  BY WorldsFields DEF Good, Control
<1>2. w.agents[a].state = "moving" /\ x = MV(a) /\ Backed(w, a)
  BY <1>1 DEF Control, Timing, Timed, Roles
<1>3. T \in SUBSET TimerRecord /\ u1 = [w EXCEPT !.timers = T]
  BY <1>1 DEF cancel, Worlds
<1>4. Updates(u1, w, w.agents, T)
  BY <1>1, <1>3, TimersLemma
<1>5. handleMovementCompleted(w, x, a) = v
  BY <1>2 DEF handleMovementCompleted, LoggedIn
<1> HIDE DEF u1, T
<1>6. Updates(u, u1, [u1.agents EXCEPT ![a].state = "idle"],
              Without(u1.timers, a, {"idle_reminder"}) \cup {IR(a)})
  BY <1>4, BecomeIdleLemma DEF Updates
<1>7. \A y \in w.timers : a \in y.agent_ids => y = x
  BY <1>1, <1>2, OwnTimers
<1>8. Without(T, a, {"idle_reminder"}) = NotOwn(w.timers, a)
  BY <1>7 DEF Without, NotOwn, T
<1> HIDE DEF u, v
<1>9. /\ r.state = "idle" /\ r.active_transfer_id = None
      /\ r.pending_transfer_id = None
      /\ r.pending_announcements = w.agents[a].pending_announcements
  BY <1>1, <1>2 DEF AgentRecord, Backed, isInTransfer
<1>10. [w.agents EXCEPT ![a].state = "idle"] = [w.agents EXCEPT ![a] = r]
  BY <1>1
<1> HIDE DEF r
<1>11. /\ u \in Worlds /\ u.agents = [w.agents EXCEPT ![a] = r]
       /\ u.timers = NotOwn(w.timers, a) \cup R
       /\ u.transfers = w.transfers /\ u.announcements = w.announcements
       /\ u.purses = w.purses /\ u.registrations = w.registrations
  BY <1>4, <1>6, <1>8, <1>10 DEF Updates
<1>12. u.agents[a] = r /\ \A b \in Agents \ {a} : u.agents[b] = w.agents[b]
  BY <1>1, <1>11
<1>13. Delivered(v, u, a)
  BY <1>11, DeliverLemma DEF v
<1>14. /\ v \in Worlds /\ v.timers = NotOwn(w.timers, a) \cup R
       /\ v.transfers = w.transfers /\ v.purses = w.purses
       /\ v.registrations = w.registrations
       /\ v.agents[a].state = "idle" /\ v.agents[a].active_transfer_id = None
       /\ v.agents[a].pending_transfer_id = None
       /\ v.agents[a].pending_announcements = {}
       /\ \A b \in Agents \ {a} : v.agents[b] = w.agents[b]
       /\ \A n \in Announcements :
            v.announcements[n] = IF n \in w.agents[a].pending_announcements
                                 THEN w.announcements[n] \ {a} ELSE w.announcements[n]
  BY <1>9, <1>11, <1>12, <1>13 DEF Delivered
<1>15. Waiting(v)
  <2> SUFFICES ASSUME NEW b \in Agents
               PROVE  /\ \A n \in Announcements :
                           n \in v.agents[b].pending_announcements
                             <=> b \in v.announcements[n]
                      /\ v.agents[b].pending_announcements # {}
                           => v.agents[b].state = "moving"
                      /\ v.agents[b].announced => v.agents[b].state # "moving"
    BY DEF Waiting
  <2>1. /\ \A n \in Announcements :
             n \in w.agents[b].pending_announcements <=> b \in w.announcements[n]
        /\ w.agents[b].pending_announcements # {} => w.agents[b].state = "moving"
        /\ w.agents[b].announced => w.agents[b].state # "moving"
    BY <1>1 DEF Control, Waiting
  <2>2. CASE b = a
    <3>1. \A n \in Announcements : a \notin v.announcements[n]
      BY <1>14, <2>1, <2>2
    <3> QED
      BY <1>14, <2>2, <3>1
  <2>3. CASE b # a
    <3>1. v.agents[b] = w.agents[b]
      BY <1>14, <2>3
    <3>2. \A n \in Announcements : b \in v.announcements[n] <=> b \in w.announcements[n]
      BY <1>14, <2>3
    <3> QED
      BY <2>1, <3>1, <3>2
  <2> QED
    BY <2>2, <2>3
<1>16. Timed(v, IR(a))
  BY <1>14, ReminderTimed
<1>17. IR(a).type = "idle_reminder" /\ IR(a).agent_ids = {a}
  BY IdleReminderType
<1>18. \A y \in v.timers : a \in y.agent_ids => y = IR(a)
  BY <1>14 DEF NotOwn
<1>19. Busy(v, a)
  BY <1>14, <1>17, <1>18 DEF Busy, OneActivity, ActivityTypes
<1>20. \A y \in R : y.agent_ids = {a} /\ Timed(v, y)
  BY <1>16, <1>17
<1> HIDE DEF R
<1>21. Control(v, None)
  BY <1>1, <1>2, <1>14, <1>15, <1>19, <1>20, OwnStep
<1>22. \A b \in Agents : LoggedIn(v, b) <=> LoggedIn(w, b)
  BY <1>2, <1>14 DEF LoggedIn
<1>23. Good(v) /\ Keeps(v, w)
  BY <1>1, <1>14, <1>21, <1>22 DEF Good, Saved, Keeps, Registered
<1>24. ASSUME w.agents[a].pending_announcements # {} PROVE v.agents[a].announced
  <2>1. PICK n \in w.agents[a].pending_announcements : TRUE
    BY <1>24
  <2>2. n \in Announcements
    BY <1>1 DEF AgentRecord
  <2>3. a \in w.announcements[n]
    BY <1>1, <2>2 DEF Control, Waiting
  <2>4. n \in u.agents[a].pending_announcements /\ u.announcements[n] # {}
    BY <1>9, <1>11, <1>12, <2>3
  <2> QED
    BY <1>13, <2>4 DEF Delivered
<1> QED
  BY <1>5, <1>14, <1>23, <1>24

(***************************************************************************)
(* Announcements.                                                          *)
(***************************************************************************)
LEMMA AnnounceLemma ==
  ASSUME NEW w, Good(w), NEW n \in Announcements, unusedAnnouncement(w, n)
  PROVE  LET v == fireServerAnnouncement(w, n)
         IN  /\ Good(v) /\ Keeps(v, w)
             /\ \A a \in Agents : v.agents[a].state = w.agents[a].state
<1> DEFINE moving == {a \in Agents : w.agents[a].state = "moving"}
           A == [a \in Agents |->
                   IF a \in moving
                   THEN [w.agents[a] EXCEPT !.pending_announcements = @ \cup {n}]
                   ELSE IF LoggedIn(w, a)
                   THEN [w.agents[a] EXCEPT !.announced = TRUE, !.excluded = {}]
                   ELSE w.agents[a]]
           N == [w.announcements EXCEPT ![n] = moving]
           v == [w EXCEPT !.announcements = N, !.agents = A]
<1>1. /\ w \in Worlds /\ Waiting(w)
      /\ w.agents \in [Agents -> AgentRecord]
      /\ w.announcements \in [Announcements -> SUBSET Agents]
  BY WorldsFields DEF Good, Control
<1>2. fireServerAnnouncement(w, n) = v
  <2>1. [w EXCEPT !.announcements[n] = moving, !.agents = A] = v
    BY DEF Worlds
  <2>2. fireServerAnnouncement(w, n)
          = [w EXCEPT !.announcements[n] = moving, !.agents = A]
    BY DEF fireServerAnnouncement
  <2> QED
    BY <2>1, <2>2
<1>3. ASSUME NEW a \in Agents
      PROVE  /\ A[a] \in AgentRecord
             /\ A[a].state = w.agents[a].state
             /\ A[a].active_transfer_id = w.agents[a].active_transfer_id
             /\ A[a].pending_transfer_id = w.agents[a].pending_transfer_id
             /\ A[a].pending_announcements
                  = IF a \in moving THEN w.agents[a].pending_announcements \cup {n}
                    ELSE w.agents[a].pending_announcements
             /\ a \in moving => A[a].announced = w.agents[a].announced
  <2>1. w.agents[a] \in AgentRecord
    BY <1>1
  <2>2. CASE a \in moving
    BY <2>1, <2>2 DEF AgentRecord
  <2>3. CASE a \notin moving /\ LoggedIn(w, a)
    BY <2>1, <2>3 DEF AgentRecord
  <2>4. CASE a \notin moving /\ ~LoggedIn(w, a)
    BY <2>1, <2>4
  <2> QED
    BY <2>2, <2>3, <2>4
<1>4. /\ A \in [Agents -> AgentRecord]
      /\ N \in [Announcements -> SUBSET Agents]
      /\ \A m \in Announcements : N[m] = IF m = n THEN moving ELSE w.announcements[m]
  BY <1>1, <1>3
<1> HIDE DEF A, N
<1>5. /\ v \in Worlds /\ v.agents = A /\ v.announcements = N
      /\ v.timers = w.timers /\ v.transfers = w.transfers
      /\ v.purses = w.purses /\ v.registrations = w.registrations
  BY <1>1, <1>4 DEF Worlds
<1> HIDE DEF v
<1>6. Waiting(v)
  <2> SUFFICES ASSUME NEW a \in Agents
               PROVE  /\ \A m \in Announcements :
                           m \in A[a].pending_announcements <=> a \in N[m]
                      /\ A[a].pending_announcements # {} => A[a].state = "moving"
                      /\ A[a].announced => A[a].state # "moving"
    BY <1>5 DEF Waiting
  <2>1. /\ \A m \in Announcements :
             m \in w.agents[a].pending_announcements <=> a \in w.announcements[m]
        /\ w.agents[a].pending_announcements # {} => w.agents[a].state = "moving"
        /\ w.agents[a].announced => w.agents[a].state # "moving"
        /\ n \notin w.agents[a].pending_announcements
    BY <1>1 DEF Waiting, unusedAnnouncement
  <2>2. CASE a \in moving
    <3>1. w.agents[a].state = "moving" /\ ~w.agents[a].announced
      BY <2>1, <2>2
    <3>2. ~A[a].announced /\ A[a].state = "moving"
      BY <1>3, <2>2, <3>1
    <3>a. A[a].pending_announcements = w.agents[a].pending_announcements \cup {n}
      BY <1>3, <2>2
    <3>b. \A m \in Announcements : a \in N[m] <=> m = n \/ a \in w.announcements[m]
      <4> HIDE DEF moving
      <4> QED
        BY <1>4, <2>2
    <3>3. \A m \in Announcements : m \in A[a].pending_announcements <=> a \in N[m]
      BY <2>1, <3>a, <3>b
    <3> QED
      BY <3>2, <3>3
  <2>3. CASE a \notin moving
    BY <1>3, <1>4, <2>1, <2>3
  <2> QED
    BY <2>2, <2>3
<1> QED
  BY <1>2, <1>3, <1>5, <1>6, CosmeticGood, ZenonT(40)

(***************************************************************************)
(* Login and logout.                                                       *)
(***************************************************************************)
LEMMA LoginLemma ==
  ASSUME NEW w, Good(w), NEW a \in Agents, ~LoggedIn(w, a), Registered(w, a)
  PROVE  LET v == startIdleReminder(login(w, a), a)
         IN  /\ Good(v) /\ v.registrations = w.registrations
             /\ \A b \in Agents : LoggedIn(v, b) <=> LoggedIn(w, b) \/ b = a
             /\ Steady(v, w, {})
             /\ v.transfers = w.transfers /\ v.purses[a] = w.registrations[a]
             /\ \A b \in Agents \ {a} : v.purses[b] = w.purses[b]
<1> DEFINE r == [LoggedOut EXCEPT !.state = "idle"]
           p == w.registrations[a]
           u == login(w, a)
           v == startIdleReminder(u, a)
           A == [w.agents EXCEPT ![a] = r]
           P == [w.purses EXCEPT ![a] = p]
           R == {IR(a)}
<1>1. /\ w \in Worlds /\ Control(w, None) /\ Saved(w)
      /\ w.agents \in [Agents -> AgentRecord] /\ w.purses \in [Agents -> Purse]
      /\ w.registrations \in [Agents -> Purse \cup {None}]
  BY WorldsFields DEF Good, Control
<1>2. w.agents[a].state = "logged_out"
  BY DEF LoggedIn
<1>3. /\ r \in AgentRecord /\ r.state = "idle" /\ r.active_transfer_id = None
      /\ r.pending_transfer_id = None /\ r.pending_announcements = {}
      /\ r.announced = FALSE
  BY DEF AgentRecord, LoggedOut, AgentStates
<1>4. p \in Purse
  BY <1>1 DEF Registered
<1>5. u = [w EXCEPT !.agents = A, !.purses = P]
  BY DEF login, Worlds
<1>6. A \in [Agents -> AgentRecord] /\ P \in [Agents -> Purse]
      /\ P[a] = p /\ \A b \in Agents \ {a} : P[b] = w.purses[b]
  BY <1>1, <1>3, <1>4
<1>7. A[a] = r /\ \A b \in Agents \ {a} : A[b] = w.agents[b]
  BY <1>1
<1> HIDE DEF A, P, r, p
<1>8. /\ u \in Worlds /\ u.agents = A /\ u.purses = P /\ u.timers = w.timers
      /\ u.transfers = w.transfers /\ u.announcements = w.announcements
      /\ u.registrations = w.registrations
  BY <1>1, <1>5, <1>6 DEF Worlds
<1> HIDE DEF u
<1>9. Updates(v, u, u.agents, Without(u.timers, a, {"idle_reminder"}) \cup {IR(a)})
  BY <1>8, StartIdleReminderLemma
<1>10. \A x \in w.timers : a \notin x.agent_ids
  BY <1>1, <1>2, OwnTimers
<1>11. Without(w.timers, a, {"idle_reminder"}) = NotOwn(w.timers, a)
  BY <1>10 DEF Without, NotOwn
<1> HIDE DEF v
<1>12. /\ v \in Worlds /\ v.agents = A /\ v.purses = P
       /\ v.timers = NotOwn(w.timers, a) \cup R
       /\ v.transfers = w.transfers /\ v.announcements = w.announcements
       /\ v.registrations = w.registrations
  BY <1>8, <1>9, <1>11 DEF Updates
<1>13. IR(a).type = "idle_reminder" /\ IR(a).agent_ids = {a}
  BY IdleReminderType
<1>14. Timed(v, IR(a))
  BY <1>3, <1>7, <1>12, ReminderTimed
<1>15. \A y \in v.timers : a \in y.agent_ids => y = IR(a)
  BY <1>12 DEF NotOwn
<1>16. Busy(v, a)
  BY <1>3, <1>7, <1>12, <1>13, <1>15 DEF Busy, OneActivity, ActivityTypes
<1>17. Waiting(v)
  <2>1. w.agents[a].pending_announcements = {}
        /\ \A n \in Announcements : a \notin w.announcements[n]
    BY <1>1, <1>2 DEF Control, Waiting
  <2> QED
    BY <1>1, <1>3, <1>7, <1>12, <2>1 DEF Control, Waiting
<1>18. \A y \in R : y.agent_ids = {a} /\ Timed(v, y)
  BY <1>13, <1>14
<1> HIDE DEF R
<1>19. v.agents[a].state # "in_transfer" /\ w.agents[a].state # "in_transfer"
       /\ v.agents[a].active_transfer_id = None /\ v.agents[a].pending_transfer_id = None
       /\ \A b \in Agents \ {a} : v.agents[b] = w.agents[b]
  BY <1>2, <1>3, <1>7, <1>12
<1>20. Control(v, None)
  BY <1>1, <1>12, <1>16, <1>17, <1>18, <1>19, OwnStep
<1>21. \A b \in Agents : LoggedIn(v, b) <=> LoggedIn(w, b) \/ b = a
  BY <1>3, <1>7, <1>12 DEF LoggedIn
<1>22. Saved(v)
  <2> SUFFICES ASSUME NEW b \in Agents, LoggedIn(v, b)
               PROVE  /\ Registered(v, b)
                      /\ "activity" \notin FailingWrites => v.registrations[b] = v.purses[b]
    BY DEF Saved
  <2>1. CASE b = a
    BY <1>6, <1>12, <2>1 DEF Registered, p
  <2>2. CASE b # a
    BY <1>1, <1>6, <1>12, <1>21, <2>2 DEF Saved, Registered
  <2> QED
    BY <2>1, <2>2
<1>23. Steady(v, w, {})
  BY <1>2, <1>19 DEF Steady
<1>24. /\ v.purses[a] = w.registrations[a]
       /\ \A b \in Agents \ {a} : v.purses[b] = w.purses[b]
  BY <1>6, <1>12 DEF p
<1> QED
  BY <1>12, <1>20, <1>21, <1>22, <1>23, <1>24 DEF Good, v, u

\* Recovery empties failed offers into the registration of their sender.
Recovered(v, w, a) ==
  /\ v \in Worlds /\ v.agents = w.agents /\ v.timers = w.timers
  /\ v.announcements = w.announcements /\ v.purses = w.purses
  /\ \A b \in Agents \ {a} : v.registrations[b] = w.registrations[b]
  /\ Registered(v, a)
  /\ \A t \in Transfers : \/ v.transfers[t] = w.transfers[t]
                          \/ ~Live(w, t) /\ ~Live(v, t)

\* The offers F of agent a are empty, and what they held is registered as its own.
Gathered(v, w, a, F) ==
  /\ \A t \in F : w.transfers[t].from_agent_id = a
  /\ v.transfers = [t \in Transfers |-> IF t \in F THEN NoOffer ELSE w.transfers[t]]
  /\ v.registrations[a] =
       [ money |-> w.registrations[a].money
                     + SumOver(F, [t \in F |-> w.transfers[t].escrow.money]),
         items |-> w.registrations[a].items
                     + SumOver(F, [t \in F |-> w.transfers[t].escrow.items]) ]
  /\ \A t \in F : w.transfers[t].status = "refund_failed"

\* The recovery on logout takes failed offers only, and one registration grows.
LEMMA RecoverLemma ==
  ASSUME NEW w \in Worlds, NEW a \in Agents, Registered(w, a), NEW faults
  PROVE  LET v == recoverRefundFailedTransfersForAgent(w, a, faults)
         IN  /\ Recovered(v, w, a)
             /\ \E F \in SUBSET Transfers : v = w \/ Gathered(v, w, a, F)
<1> DEFINE F == {t \in Transfers :
                   /\ w.transfers[t].status = "refund_failed"
                   /\ w.transfers[t].from_agent_id = a
                   /\ <<"recover", t>> \notin faults}
           m == SumOver(F, [t \in F |-> w.transfers[t].escrow.money])
           i == SumOver(F, [t \in F |-> w.transfers[t].escrow.items])
           q == w.registrations[a]
           p == [money |-> q.money + m, items |-> q.items + i]
           G == [w.registrations EXCEPT ![a] = p]
           X == [t \in Transfers |-> IF t \in F THEN NoOffer ELSE w.transfers[t]]
           v == [w EXCEPT !.registrations = G, !.transfers = X]
<1>1. /\ w.transfers \in [Transfers -> OfferRecord]
      /\ w.registrations \in [Agents -> Purse \cup {None}] /\ q \in Purse
  BY WorldsFields DEF Registered
<1>2. \A t \in Transfers : w.transfers[t].escrow.money \in Nat
                           /\ w.transfers[t].escrow.items \in Nat
  BY <1>1 DEF OfferRecord, Purse
<1>3. [t \in F |-> w.transfers[t].escrow.money] \in [F -> Nat]
      /\ [t \in F |-> w.transfers[t].escrow.items] \in [F -> Nat]
      /\ F \in SUBSET Transfers
  BY <1>2
<1>4. m \in Nat /\ i \in Nat
  <2> HIDE DEF F
  <2> QED
    BY <1>3, SumInNat, FS_Subset, WorldAssumption
<1>5. p \in Purse /\ p # None
  <2> HIDE DEF m, i
  <2> QED
    BY <1>1, <1>4, WorldAssumption DEF Purse
<1>6. NoOffer \in OfferRecord /\ NoOffer.status = "absent"
  BY DEF NoOffer, OfferRecord, Nothing, Purse
<1>7. recoverRefundFailedTransfersForAgent(w, a, faults) = IF F = {} THEN w ELSE v
  <2>1. mergePersistedAgentInventory(w, a, [money |-> m, items |-> i])
          = [w EXCEPT !.registrations = G]
    <3> HIDE DEF m, i
    <3> QED
      BY <1>1, <1>4 DEF mergePersistedAgentInventory, Worlds, Purse
  <2>2. [[w EXCEPT !.registrations = G] EXCEPT
           !.transfers = [t \in Transfers |-> IF t \in F THEN NoOffer ELSE @[t]]] = v
    <3> HIDE DEF G
    <3> QED
      BY DEF Worlds
  <2> HIDE DEF G
  <2> QED
    BY <2>1, <2>2 DEF recoverRefundFailedTransfersForAgent
<1>8. /\ X \in [Transfers -> OfferRecord] /\ G \in [Agents -> Purse \cup {None}]
      /\ G[a] = p /\ \A b \in Agents \ {a} : G[b] = w.registrations[b]
  <2> HIDE DEF F, p
  <2> QED
    BY <1>1, <1>5, <1>6
<1>9. \A t \in Transfers : \/ X[t] = w.transfers[t]
                           \/ ~Live(w, t) /\ X[t].status # "open"
  BY <1>6 DEF Live
<1>10. Recovered(w, w, a)
  BY DEF Recovered
<1> HIDE DEF G, X, p
<1>11. /\ v \in Worlds /\ v.agents = w.agents /\ v.timers = w.timers
       /\ v.announcements = w.announcements /\ v.purses = w.purses
       /\ v.registrations = G /\ v.transfers = X
  BY <1>8 DEF Worlds
<1> HIDE DEF v
<1>12. Recovered(v, w, a)
  BY <1>5, <1>8, <1>9, <1>11 DEF Recovered, Registered, Live
<1>13. Gathered(v, w, a, F)
  <2>1. \A t \in F : w.transfers[t].from_agent_id = a
                     /\ w.transfers[t].status = "refund_failed"
    OBVIOUS
  <2>2. v.registrations[a] = [money |-> q.money + m, items |-> q.items + i]
    BY <1>8, <1>11 DEF p
  <2> HIDE DEF F
  <2> QED
    BY <1>11, <2>1, <2>2 DEF Gathered, X
<1> QED
  BY <1>3, <1>7, <1>10, <1>12, <1>13

\* A world that differs in its closed offers and one registration only.
LEMMA RecoveredControl ==
  ASSUME NEW w, Control(w, None), NEW a \in Agents, NEW v, Recovered(v, w, a)
  PROVE  Control(v, None)
<1>1. \A t \in Transfers : Live(v, t) => Live(w, t) /\ v.transfers[t] = w.transfers[t]
  BY DEF Recovered, Live
<1>2. \A t \in Transfers : Live(w, t) => Live(v, t) /\ v.transfers[t] = w.transfers[t]
  BY DEF Recovered, Live
<1>3. \A t \in Transfers : Live(v, t) => Held(v, t, None)
  BY <1>1 DEF Control, Roles, Held, Recovered
<1>4. ASSUME NEW b \in Agents
      PROVE  Backed(v, b)
  <2>1. Backed(w, b) /\ w.agents[b] \in AgentRecord /\ v.agents = w.agents
    BY WorldsFields DEF Control, Roles, Recovered
  <2>2. /\ w.agents[b].active_transfer_id \in Transfers \cup {None}
        /\ w.agents[b].pending_transfer_id \in Transfers \cup {None}
    BY <2>1 DEF AgentRecord
  <2>3. /\ v.agents[b].active_transfer_id # None =>
             /\ Live(v, v.agents[b].active_transfer_id)
             /\ v.transfers[v.agents[b].active_transfer_id].from_agent_id = b
        /\ v.agents[b].pending_transfer_id # None =>
             /\ Live(v, v.agents[b].pending_transfer_id)
             /\ v.transfers[v.agents[b].pending_transfer_id].to_agent_id = b
    BY <1>2, <2>1, <2>2 DEF Backed
  <2> QED
    BY <2>1, <2>3 DEF Backed, isInTransfer
<1>5. \A x \in v.timers : Timed(v, x)
  <2> SUFFICES ASSUME NEW x \in v.timers PROVE Timed(v, x)
    OBVIOUS
  <2>1. Timed(w, x) /\ v.agents = w.agents
    BY DEF Control, Timing, Recovered
  <2> QED
    BY <1>2, <2>1 DEF Timed
<1>6. \A b \in Agents : Busy(v, b)
  BY DEF Control, Timing, Busy, Recovered
<1>7. Waiting(v) /\ v \in Worlds
  BY DEF Control, Waiting, Recovered
<1> QED
  BY <1>3, <1>4, <1>5, <1>6, <1>7 DEF Control, Roles, Timing

\* Once its offer is cancelled, an agent that logs out is in no transfer.
LEMMA CancelPendingLemma ==
  ASSUME NEW w, Good(w), NEW a \in Agents, NEW faults
  PROVE  LET v == cancelPendingTransfersForAgent(w, a, faults)
         IN  /\ Good(v) /\ Keeps(v, w) /\ v.agents[a].state # "in_transfer"
             /\ Steady(v, w, {})
<1> DEFINE open == {t \in Transfers :
                      Live(w, t) /\ a \in {w.transfers[t].from_agent_id,
                                           w.transfers[t].to_agent_id}}
           v == cancelPendingTransfersForAgent(w, a, faults)
<1>1. Control(w, None) /\ Backed(w, a) /\ w.agents[a] \in AgentRecord
  BY WorldsFields DEF Good, Control, Roles
<1>2. CASE open = {}
  <2>1. v = w
    BY <1>2 DEF cancelPendingTransfersForAgent
  <2>2. w.agents[a].active_transfer_id = None /\ w.agents[a].pending_transfer_id = None
    BY <1>1, <1>2 DEF Backed, AgentRecord
  <2>3. w.agents[a].state # "in_transfer"
    BY <1>1, <2>2 DEF Backed, isInTransfer
  <2> QED
    BY <2>1, <2>3 DEF Keeps, Steady
<1>3. CASE open # {}
  <2>1. PICK t : t = CHOOSE u \in open : TRUE
    OBVIOUS
  <2>2. t \in open
    BY <1>3, <2>1, ChooseElement
  <2>3. v = cancelTransfer(w, t, faults)
    BY <1>3, <2>1 DEF cancelPendingTransfersForAgent
  <2>4. /\ t \in Transfers /\ Live(w, t)
        /\ a \in {w.transfers[t].from_agent_id, w.transfers[t].to_agent_id}
    BY <2>2
  <2> HIDE DEF v, open
  <2>5. Good(v) /\ Keeps(v, w) /\ Ended(v, w, t, w.transfers[t].from_agent_id)
    BY <2>3, <2>4, CancelTransferLemma
  <2>6. Control(w, t) /\ w.transfers[t].from_agent_id \in Agents
    BY <1>1, <2>4, ControlSkip, LiveFacts
  <2>7. v.agents[a].state = "idle"
    BY <2>4, <2>5, <2>6, EndedStates
  <2>8. Steady(v, w, {})
    BY <2>4, <2>5, <2>6, EndedSteady
  <2> QED
    BY <2>5, <2>7, <2>8 DEF v
<1> QED
  BY <1>2, <1>3

\* The end of a logout: timers, windows, queues and the agent itself go.
LEMMA LeaveLemma ==
  ASSUME NEW w, Control(w, None), NEW a \in Agents, w.agents[a].state # "in_transfer"
  PROVE  LET v == logout(cleanupServerAnnouncementsForAgent(cancelByAgent(w, a), a), a)
         IN  /\ Control(v, None) /\ v.registrations = w.registrations
             /\ v.transfers = w.transfers /\ v.agents[a].state = "logged_out"
             /\ v.purses[a] = Nothing
             /\ \A b \in Agents \ {a} : /\ v.agents[b] = w.agents[b]
                                        /\ v.purses[b] = w.purses[b]
<1> DEFINE T == NotOwn(w.timers, a)
           N == [n \in Announcements |-> w.announcements[n] \ {a}]
           A == [w.agents EXCEPT ![a] = LoggedOut]
           P == [w.purses EXCEPT ![a] = Nothing]
           u1 == cancelByAgent(w, a)
           u2 == clearActiveServerAnnouncement(u1, a)
           u3 == cleanupServerAnnouncementsForAgent(u1, a)
           v == logout(u3, a)
           x == [w EXCEPT !.agents = A, !.purses = P, !.timers = T,
                          !.announcements = N]
<1>1. /\ w \in Worlds /\ w.agents \in [Agents -> AgentRecord]
      /\ w.purses \in [Agents -> Purse]
      /\ w.announcements \in [Announcements -> SUBSET Agents]
      /\ w.timers \in SUBSET TimerRecord
  BY WorldsFields DEF Control
<1>2. LoggedOut \in AgentRecord /\ Nothing \in Purse
  BY DEF LoggedOut, AgentRecord, AgentStates, Nothing, Purse
<1>3. u1 = [w EXCEPT !.timers = T]
  BY DEF cancelByAgent, NotOwn, Worlds
<1>4. u3 = [u2 EXCEPT !.announcements = [n \in Announcements |-> u2.announcements[n] \ {a}]]
  BY DEF cleanupServerAnnouncementsForAgent
<1> DEFINE B == [w.agents EXCEPT ![a].announced = FALSE]
<1>5. u2 = [w EXCEPT !.agents = B, !.timers = T]
  <2> HIDE DEF T
  <2> QED
    BY <1>1, <1>3 DEF clearActiveServerAnnouncement, Worlds
<1>6. u3 = [w EXCEPT !.agents = B, !.timers = T, !.announcements = N]
  <2> HIDE DEF T, B, u2
  <2> QED
    BY <1>1, <1>4, <1>5 DEF Worlds
<1>7. [B EXCEPT ![a] = LoggedOut] = A
  BY <1>1
<1>8. v = x
  <2> HIDE DEF T, B, N, u3
  <2> QED
    BY <1>1, <1>6, <1>7 DEF logout, Worlds
<1>9. /\ A \in [Agents -> AgentRecord] /\ P \in [Agents -> Purse]
      /\ N \in [Announcements -> SUBSET Agents] /\ T \in SUBSET TimerRecord
      /\ A[a] = LoggedOut /\ P[a] = Nothing
      /\ \A b \in Agents \ {a} : A[b] = w.agents[b] /\ P[b] = w.purses[b]
  BY <1>1, <1>2 DEF NotOwn
<1> HIDE DEF A, P, N, T
<1>10. /\ x \in Worlds /\ x.agents = A /\ x.purses = P /\ x.timers = T
       /\ x.announcements = N /\ x.transfers = w.transfers
       /\ x.registrations = w.registrations
  BY <1>1, <1>9 DEF Worlds
<1> HIDE DEF x
<1>11. /\ x.agents[a].state = "logged_out" /\ x.agents[a].active_transfer_id = None
       /\ x.agents[a].pending_transfer_id = None
       /\ x.agents[a].pending_announcements = {} /\ x.agents[a].announced = FALSE
       /\ \A b \in Agents \ {a} : x.agents[b] = w.agents[b]
  BY <1>9, <1>10 DEF LoggedOut
<1>12. \A y \in x.timers : a \notin y.agent_ids
  BY <1>10 DEF T, NotOwn
<1>13. Busy(x, a)
  BY <1>11, <1>12 DEF Busy, OneActivity
<1>14. Waiting(x)
  <2> SUFFICES ASSUME NEW b \in Agents
               PROVE  /\ \A n \in Announcements :
                           n \in x.agents[b].pending_announcements <=> b \in N[n]
                      /\ x.agents[b].pending_announcements # {}
                           => x.agents[b].state = "moving"
                      /\ x.agents[b].announced => x.agents[b].state # "moving"
    BY <1>10 DEF Waiting
  <2>1. CASE b = a
    BY <1>11, <2>1 DEF N
  <2>2. CASE b # a
    <3>1. x.agents[b] = w.agents[b]
      BY <1>11, <2>2
    <3>2. \A n \in Announcements : b \in N[n] <=> b \in w.announcements[n]
      BY <2>2 DEF N
    <3> QED
      BY <3>1, <3>2 DEF Control, Waiting
  <2> QED
    BY <2>1, <2>2
<1> DEFINE R == {}
<1>15. x.timers = NotOwn(w.timers, a) \cup R
  BY <1>10 DEF T
<1>16. \A y \in R : y.agent_ids = {a} /\ Timed(x, y)
  OBVIOUS
<1> HIDE DEF R
<1>17. Control(x, None)
  BY <1>10, <1>11, <1>13, <1>14, <1>15, <1>16, OwnStep
<1> QED
  BY <1>8, <1>9, <1>10, <1>11, <1>17

\* A logout leaves the world in order, whether its writeback throws or not.
LEMMA LogoutLemma ==
  ASSUME NEW w, Good(w), NEW a \in Agents, LoggedIn(w, a), NEW faults
  PROVE  LET settled   == cancelPendingTransfersForAgent(w, a, faults)
             recovered == recoverRefundFailedTransfersForAgent(
                            persistLoggedInAgentState(settled, a), a, faults)
             v         == logout(cleanupServerAnnouncementsForAgent(
                                   cancelByAgent(recovered, a), a), a)
         IN  /\ Good(settled) /\ Keeps(settled, w) /\ Steady(settled, w, {})
             /\ Good(v) /\ Steady(v, w, {a}) /\ v.agents[a].state = "logged_out"
             /\ \A b \in Agents : /\ LoggedIn(v, b) => LoggedIn(w, b)
                                  /\ Registered(w, b) => Registered(v, b)
<1> DEFINE s == cancelPendingTransfersForAgent(w, a, faults)
           p == persistLoggedInAgentState(s, a)
           r == recoverRefundFailedTransfersForAgent(p, a, faults)
           v == logout(cleanupServerAnnouncementsForAgent(cancelByAgent(r, a), a), a)
           G == [s.registrations EXCEPT ![a] = s.purses[a]]
<1>1. /\ Good(s) /\ Keeps(s, w) /\ s.agents[a].state # "in_transfer"
      /\ Steady(s, w, {})
  BY CancelPendingLemma
<1> HIDE DEF s
<1>2. /\ s \in Worlds /\ s.purses[a] \in Purse /\ s.purses[a] # None
      /\ s.registrations \in [Agents -> Purse \cup {None}]
      /\ Control(s, None) /\ Saved(s)
  BY <1>1, WorldsFields, WorldAssumption DEF Good, Control
<1>3. p = [s EXCEPT !.registrations = G]
  BY DEF persistLoggedInAgentState, Worlds
<1>4. /\ G \in [Agents -> Purse \cup {None}] /\ G[a] # None
      /\ \A b \in Agents \ {a} : G[b] = s.registrations[b]
  BY <1>2
<1> HIDE DEF G, p
<1>5. /\ p \in Worlds /\ p.agents = s.agents /\ p.timers = s.timers
      /\ p.announcements = s.announcements /\ p.purses = s.purses
      /\ p.transfers = s.transfers /\ p.registrations = G
  BY <1>2, <1>3, <1>4 DEF Worlds
<1>6. Recovered(p, s, a)
  BY <1>4, <1>5 DEF Recovered, Registered
<1>7. Control(p, None)
  BY <1>2, <1>6, RecoveredControl
<1>8. Recovered(r, p, a)
  BY <1>4, <1>5, RecoverLemma DEF Registered
<1> HIDE DEF r
<1>9. Control(r, None) /\ r.agents[a].state # "in_transfer"
  BY <1>1, <1>5, <1>7, <1>8, RecoveredControl DEF Recovered
<1>10. /\ Control(v, None) /\ v.registrations = r.registrations
       /\ v.agents[a].state = "logged_out"
       /\ \A b \in Agents \ {a} : /\ v.agents[b] = r.agents[b]
                                  /\ v.purses[b] = r.purses[b]
  BY <1>9, LeaveLemma
<1> HIDE DEF v
<1>11. \A b \in Agents \ {a} :
         /\ v.agents[b] = s.agents[b] /\ v.purses[b] = s.purses[b]
         /\ v.registrations[b] = s.registrations[b]
  BY <1>4, <1>5, <1>8, <1>10 DEF Recovered
<1>12. Saved(v)
  BY <1>2, <1>10, <1>11 DEF Saved, LoggedIn, Registered
<1>13. \A b \in Agents : /\ LoggedIn(v, b) => LoggedIn(w, b)
                         /\ Registered(w, b) => Registered(v, b)
  <2> SUFFICES ASSUME NEW b \in Agents
               PROVE  /\ LoggedIn(v, b) => LoggedIn(w, b)
                      /\ Registered(w, b) => Registered(v, b)
    OBVIOUS
  <2>1. CASE b = a
    BY <1>8, <1>10, <2>1 DEF Recovered, Registered, LoggedIn
  <2>2. CASE b # a
    BY <1>1, <1>11, <2>2 DEF Keeps, Registered, LoggedIn
  <2> QED
    BY <2>1, <2>2
<1>14. Steady(v, w, {a})
  BY <1>1, <1>11 DEF Steady
<1> QED
  BY <1>1, <1>10, <1>12, <1>13, <1>14 DEF Good, v, r, p, s

(***************************************************************************)
(* Restart, registrations and the remaining commands.                      *)
(***************************************************************************)

\* The world of a process that has just started.
Started(G) ==
  [ agents |-> [a \in Agents |-> LoggedOut],
    purses |-> [a \in Agents |-> Nothing],
    transfers |-> [t \in Transfers |-> NoOffer],
    announcements |-> [n \in Announcements |-> {}],
    timers |-> {}, registrations |-> G ]

\* Starting with any registrations, as restart does, leaves all in order.
LEMMA EmptyLemma ==
  ASSUME NEW G \in [Agents -> Purse \cup {None}]
  PROVE  /\ Good(Started(G)) /\ \A a \in Agents : ~LoggedIn(Started(G), a)
<1> DEFINE v == Started(G)
<1>1. /\ LoggedOut \in AgentRecord /\ Nothing \in Purse /\ NoOffer \in OfferRecord
      /\ LoggedOut.state = "logged_out" /\ LoggedOut.active_transfer_id = None
      /\ LoggedOut.pending_transfer_id = None
      /\ LoggedOut.pending_announcements = {} /\ LoggedOut.announced = FALSE
      /\ NoOffer.status = "absent"
  BY DEF LoggedOut, AgentRecord, AgentStates, Nothing, Purse, NoOffer, OfferRecord
<1>2. /\ v.agents = [a \in Agents |-> LoggedOut]
      /\ v.purses = [a \in Agents |-> Nothing]
      /\ v.transfers = [t \in Transfers |-> NoOffer]
      /\ v.announcements = [n \in Announcements |-> {}]
      /\ v.timers = {} /\ v.registrations = G
  BY DEF Started
<1>3. /\ [a \in Agents |-> LoggedOut] \in [Agents -> AgentRecord]
      /\ [a \in Agents |-> Nothing] \in [Agents -> Purse]
      /\ [t \in Transfers |-> NoOffer] \in [Transfers -> OfferRecord]
      /\ [n \in Announcements |-> {}] \in [Announcements -> SUBSET Agents]
      /\ {} \in SUBSET TimerRecord
  BY <1>1
<1>4. v \in Worlds
  BY <1>3 DEF Worlds, Started
<1> HIDE DEF v
<1>6. \A a \in Agents : v.agents[a] = LoggedOut
  BY <1>2
<1>7. Roles(v, None)
  BY <1>1, <1>2 DEF Roles, Live, Backed, isInTransfer
<1>8. Timing(v)
  BY <1>1, <1>2 DEF Timing, Busy, OneActivity
<1>9. Waiting(v)
  BY <1>1, <1>2 DEF Waiting
<1>10. \A a \in Agents : ~LoggedIn(v, a)
  BY <1>1, <1>6 DEF LoggedIn
<1> QED
  BY <1>4, <1>7, <1>8, <1>9, <1>10 DEF Good, Control, Saved, v

\* Registering or deleting an agent that is not logged in.
LEMMA RegistrationLemma ==
  ASSUME NEW w, Good(w), NEW a \in Agents, ~LoggedIn(w, a),
         NEW p \in Purse \cup {None}, NEW v \in Worlds,
         v.agents = w.agents, v.purses = w.purses, v.timers = w.timers,
         v.transfers = w.transfers, v.announcements = w.announcements,
         v.registrations = [w.registrations EXCEPT ![a] = p]
  PROVE  Good(v)
<1>1. Waiting(v)
  BY DEF Good, Control, Waiting
<1>2. Control(v, None)
  BY <1>1, Cosmetic DEF Good
<1>3. \A b \in Agents \ {a} : v.registrations[b] = w.registrations[b]
  BY WorldsFields DEF Good, Control
<1>4. Saved(v)
  BY <1>3 DEF Good, Saved, LoggedIn, Registered
<1> QED
  BY <1>2, <1>4 DEF Good

\* An info command disturbs nothing.
LEMMA InfoLemma ==
  ASSUME NEW w, Good(w), NEW a \in Agents, NEW command \in InfoCommands
  PROVE  LET v == [w EXCEPT !.agents =
                     [w.agents EXCEPT ![a].excluded = @ \cup {command}]]
         IN  Good(v) /\ Keeps(v, w) /\ Steady(v, w, {})
<1> DEFINE r == [w.agents[a] EXCEPT !.excluded = @ \cup {command}]
           A == [w.agents EXCEPT ![a] = r]
           v == [w EXCEPT !.agents = A]
<1>1. /\ w \in Worlds /\ Waiting(w) /\ w.agents \in [Agents -> AgentRecord]
      /\ w.agents[a] \in AgentRecord
  BY WorldsFields DEF Good, Control
<1>2. [w.agents EXCEPT ![a].excluded = @ \cup {command}] = A
  BY <1>1
<1>3. /\ r \in AgentRecord /\ r.state = w.agents[a].state
      /\ r.active_transfer_id = w.agents[a].active_transfer_id
      /\ r.pending_transfer_id = w.agents[a].pending_transfer_id
      /\ r.pending_announcements = w.agents[a].pending_announcements
      /\ r.announced = w.agents[a].announced
  BY <1>1 DEF AgentRecord
<1> HIDE DEF r
<1>4. A \in [Agents -> AgentRecord] /\ A[a] = r
      /\ \A b \in Agents \ {a} : A[b] = w.agents[b]
  BY <1>1, <1>3
<1> HIDE DEF A
<1>5. Updates(v, w, A, w.timers)
  BY <1>1, <1>4, AgentsLemma
<1> HIDE DEF v
<1>6. \A b \in Agents :
        /\ v.agents[b].state = w.agents[b].state
        /\ v.agents[b].active_transfer_id = w.agents[b].active_transfer_id
        /\ v.agents[b].pending_transfer_id = w.agents[b].pending_transfer_id
        /\ v.agents[b].pending_announcements = w.agents[b].pending_announcements
        /\ v.agents[b].announced = w.agents[b].announced
  BY <1>3, <1>4, <1>5 DEF Updates
<1>7. Waiting(v)
  BY <1>1, <1>5, <1>6 DEF Waiting, Updates
<1>8. Steady(v, w, {})
  BY <1>6 DEF Steady
<1> QED
  BY <1>2, <1>5, <1>6, <1>7, <1>8, CosmeticGood, ZenonT(40) DEF Updates, v

\* A transfer request leaves the world in order, accepted or refused.
LEMMA OfferLemma ==
  ASSUME NEW w, Good(w), NEW a \in Agents, NEW to \in Agents,
         NEW payload \in Purse, NEW t \in Transfers, ~Live(w, t), NEW faults
  PROVE  LET u == handleServerAnnouncementInterruption(w, a, faults)
             v == startTransfer(u, t, a, to, payload, faults)
         IN  /\ Good(u) /\ Keeps(u, w) /\ Steady(u, w, {a})
             /\ ~w.agents[a].announced => u = w
             /\ validateTransfer(u, a, to, payload) =>
                  /\ Good(v) /\ Keeps(v, w) /\ Steady(v, u, {a, to})
                  /\ u.agents[a].state # "moving" /\ u.agents[to].state # "moving"
                  /\ <<"debit", t>> \notin faults =>
                       v.agents[a].state # "idle" /\ v.agents[to].state # "idle"
<1> DEFINE u == handleServerAnnouncementInterruption(w, a, faults)
           v == startTransfer(u, t, a, to, payload, faults)
<1>1. /\ Good(u) /\ Keeps(u, w) /\ ~Live(u, t) /\ Steady(u, w, {a})
      /\ ~w.agents[a].announced => u = w
  BY InterruptionLemma
<1> HIDE DEF u
<1>2. ASSUME validateTransfer(u, a, to, payload)
      PROVE  /\ Good(v) /\ Keeps(v, w) /\ Steady(v, u, {a, to})
             /\ u.agents[a].state # "moving" /\ u.agents[to].state # "moving"
             /\ <<"debit", t>> \notin faults =>
                  v.agents[a].state # "idle" /\ v.agents[to].state # "idle"
  <2>1. a # to /\ Free(u, a) /\ Free(u, to)
    BY <1>2 DEF validateTransfer, validateTransferState, isInTransfer, Free
  <2>2. /\ Good(v) /\ Keeps(v, u) /\ Steady(v, u, {a, to})
        /\ <<"debit", t>> \notin faults =>
             v.agents[a].state # "idle" /\ v.agents[to].state # "idle"
    BY <1>1, <2>1, StartTransferLemma
  <2> HIDE DEF v
  <2> QED
    BY <1>1, <2>1, <2>2 DEF Keeps, Free
<1> QED
  BY <1>1, <1>2 DEF u

(***************************************************************************)
(* The inductive step.                                                     *)
(***************************************************************************)
LEMMA BecomeWorld ==
  ASSUME NEW v, v \in Worlds, Become(v)
  PROVE  world' = v
BY DEF Become, world, Worlds

\* The world between two steps, field by field.
LEMMA WorldNow ==
  ASSUME IInv
  PROVE  /\ Good(world) /\ world \in Worlds
         /\ world.agents = agents /\ world.purses = purses
         /\ world.transfers = transfers /\ world.announcements = announcements
         /\ world.timers = timers /\ world.registrations = registrations
BY DEF IInv, Good, Control, world

(***************************************************************************)
(* Whom a step disturbs.                                                   *)
(***************************************************************************)

\* Nobody stops moving but by logging out, and nobody who acts outside a window
\* is made idle.
Undisturbed(v, w) ==
  \A b \in Agents :
    /\ w.agents[b].state = "moving" => v.agents[b].state \in {"moving", "logged_out"}
    /\ w.agents[b].state = "in_action" /\ ~w.agents[b].announced =>
         v.agents[b].state # "idle"

\* What an arrival brings, and what makes a busy agent idle.
Calm == ArrivalStep /\ BusyStep

\* What changes no state, and what leaves every busy agent alone.
LEMMA SteadyUndisturbed ==
  ASSUME NEW w, NEW v, Steady(v, w, {})
  PROVE  Undisturbed(v, w)
BY DEF Steady, Undisturbed

\* What an agent that may act does disturbs nobody: it is idle or in its window.
LEMMA ActorUndisturbed ==
  ASSUME NEW w, Good(w), NEW a \in Agents, requireActionableAgent(w, a),
         NEW v, Steady(v, w, {a})
  PROVE  Undisturbed(v, w)
<1>1. /\ w.agents[a].state # "moving"
      /\ w.agents[a].state = "in_action" => w.agents[a].announced
  BY DEF Good, Control, Waiting, requireActionableAgent
<1> QED
  BY <1>1 DEF Steady, Undisturbed

\* A step that disturbs nobody.
LEMMA CalmStep ==
  ASSUME IInv, NEW v, Undisturbed(v, world), Become(v)
  PROVE  Calm
<1>1. agents' = v.agents /\ agents = world.agents
  BY WorldNow DEF Become
<1> QED
  BY <1>1 DEF Undisturbed, Calm, ArrivalStep, BusyStep

\* A step that leaves the agents as they are.
LEMMA SameCalm ==
  ASSUME UNCHANGED agents
  PROVE  Calm
BY DEF Calm, ArrivalStep, BusyStep

\* The timer of an activity ends it, and disturbs nobody else.
LEMMA CompletionCalm ==
  ASSUME IInv, NEW a \in Agents, Completion(a), NEW v, Steady(v, world, {a}),
         world.agents[a].state # "moving", Become(v)
  PROVE  Calm
<1>1. agents' = v.agents /\ agents = world.agents
  BY WorldNow DEF Become
<1>2. ArrivalStep
  BY <1>1 DEF Steady, ArrivalStep
<1>3. BusyStep
  BY <1>1 DEF Steady, BusyStep
<1> QED
  BY <1>2, <1>3 DEF Calm

\* The invariant follows from a world in order and logins that stay apart.
LEMMA StepLemma ==
  ASSUME IInv, NEW v, Good(v), Become(v), loggingIn' \subseteq loggingIn,
         \A a \in loggingIn' : LoggedIn(v, a) => LoggedIn(world, a),
         \A a \in loggingIn' : Registered(world, a) => Registered(v, a)
  PROVE  IInv'
<1>1. v \in Worlds
  BY DEF Good, Control
<1>2. world' = v
  BY <1>1, BecomeWorld
<1>3. loggingIn' \subseteq Agents
  BY DEF IInv
<1>4. \A a \in loggingIn' : Registered(v, a) /\ ~LoggedIn(v, a)
  BY DEF IInv
<1> QED
  BY <1>2, <1>3, <1>4 DEF IInv

\* The world before the first registration is in order.
LEMMA InitLemma == Init => IInv
<1> SUFFICES ASSUME Init PROVE IInv
  OBVIOUS
<1> DEFINE G == [a \in Agents |-> None]
<1>1. Good(Started(G))
  BY EmptyLemma
<1>2. world = Started(G)
  BY DEF Init, world, EmptyWorld, Started
<1> QED
  BY <1>1, <1>2 DEF IInv, Init

(***************************************************************************)
(* The inductive step, action by action.                                   *)
(***************************************************************************)

\* registerAgent and deleteAgent write one registration.
LEMMA RegistrationStep ==
  ASSUME IInv, NEW a \in Agents, ~LoggedIn(world, a), a \notin loggingIn,
         NEW p \in Purse \cup {None},
         registrations' = [registrations EXCEPT ![a] = p],
         UNCHANGED <<agents, purses, transfers, announcements, timers, loggingIn>>
  PROVE  IInv'
<1> DEFINE R == [registrations EXCEPT ![a] = p]
           v == [ agents |-> agents, purses |-> purses, transfers |-> transfers,
                  announcements |-> announcements, timers |-> timers,
                  registrations |-> R ]
<1>1. registrations \in [Agents -> Purse \cup {None}]
  BY WorldNow, WorldsFields
<1>2. /\ R \in [Agents -> Purse \cup {None}]
      /\ \A b \in Agents \ {a} : R[b] = registrations[b]
  BY <1>1
<1>3. registrations' = R
  OBVIOUS
<1> HIDE DEF R
<1>4. v \in Worlds
  BY <1>2, WorldNow, WorldsFields DEF Worlds
<1>5. Good(v)
  BY <1>4, WorldNow, RegistrationLemma DEF R
<1>6. Become(v)
  BY <1>3 DEF Become
<1>7. \A b \in loggingIn : Registered(world, b) => Registered(v, b)
  BY <1>2, WorldNow DEF IInv, Registered
<1>8. \A b \in loggingIn : LoggedIn(v, b) => LoggedIn(world, b)
  BY WorldNow DEF LoggedIn
<1> HIDE DEF v
<1> QED
  BY <1>5, <1>6, <1>7, <1>8, StepLemma

\* A step that changes loggingIn only.
LEMMA LoggingInStep ==
  ASSUME IInv, NEW S \in SUBSET Agents, loggingIn' = S,
         \A a \in S : Registered(world, a) /\ ~LoggedIn(world, a),
         UNCHANGED <<agents, purses, transfers, announcements, timers,
                     registrations>>
  PROVE  IInv'
<1>1. world' = world
  BY DEF world
<1> QED
  BY <1>1 DEF IInv

\* Every lifecycle step keeps the inductive invariant.
LEMMA LifecycleStep ==
  ASSUME IInv, LifecycleNext
  PROVE  IInv' /\ Calm
<1>1. ASSUME NEW a \in Agents, registerAgent(a)
      PROVE  IInv' /\ Calm
  <2>1. ~LoggedIn(world, a) /\ a \notin loggingIn
    BY <1>1, WorldNow DEF registerAgent, IInv, Good, Saved
  <2>2. [money |-> InitialMoney, items |-> 0] \in Purse \cup {None}
    BY WorldAssumption DEF Purse
  <2> QED
    BY <1>1, <2>1, <2>2, RegistrationStep, SameCalm DEF registerAgent
<1>2. ASSUME NEW a \in Agents, deleteAgent(a)
      PROVE  IInv' /\ Calm
  BY <1>2, RegistrationStep, SameCalm DEF deleteAgent
<1>3. ASSUME NEW a \in Agents, loginAgent(a)
      PROVE  IInv' /\ Calm
  <2>1. \A b \in loggingIn \cup {a} : Registered(world, b) /\ ~LoggedIn(world, b)
    BY <1>3 DEF loginAgent, IInv
  <2>2. loggingIn \cup {a} \in SUBSET Agents
    BY DEF IInv
  <2> QED
    BY <1>3, <2>1, <2>2, LoggingInStep, SameCalm DEF loginAgent
<1>4. ASSUME NEW a \in Agents, completeLogin(a)
      PROVE  IInv' /\ Calm
  <2> DEFINE v == startIdleReminder(login(world, a), a)
  <2>1. Registered(world, a) /\ ~LoggedIn(world, a) /\ a \in loggingIn
    BY <1>4 DEF completeLogin, IInv
  <2>2. /\ Good(v) /\ v.registrations = world.registrations
        /\ \A b \in Agents : LoggedIn(v, b) <=> LoggedIn(world, b) \/ b = a
        /\ Steady(v, world, {})
    BY <2>1, WorldNow, LoginLemma
  <2>3. Become(v) /\ loggingIn' = loggingIn \ {a}
    BY <1>4 DEF completeLogin
  <2> HIDE DEF v
  <2>4. loggingIn' \subseteq loggingIn /\ loggingIn \subseteq Agents
    BY <2>3 DEF IInv
  <2>5. /\ \A b \in loggingIn' : LoggedIn(v, b) => LoggedIn(world, b)
        /\ \A b \in loggingIn' : Registered(world, b) => Registered(v, b)
    BY <2>2, <2>3, <2>4 DEF Registered
  <2>6. IInv'
    BY <2>2, <2>3, <2>4, <2>5, StepLemma
  <2> QED
    BY <2>2, <2>3, <2>6, SteadyUndisturbed, CalmStep
<1>5. ASSUME NEW a \in Agents, failLogin(a)
      PROVE  IInv' /\ Calm
  <2>1. /\ \A b \in loggingIn \ {a} : Registered(world, b) /\ ~LoggedIn(world, b)
        /\ loggingIn \ {a} \in SUBSET Agents
    BY DEF IInv
  <2> QED
    BY <1>5, <2>1, LoggingInStep, SameCalm DEF failLogin
<1>6. ASSUME NEW a \in Agents, logoutAgent(a)
      PROVE  IInv' /\ Calm
  <2>1. PICK faults \in FaultSets(LogoutWrites(a)) :
          LET settled   == cancelPendingTransfersForAgent(world, a, faults)
              recovered == recoverRefundFailedTransfersForAgent(
                             persistLoggedInAgentState(settled, a), a, faults)
          IN  Become(IF <<"writeback", a>> \in faults THEN settled
                     ELSE logout(cleanupServerAnnouncementsForAgent(
                                   cancelByAgent(recovered, a), a), a))
    BY <1>6 DEF logoutAgent
  <2> DEFINE settled   == cancelPendingTransfersForAgent(world, a, faults)
             recovered == recoverRefundFailedTransfersForAgent(
                            persistLoggedInAgentState(settled, a), a, faults)
             gone      == logout(cleanupServerAnnouncementsForAgent(
                                   cancelByAgent(recovered, a), a), a)
  <2>2. LoggedIn(world, a) /\ loggingIn' = loggingIn
    BY <1>6 DEF logoutAgent
  <2>3. /\ Good(settled) /\ Keeps(settled, world) /\ Steady(settled, world, {})
        /\ Good(gone) /\ Steady(gone, world, {a}) /\ gone.agents[a].state = "logged_out"
        /\ \A b \in Agents : /\ LoggedIn(gone, b) => LoggedIn(world, b)
                             /\ Registered(world, b) => Registered(gone, b)
    BY <2>2, WorldNow, LogoutLemma
  <2>4. Become(IF <<"writeback", a>> \in faults THEN settled ELSE gone)
    BY <2>1
  <2> HIDE DEF settled, recovered, gone
  <2>5. loggingIn' \subseteq Agents
    BY <2>2 DEF IInv
  <2>6. CASE <<"writeback", a>> \in faults
    <3>1. Become(settled)
      BY <2>4, <2>6
    <3>2. IInv'
      BY <2>2, <2>3, <2>5, <3>1, StepLemma DEF Keeps
    <3> QED
      BY <2>3, <3>1, <3>2, SteadyUndisturbed, CalmStep
  <2>7. CASE <<"writeback", a>> \notin faults
    <3>1. Become(gone)
      BY <2>4, <2>7
    <3>2. IInv'
      BY <2>2, <2>3, <2>5, <3>1, StepLemma
    <3>3. Undisturbed(gone, world)
      BY <2>3 DEF Steady, Undisturbed
    <3> QED
      BY <3>1, <3>2, <3>3, CalmStep
  <2> QED
    BY <2>6, <2>7
<1>7. CASE restart
  <2>1. registrations \in [Agents -> Purse \cup {None}]
    BY WorldNow, WorldsFields
  <2>2. Good(Started(registrations))
    BY <2>1, EmptyLemma
  <2>3. Become(Started(registrations))
    BY <1>7 DEF restart, Become, EmptyWorld, Started
  <2>4. loggingIn' = {}
    BY <1>7 DEF restart
  <2>5. IInv'
    BY <2>2, <2>3, <2>4, StepLemma
  <2>6. Undisturbed(Started(registrations), world)
    BY DEF Started, LoggedOut, Undisturbed
  <2> QED
    BY <2>3, <2>5, <2>6, CalmStep
<1> QED
  BY <1>1, <1>2, <1>3, <1>4, <1>5, <1>6, <1>7 DEF LifecycleNext

\* A step to a world that keeps logins and registrations.
LEMMA KeepStep ==
  ASSUME IInv, NEW v, Good(v), Keeps(v, world), Become(v), UNCHANGED loggingIn
  PROVE  IInv'
<1>1. loggingIn' \subseteq Agents /\ loggingIn' = loggingIn
  BY DEF IInv
<1> QED
  BY <1>1, StepLemma DEF Keeps

\* Only writes of a kind in FailingWrites throw.
LEMMA FaultsFail ==
  ASSUME NEW Points, NEW faults \in FaultSets(Points), NEW kind, NEW x
  PROVE  <<kind, x>> \in faults => kind \in FailingWrites
<1>1. ASSUME <<kind, x>> \in faults PROVE <<kind, x>>[1] \in FailingWrites
  BY <1>1 DEF FaultSets
<1> QED
  BY <1>1

\* Every command of an agent keeps the inductive invariant.
LEMMA CommandStep ==
  ASSUME IInv, CommandNext
  PROVE  IInv' /\ Calm
<1>1. ASSUME NEW a \in Agents, move(a)
      PROVE  IInv' /\ Calm
  <2>1. PICK faults : Become(executeValidatedMove(Interrupted(a, faults), a))
    BY <1>1 DEF move
  <2>2. requireActionableAgent(world, a) /\ UNCHANGED loggingIn
    BY <1>1 DEF move
  <2> QED
    BY <2>1, <2>2, WorldNow, MoveLemma, KeepStep, ActorUndisturbed, CalmStep
    DEF Interrupted
<1>2. ASSUME NEW a \in Agents, executeWait(a)
      PROVE  IInv' /\ Calm
  <2>1. PICK faults : Become(executeValidatedWait(Interrupted(a, faults), a))
    BY <1>2 DEF executeWait
  <2>2. requireActionableAgent(world, a) /\ UNCHANGED loggingIn
    BY <1>2 DEF executeWait
  <2> QED
    BY <2>1, <2>2, WorldNow, WaitLemma, KeepStep, ActorUndisturbed, CalmStep
    DEF Interrupted
<1>3. ASSUME NEW a \in Agents, NEW x \in Actions, executeAction(a, x)
      PROVE  IInv' /\ Calm
  <2>1. PICK faults \in FaultSets(InterruptionWrites(a) \cup {<<"activity", a>>}) :
          Become(executeValidatedAction(Interrupted(a, faults), a, x, faults))
    BY <1>3 DEF executeAction
  <2>2. requireActionableAgent(world, a) /\ UNCHANGED loggingIn
    BY <1>3 DEF executeAction
  <2>3. <<"activity", a>> \in faults => "activity" \in FailingWrites
    BY FaultsFail
  <2> QED
    BY <2>1, <2>2, <2>3, WorldNow, ActionLemma, KeepStep, ActorUndisturbed, CalmStep
    DEF Interrupted
<1>4. ASSUME NEW a \in Agents, NEW x \in Actions, rejectAction(a, x)
      PROVE  IInv' /\ Calm
  <2>1. PICK faults : Become(handleServerAnnouncementInterruption(
                               clearExcludedInfoCommands(world, a), a, faults))
    BY <1>4 DEF rejectAction
  <2>2. requireActionableAgent(world, a) /\ UNCHANGED loggingIn
    BY <1>4 DEF rejectAction
  <2> QED
    BY <2>1, <2>2, WorldNow, RejectActionLemma, KeepStep, ActorUndisturbed, CalmStep
<1>5. ASSUME NEW a \in Agents, NEW item_type, useItem(a, item_type)
      PROVE  IInv' /\ Calm
  <2>1. PICK faults :
          Become(executeValidatedUseItem(Interrupted(a, faults), a, item_type))
    BY <1>5 DEF useItem
  <2>2. requireActionableAgent(world, a) /\ UNCHANGED loggingIn
    BY <1>5 DEF useItem
  <2> QED
    BY <2>1, <2>2, WorldNow, UseItemLemma, KeepStep, ActorUndisturbed, CalmStep
    DEF Interrupted
<1>6. ASSUME NEW a \in Agents, NEW command \in InfoCommands, requestInfo(a, command)
      PROVE  IInv' /\ Calm
  <2> DEFINE A == [agents EXCEPT ![a].excluded = @ \cup {command}]
             v == [world EXCEPT !.agents = A]
  <2>1. /\ agents' = A /\ UNCHANGED loggingIn
        /\ UNCHANGED <<purses, transfers, announcements, timers, registrations>>
    BY <1>6 DEF requestInfo
  <2>2. Good(v) /\ Keeps(v, world) /\ Steady(v, world, {})
    BY WorldNow, InfoLemma
  <2> HIDE DEF A
  <2>3. Become(v)
    BY <2>1, WorldNow DEF Become, world
  <2> HIDE DEF v
  <2> QED
    BY <2>1, <2>2, <2>3, KeepStep, SteadyUndisturbed, CalmStep
<1> QED
  BY <1>1, <1>2, <1>3, <1>4, <1>5, <1>6 DEF CommandNext

\* A transfer request disturbs its two agents only: neither moves, and outside a
\* window neither is made idle unless the debit of the offer throws.
LEMMA OfferCalm ==
  ASSUME IInv, NEW a \in Agents, NEW to \in Agents, NEW t, NEW faults,
         NEW u, NEW v, Steady(u, world, {a}), ~world.agents[a].announced => u = world,
         \/ Become(u)
         \/ /\ Become(v) /\ Steady(v, u, {a, to})
            /\ u.agents[a].state # "moving" /\ u.agents[to].state # "moving"
            /\ <<"debit", t>> \notin faults =>
                 v.agents[a].state # "idle" /\ v.agents[to].state # "idle",
         <<"debit", t>> \in faults => \A b \in {a, to} : PulledIn(b)
  PROVE  Calm
<1>1. world.agents[a].state = "moving" => u = world
  BY WorldNow DEF Good, Control, Waiting
<1>2. CASE Become(u)
  <2>1. Undisturbed(u, world)
    BY <1>1 DEF Steady, Undisturbed
  <2> QED
    BY <1>2, <2>1, CalmStep
<1>3. ASSUME Become(v), Steady(v, u, {a, to}),
             u.agents[a].state # "moving", u.agents[to].state # "moving",
             <<"debit", t>> \notin faults =>
                 v.agents[a].state # "idle" /\ v.agents[to].state # "idle"
      PROVE  Calm
  <2>1. agents' = v.agents /\ agents = world.agents
    BY <1>3, WorldNow DEF Become
  <2>2. \A b \in Agents : world.agents[b].state = "moving" => v.agents[b].state = "moving"
    BY <1>1, <1>3 DEF Steady
  <2>3. ASSUME NEW b \in Agents, world.agents[b].state = "in_action",
               ~world.agents[b].announced, v.agents[b].state = "idle"
        PROVE  PulledIn(b)
    <3>1. b \in {a, to}
      BY <1>3, <2>3 DEF Steady
    <3> QED
      BY <1>3, <2>3, <3>1
  <2> QED
    BY <2>1, <2>2, <2>3 DEF Calm, ArrivalStep, BusyStep
<1> QED
  BY <1>2, <1>3

\* Answering an offer disturbs nobody: the agent that answers is in a transfer.
LEMMA AnswerCalm ==
  ASSUME IInv, NEW a \in Agents, agents[a].pending_transfer_id # None,
         NEW v, Steady(v, world, {a}), Become(v)
  PROVE  Calm
<1>1. world.agents[a].state = "in_transfer"
  <2>1. Backed(world, a)
    BY WorldNow DEF Good, Control, Roles
  <2> QED
    BY <2>1, WorldNow DEF Backed, isInTransfer
<1>2. Undisturbed(v, world)
  BY <1>1 DEF Steady, Undisturbed
<1> QED
  BY <1>2, CalmStep

\* Every request about an offer keeps the inductive invariant.
LEMMA TransferStep ==
  ASSUME IInv, TransferNext
  PROVE  IInv' /\ Calm
<1>1. ASSUME NEW a \in Agents, NEW to \in Agents, NEW payload \in Payloads,
             NEW t \in Transfers, startTransferRequest(a, to, payload, t)
      PROVE  IInv' /\ Calm
  <2>1. PICK faults \in FaultSets(InterruptionWrites(a) \cup {<<"debit", t>>}) :
          LET ready == Interrupted(a, faults)
          IN  Become(IF validateTransfer(ready, a, to, payload)
                     THEN startTransfer(ready, t, a, to, payload, faults)
                     ELSE ready)
    BY <1>1 DEF startTransferRequest
  <2> DEFINE ready == Interrupted(a, faults)
             offered == startTransfer(ready, t, a, to, payload, faults)
  <2>2. transfers[t].status = "absent" /\ UNCHANGED loggingIn
    BY <1>1 DEF startTransferRequest
  <2>3. ~Live(world, t)
    BY <2>2, WorldNow DEF Live
  <2>4. payload \in Purse
    BY EngineAssumption
  <2>5. /\ Good(ready) /\ Keeps(ready, world) /\ Steady(ready, world, {a})
        /\ ~world.agents[a].announced => ready = world
        /\ validateTransfer(ready, a, to, payload) =>
             /\ Good(offered) /\ Keeps(offered, world) /\ Steady(offered, ready, {a, to})
             /\ ready.agents[a].state # "moving" /\ ready.agents[to].state # "moving"
             /\ <<"debit", t>> \notin faults =>
                  offered.agents[a].state # "idle" /\ offered.agents[to].state # "idle"
    BY <2>3, <2>4, WorldNow, OfferLemma DEF Interrupted
  <2>6. \/ validateTransfer(ready, a, to, payload) /\ Become(offered)
        \/ Become(ready)
    BY <2>1
  <2>7. <<"debit", t>> \in faults => \A b \in {a, to} : PulledIn(b)
    BY <1>1, FaultsFail DEF PulledIn
  <2> HIDE DEF ready, offered
  <2>8. IInv'
    BY <2>2, <2>5, <2>6, KeepStep
  <2>9. Calm
    BY <2>5, <2>6, <2>7, WorldNow, OfferCalm
  <2> QED
    BY <2>8, <2>9
<1>2. ASSUME NEW a \in Agents, acceptTransferRequest(a)
      PROVE  IInv' /\ Calm
  <2> DEFINE t == agents[a].pending_transfer_id
  <2>1. PICK faults :
          LET ready == Interrupted(a, faults)
          IN  Become(IF canAcceptTransfer(ready, t, a)
                     THEN acceptTransfer(ready, t, a, faults) ELSE ready)
    BY <1>2 DEF acceptTransferRequest
  <2> DEFINE ready == Interrupted(a, faults)
             answered == acceptTransfer(ready, t, a, faults)
  <2>2. t # None /\ UNCHANGED loggingIn
    BY <1>2 DEF acceptTransferRequest
  <2>3. t \in Transfers
    BY <2>2, WorldNow, WorldsFields DEF AgentRecord
  <2>4. Good(ready) /\ Keeps(ready, world) /\ Steady(ready, world, {a})
    BY WorldNow, InterruptionLemma DEF Interrupted
  <2>5. \/ canAcceptTransfer(ready, t, a) /\ Become(answered)
        \/ Become(ready)
    BY <2>1
  <2> HIDE DEF ready, t
  <2>6. canAcceptTransfer(ready, t, a) =>
          Good(answered) /\ Keeps(answered, ready) /\ Steady(answered, ready, {})
    BY <2>3, <2>4, AcceptTransferLemma
  <2> HIDE DEF answered
  <2>7. IInv'
    BY <2>2, <2>4, <2>5, <2>6, KeepStep DEF Keeps
  <2>8. Steady(answered, ready, {}) => Steady(answered, world, {a})
    BY <2>4 DEF Steady
  <2>9. agents[a].pending_transfer_id # None
    BY <2>2 DEF t
  <2>10. Calm
    BY <2>4, <2>5, <2>6, <2>8, <2>9, AnswerCalm
  <2> QED
    BY <2>7, <2>10
<1>3. ASSUME NEW a \in Agents, rejectTransferRequest(a)
      PROVE  IInv' /\ Calm
  <2> DEFINE t == agents[a].pending_transfer_id
  <2>1. PICK faults :
          LET ready == Interrupted(a, faults)
          IN  Become(IF canRejectTransfer(ready, t, a)
                     THEN rejectTransfer(ready, t, a, faults) ELSE ready)
    BY <1>3 DEF rejectTransferRequest
  <2> DEFINE ready == Interrupted(a, faults)
             answered == rejectTransfer(ready, t, a, faults)
  <2>2. t # None /\ UNCHANGED loggingIn
    BY <1>3 DEF rejectTransferRequest
  <2>3. t \in Transfers
    BY <2>2, WorldNow, WorldsFields DEF AgentRecord
  <2>4. Good(ready) /\ Keeps(ready, world) /\ Steady(ready, world, {a})
    BY WorldNow, InterruptionLemma DEF Interrupted
  <2>5. \/ canRejectTransfer(ready, t, a) /\ Become(answered)
        \/ Become(ready)
    BY <2>1
  <2> HIDE DEF ready, t
  <2>6. canRejectTransfer(ready, t, a) =>
          Good(answered) /\ Keeps(answered, ready) /\ Steady(answered, ready, {})
    BY <2>3, <2>4, RejectTransferLemma DEF canRejectTransfer
  <2> HIDE DEF answered
  <2>7. IInv'
    BY <2>2, <2>4, <2>5, <2>6, KeepStep DEF Keeps
  <2>8. Steady(answered, ready, {}) => Steady(answered, world, {a})
    BY <2>4 DEF Steady
  <2>9. agents[a].pending_transfer_id # None
    BY <2>2 DEF t
  <2>10. Calm
    BY <2>4, <2>5, <2>6, <2>8, <2>9, AnswerCalm
  <2> QED
    BY <2>7, <2>10
<1> QED
  BY <1>1, <1>2, <1>3 DEF TransferNext

\* Every timer that fires keeps the inductive invariant.
LEMMA TimerStep ==
  ASSUME IInv, TimerNext
  PROVE  IInv' /\ Calm
<1>1. \A type, x : x \in Pending(type) => x \in world.timers /\ x.type = type
  BY WorldNow DEF Pending
<1>2. ASSUME NEW a \in Agents, idleReminderFired(a)
      PROVE  IInv' /\ Calm
  <2>1. PICK x \in Pending("idle_reminder") :
          a \in x.agent_ids /\ Become(handleIdleReminderFired(world, x, a))
    BY <1>2 DEF idleReminderFired
  <2>2. /\ Good(handleIdleReminderFired(world, x, a))
        /\ Keeps(handleIdleReminderFired(world, x, a), world)
        /\ handleIdleReminderFired(world, x, a).agents = world.agents
    BY <1>1, <2>1, WorldNow, IdleReminderFiredLemma
  <2>3. UNCHANGED agents
    BY <2>1, <2>2, WorldNow DEF Become
  <2> QED
    BY <1>2, <2>1, <2>2, <2>3, KeepStep, SameCalm DEF idleReminderFired
<1>3. ASSUME NEW a \in Agents, waitCompleted(a)
      PROVE  IInv' /\ Calm
  <2>1. PICK x \in Pending("wait") :
          a \in x.agent_ids /\ Become(handleWaitCompleted(world, x, a))
    BY <1>3 DEF waitCompleted
  <2> DEFINE v == handleWaitCompleted(world, x, a)
  <2>2. /\ Good(v) /\ Keeps(v, world) /\ Steady(v, world, {a})
        /\ world.agents[a].state # "moving"
    BY <1>1, <2>1, WorldNow, WaitCompletedLemma
  <2>3. Completion(a) /\ UNCHANGED loggingIn
    BY <1>3 DEF waitCompleted, Completion
  <2> HIDE DEF v
  <2> QED
    BY <2>1, <2>2, <2>3, KeepStep, CompletionCalm DEF v
<1>4. ASSUME NEW a \in Agents, movementCompleted(a)
      PROVE  IInv' /\ Calm
  <2>1. PICK x \in Pending("movement") :
          a \in x.agent_ids /\ Become(handleMovementCompleted(world, x, a))
    BY <1>4 DEF movementCompleted
  <2>2. /\ Good(handleMovementCompleted(world, x, a))
        /\ Keeps(handleMovementCompleted(world, x, a), world)
        /\ handleMovementCompleted(world, x, a).agents[a].state = "idle"
        /\ \A b \in Agents \ {a} :
             handleMovementCompleted(world, x, a).agents[b] = world.agents[b]
        /\ world.agents[a].pending_announcements # {} =>
             handleMovementCompleted(world, x, a).agents[a].announced
    BY <1>1, <2>1, WorldNow, MovementCompletedLemma
  <2>3. IInv'
    BY <1>4, <2>1, <2>2, KeepStep DEF movementCompleted
  <2>4. /\ agents'[a].state = "idle"
        /\ \A b \in Agents \ {a} : agents'[b] = agents[b]
        /\ agents[a].pending_announcements # {} => agents'[a].announced
    BY <2>1, <2>2, WorldNow DEF Become
  <2>5. ArrivalStep
    BY <2>4 DEF ArrivalStep
  <2>6. BusyStep
    BY <1>4, <2>4 DEF BusyStep, Completion
  <2> QED
    BY <2>3, <2>5, <2>6 DEF Calm
<1>5. ASSUME NEW a \in Agents, actionCompleted(a)
      PROVE  IInv' /\ Calm
  <2>1. PICK x \in Pending("action"), faults \in FaultSets({<<"activity", a>>}) :
          a \in x.agent_ids /\ Become(handleActionCompleted(world, x, a, faults))
    BY <1>5 DEF actionCompleted
  <2>2. <<"activity", a>> \in faults => "activity" \in FailingWrites
    BY FaultsFail
  <2> DEFINE v == handleActionCompleted(world, x, a, faults)
  <2>3. /\ Good(v) /\ Keeps(v, world) /\ Steady(v, world, {a})
        /\ world.agents[a].state # "moving"
    BY <1>1, <2>1, <2>2, WorldNow, ActionCompletedLemma
  <2>4. Completion(a) /\ UNCHANGED loggingIn
    BY <1>5 DEF actionCompleted, Completion
  <2> HIDE DEF v
  <2> QED
    BY <2>1, <2>3, <2>4, KeepStep, CompletionCalm DEF v
<1>6. ASSUME NEW a \in Agents, itemUseCompleted(a)
      PROVE  IInv' /\ Calm
  <2>1. PICK x \in Pending("item_use"), faults \in FaultSets({<<"activity", a>>}) :
          a \in x.agent_ids /\ Become(handleItemUseCompleted(world, x, a, faults))
    BY <1>6 DEF itemUseCompleted
  <2>2. <<"activity", a>> \in faults => "activity" \in FailingWrites
    BY FaultsFail
  <2> DEFINE v == handleItemUseCompleted(world, x, a, faults)
  <2>3. /\ Good(v) /\ Keeps(v, world) /\ Steady(v, world, {a})
        /\ world.agents[a].state # "moving"
    BY <1>1, <2>1, <2>2, WorldNow, ItemUseCompletedLemma
  <2>4. Completion(a) /\ UNCHANGED loggingIn
    BY <1>6 DEF itemUseCompleted, Completion
  <2> HIDE DEF v
  <2> QED
    BY <2>1, <2>3, <2>4, KeepStep, CompletionCalm DEF v
<1>7. ASSUME NEW t \in Transfers, transferTimeout(t)
      PROVE  IInv' /\ Calm
  <2>1. PICK x \in Pending("transfer"), faults \in FaultSets({<<"refund", t>>}) :
          x.about = t /\ Become(handleTransferTimeout(world, x, faults))
    BY <1>7 DEF transferTimeout
  <2> DEFINE v == handleTransferTimeout(world, x, faults)
  <2>2. Good(v) /\ Keeps(v, world) /\ Steady(v, world, {})
    BY <1>1, <2>1, WorldNow, TransferTimeoutLemma
  <2> HIDE DEF v
  <2> QED
    BY <1>7, <2>1, <2>2, KeepStep, SteadyUndisturbed, CalmStep DEF v, transferTimeout
<1> QED
  BY <1>2, <1>3, <1>4, <1>5, <1>6, <1>7 DEF TimerNext

\* Every announcement and every delivery keeps the inductive invariant.
LEMMA AnnouncementStep ==
  ASSUME IInv, AnnouncementNext
  PROVE  IInv' /\ Calm
<1>1. ASSUME NEW n \in Announcements, announce(n)
      PROVE  IInv' /\ Calm
  <2> DEFINE v == fireServerAnnouncement(world, n)
  <2>1. /\ Good(v) /\ Keeps(v, world)
        /\ \A a \in Agents : v.agents[a].state = world.agents[a].state
    BY <1>1, WorldNow, AnnounceLemma DEF announce
  <2>2. Become(v) /\ UNCHANGED loggingIn
    BY <1>1 DEF announce
  <2> HIDE DEF v
  <2> QED
    BY <2>1, <2>2, KeepStep, SteadyUndisturbed, CalmStep DEF Steady
<1>2. ASSUME NEW a \in Agents, deliverNotification(a)
      PROVE  IInv' /\ Calm
  <2> DEFINE v == clearActiveServerAnnouncement(world, a)
  <2>1. /\ Good(v) /\ Keeps(v, world)
        /\ \A b \in Agents : v.agents[b].state = world.agents[b].state
    BY WorldNow, ClearWindowGood
  <2>2. Become(v) /\ UNCHANGED loggingIn
    BY <1>2 DEF deliverNotification
  <2> HIDE DEF v
  <2> QED
    BY <2>1, <2>2, KeepStep, SteadyUndisturbed, CalmStep DEF Steady
<1> QED
  BY <1>1, <1>2 DEF AnnouncementNext

\* IInv is inductive, and its steps are calm.
LEMMA InductiveStep == IInv /\ [Next]_vars => IInv' /\ Calm
<1> SUFFICES ASSUME IInv, [Next]_vars PROVE IInv' /\ Calm
  OBVIOUS
<1>1. CASE UNCHANGED vars
  BY <1>1, LoggingInStep, SameCalm DEF vars, IInv
<1>2. CASE Next
  BY <1>2, LifecycleStep, CommandStep, TransferStep, TimerStep, AnnouncementStep
  DEF Next
<1> QED
  BY <1>1, <1>2

(***************************************************************************)
(* What the inductive invariant says of the variables.                     *)
(***************************************************************************)

\* The invariant contains the types of the stores.
LEMMA TypesHold == IInv => TypeOK
<1> SUFFICES ASSUME IInv PROVE TypeOK
  OBVIOUS
<1>1. /\ agents \in [Agents -> AgentRecord] /\ purses \in [Agents -> Purse]
      /\ transfers \in [Transfers -> OfferRecord]
      /\ announcements \in [Announcements -> SUBSET Agents]
      /\ timers \in SUBSET TimerRecord
      /\ registrations \in [Agents -> Purse \cup {None}]
  BY WorldNow, WorldsFields
<1> QED
  BY <1>1 DEF TypeOK, IInv

\* The roles of the offers, read off the variables.
LEMMA RolesHold == IInv => TransferRoles
<1> SUFFICES ASSUME IInv PROVE TransferRoles
  OBVIOUS
<1>1. Roles(world, None) /\ Timing(world)
  BY WorldNow DEF Good, Control
<1>2. \A t \in Transfers : t # None
  BY WorldAssumption
<1>3. ASSUME NEW t \in Transfers, Live(world, t) PROVE OpenOfferIsHeld(t)
  <2>1. Held(world, t, None)
    BY <1>1, <1>3 DEF Roles
  <2> QED
    BY <1>2, <2>1, WorldNow DEF Held, OpenOfferIsHeld
<1>4. ASSUME NEW a \in Agents PROVE RolesAreBacked(a)
  <2>1. Backed(world, a)
    BY <1>1 DEF Roles
  <2> QED
    BY <2>1, WorldNow DEF Backed, RolesAreBacked
<1>5. ASSUME NEW x \in Pending("transfer")
      PROVE  /\ x.about \in Transfers /\ Live(world, x.about)
             /\ x = TransferTimer(x.about, transfers[x.about])
  <2>1. x \in world.timers /\ x.type = "transfer"
    BY WorldNow DEF Pending
  <2>2. Timed(world, x)
    BY <1>1, <2>1 DEF Timing
  <2> QED
    BY <2>1, <2>2, WorldNow DEF Timed
<1> QED
  BY <1>3, <1>4, <1>5 DEF TransferRoles

\* The timers of an agent, read off the variables.
LEMMA TimingHolds == IInv => TimersMatchState
<1> SUFFICES ASSUME IInv, NEW a \in Agents
    PROVE LET Own(types) == TimersOf(world, a, types)
          IN  /\ IF agents[a].state = "in_action"
                 THEN \E timer \in timers : Own(ActivityTypes) = {timer}
                 ELSE Own(ActivityTypes) = {}
              /\ IF agents[a].state = "moving"
                 THEN Own({"movement"}) = {Timer("movement", {a}, None)}
                 ELSE Own({"movement"}) = {}
              /\ Own({"idle_reminder"}) # {} =>
                   /\ agents[a].state = "idle"
                   /\ Own({"idle_reminder"}) = {Timer("idle_reminder", {a}, None)}
  BY DEF TimersMatchState
<1>1. Timing(world)
  BY WorldNow DEF Good, Control
<1>2. Busy(world, a)
  BY <1>1 DEF Timing
<1>3. ASSUME NEW x \in timers, a \in x.agent_ids
      PROVE  /\ x.type = "idle_reminder" => x = IR(a) /\ agents[a].state = "idle"
             /\ x.type = "movement" => x = MV(a) /\ agents[a].state = "moving"
             /\ x.type \in ActivityTypes => agents[a].state = "in_action"
  BY <1>1, <1>3, WorldNow DEF Timing, Timed
<1>4. IF agents[a].state = "in_action"
      THEN \E x \in timers : TimersOf(world, a, ActivityTypes) = {x}
      ELSE TimersOf(world, a, ActivityTypes) = {}
  <2>1. CASE agents[a].state = "in_action"
    <3>1. PICK x \in timers : a \in x.agent_ids /\ x.type \in ActivityTypes
      BY <1>2, <2>1, WorldNow DEF Busy
    <3>2. \A y \in TimersOf(world, a, ActivityTypes) : y = x
      BY <1>2, <3>1, WorldNow DEF Busy, OneActivity, TimersOf
    <3>3. x \in TimersOf(world, a, ActivityTypes)
      BY <3>1, WorldNow DEF TimersOf
    <3>4. TimersOf(world, a, ActivityTypes) = {x}
      BY <3>2, <3>3
    <3> QED
      BY <2>1, <3>4
  <2>2. CASE agents[a].state # "in_action"
    BY <1>3, <2>2, WorldNow DEF TimersOf
  <2> QED
    BY <2>1, <2>2
<1>5. IF agents[a].state = "moving"
      THEN TimersOf(world, a, {"movement"}) = {MV(a)}
      ELSE TimersOf(world, a, {"movement"}) = {}
  <2>1. \A y \in TimersOf(world, a, {"movement"}) :
          y = MV(a) /\ agents[a].state = "moving"
    BY <1>3, WorldNow DEF TimersOf
  <2>2. agents[a].state = "moving" => MV(a) \in TimersOf(world, a, {"movement"})
    BY <1>2, WorldNow DEF Busy, TimersOf, MV, Timer
  <2> QED
    BY <2>1, <2>2
<1>6. TimersOf(world, a, {"idle_reminder"}) # {} =>
        /\ agents[a].state = "idle"
        /\ TimersOf(world, a, {"idle_reminder"}) = {IR(a)}
  <2>1. \A y \in TimersOf(world, a, {"idle_reminder"}) :
          y = IR(a) /\ agents[a].state = "idle"
    BY <1>3, WorldNow DEF TimersOf
  <2> QED
    BY <2>1
<1> QED
  BY <1>4, <1>5, <1>6 DEF IR, MV

\* The announcement queues, read off the variables.
LEMMA WaitingHolds == IInv => AnnouncementsAwaitMovers
BY WorldNow DEF Good, Control, Waiting, AnnouncementsAwaitMovers

\* The registrations, read off the variables.
LEMMA SavedHolds == IInv => MemoryMatchesDisk
BY WorldNow DEF Good, Saved, MemoryMatchesDisk

(***************************************************************************)
(* The theorems.                                                           *)
(***************************************************************************)

\* Every reachable world satisfies the inductive invariant.
THEOREM Invariance == Spec => []IInv
<1>1. Init => IInv
  BY InitLemma
<1>2. IInv /\ [Next]_vars => IInv'
  BY InductiveStep
<1> QED
  BY <1>1, <1>2, PTL DEF Spec

\* In every reachable world the stores hold the records their types declare,
\* and nobody owns a negative amount, whatever the commands, timers,
\* announcements, restarts and failing writes were.
THEOREM TypeCorrectness == Spec => []TypeOK
BY Invariance, TypesHold, PTL

\* An open offer, the roles of its two agents and its timer always exist
\* together: of acquireTransferRolesPair and clearTransferState neither can
\* leave an agent tied to an offer that is over, nor an offer without deadline.
THEOREM OffersAreHeld == Spec => []TransferRoles
BY Invariance, RolesHold, PTL

\* A busy agent always has the one timer that frees it, and no timer of
\* executeValidatedMove, -Action, -Wait, -UseItem or startIdleReminder
\* outlives the state it was made for.
THEOREM TimersAgree == Spec => []TimersMatchState
BY Invariance, TimingHolds, PTL

\* Announcement store and agents agree on who still has to hear what, and
\* only moving agents wait.
THEOREM OnlyMoversAreAwaited == Spec => []AnnouncementsAwaitMovers
BY Invariance, WaitingHolds, PTL

\* With activity writes that succeed, a logged-in agent's registration holds
\* what the agent owns in memory, whichever writes of a transfer throw.
THEOREM DiskIsUpToDate == Spec => []MemoryMatchesDisk
BY Invariance, SavedHolds, PTL

\* An agent stops moving by arriving or logging out, never because of what
\* others or an announcement do, and its arrival opens its window when it missed
\* something: handleMovementCompleted delivers whatever is pending.
THEOREM MoversAlwaysHear == Spec => MoversHearAnnouncements
<1>1. IInv /\ [Next]_vars => [ArrivalStep]_vars
  BY InductiveStep DEF Calm
<1> QED
  BY <1>1, Invariance, PTL DEF Spec, MoversHearAnnouncements

\* Whatever others send, announce or cancel, an agent that is busy outside a
\* window is made idle by the timer of what it does, or by a transfer that pulled
\* it in and could not be written.
THEOREM OnlyWindowsEverInterrupt == Spec => OnlyWindowsInterrupt
<1>1. IInv /\ [Next]_vars => [BusyStep]_vars
  BY InductiveStep DEF Calm
<1> QED
  BY <1>1, Invariance, PTL DEF Spec, OnlyWindowsInterrupt

(***************************************************************************)
(* What a prompt offers is accepted: a consequence of IInv and of what an  *)
(* interruption leaves alone.                                              *)
(***************************************************************************)
\* An interruption that finds no transfer makes its agent idle, and touches no
\* other agent and no purse.
InterruptedAlone(v, w, a) ==
  /\ v.agents \in [Agents -> AgentRecord]
  /\ v.purses = w.purses
  /\ v.agents[a].state = "idle" \/ v.agents = w.agents
  /\ \A b \in Agents :
       /\ b # a => v.agents[b] = w.agents[b]
       /\ v.agents[b].active_transfer_id = w.agents[b].active_transfer_id
       /\ v.agents[b].pending_transfer_id = w.agents[b].pending_transfer_id
       /\ v.agents[b].pending_conversation_id = w.agents[b].pending_conversation_id

\* interruptActivity changes one state at most.
LEMMA ActivityAlone ==
  ASSUME NEW w, Good(w), NEW a \in Agents
  PROVE  /\ interruptActivity(w, a) \in Worlds
         /\ interruptActivity(w, a).purses = w.purses
         /\ IdleAtMost(interruptActivity(w, a), w, a)
<1> DEFINE u == interruptActivity(w, a)
<1>1. w \in Worlds /\ OneActivity(w.timers, a) /\ ActivityTypes = {"action", "wait", "item_use"}
  BY DEF Good, Control, Timing, Busy, ActivityTypes
<1>2. CASE w.agents[a].state = "in_action"
  <2>1. u = cancelActive(cancelActive(cancelActive(w, a, "action"), a, "wait"),
                         a, "item_use")
    BY <1>2 DEF interruptActivity
  <2> HIDE DEF u
  <2>2. Updates(u, w, u.agents, Without(w.timers, a, ActivityTypes)) /\ IdleAtMost(u, w, a)
    BY <1>1, <2>1, CancelThreeLemma
  <2> QED
    BY <2>2 DEF Updates, u
<1>3. CASE w.agents[a].state # "in_action"
  <2>1. u = w
    BY <1>3 DEF interruptActivity
  <2> QED
    BY <1>1, <2>1 DEF IdleAtMost
<1> QED
  BY <1>2, <1>3

\* A window is closed in its agent's record, and that changes nothing else.
LEMMA CloseWindowAlone ==
  ASSUME NEW w \in Worlds, NEW a \in Agents
  PROVE  LET v == clearActiveServerAnnouncement(w, a)
         IN  /\ v.agents = [w.agents EXCEPT ![a] = [@ EXCEPT !.announced = FALSE]]
             /\ v.agents \in [Agents -> AgentRecord] /\ v.purses = w.purses
<1>1. w.agents \in [Agents -> AgentRecord]
  BY WorldsFields
<1>2. clearActiveServerAnnouncement(w, a)
        = [w EXCEPT !.agents = [w.agents EXCEPT ![a] = [@ EXCEPT !.announced = FALSE]]]
  BY DEF clearActiveServerAnnouncement, Worlds
<1>3. [w.agents EXCEPT ![a] = [@ EXCEPT !.announced = FALSE]] \in [Agents -> AgentRecord]
  BY <1>1, ZenonT(40) DEF AgentRecord
<1> QED
  BY <1>2, <1>3 DEF Worlds

\* The interruption of an agent that stands free.
LEMMA InterruptionAlone ==
  ASSUME NEW w, Good(w), NEW a \in Agents, NEW faults, standsFree(w, a)
  PROVE  InterruptedAlone(handleServerAnnouncementInterruption(w, a, faults), w, a)
<1> DEFINE v == handleServerAnnouncementInterruption(w, a, faults)
           u == interruptActivity(w, a)
           x == setState(u, a, "idle")
<1>1. w \in Worlds /\ w.agents \in [Agents -> AgentRecord] /\ w.agents[a].state # "in_transfer"
  BY WorldsFields DEF Good, Control, standsFree
<1>2. CASE ~(LoggedIn(w, a) /\ w.agents[a].announced)
  <2>1. v = w
    BY <1>2 DEF handleServerAnnouncementInterruption
  <2> QED
    BY <1>1, <2>1 DEF InterruptedAlone
<1>3. CASE LoggedIn(w, a) /\ w.agents[a].announced
  <2>1. v = clearActiveServerAnnouncement(x, a)
    BY <1>1, <1>3 DEF handleServerAnnouncementInterruption
  <2>2. u \in Worlds /\ u.purses = w.purses /\ IdleAtMost(u, w, a)
    BY ActivityAlone
  <2> HIDE DEF u
  <2>3. Updates(x, u, [u.agents EXCEPT ![a].state = "idle"], u.timers)
    BY <2>2, SetStateLemma DEF AgentStates
  <2> HIDE DEF x
  <2>4. x \in Worlds /\ x.purses = w.purses
        /\ x.agents = [u.agents EXCEPT ![a].state = "idle"]
    BY <2>2, <2>3 DEF Updates
  <2> HIDE DEF v
  <2>5. /\ v.agents = [x.agents EXCEPT ![a] = [@ EXCEPT !.announced = FALSE]]
        /\ v.agents \in [Agents -> AgentRecord] /\ v.purses = w.purses
    BY <2>1, <2>4, CloseWindowAlone
  <2>6. x.agents \in [Agents -> AgentRecord] /\ u.agents \in [Agents -> AgentRecord]
    BY <2>2, <2>4, WorldsFields
  <2>7. \A b \in Agents : b # a => v.agents[b] = w.agents[b]
    BY <1>1, <2>2, <2>4, <2>5, <2>6 DEF IdleAtMost
  <2>8. /\ v.agents[a].state = "idle"
        /\ v.agents[a].active_transfer_id = w.agents[a].active_transfer_id
        /\ v.agents[a].pending_transfer_id = w.agents[a].pending_transfer_id
        /\ v.agents[a].pending_conversation_id = w.agents[a].pending_conversation_id
    BY <1>1, <2>2, <2>4, <2>5, <2>6 DEF IdleAtMost, AgentRecord
  <2> QED
    BY <2>5, <2>7, <2>8 DEF InterruptedAlone, v
<1> QED
  BY <1>2, <1>3

\* The candidates of a prompt are still free after the interruption, and so is
\* the sender: validateTransfer finds nothing to object to.
LEMMA TransferAccepted ==
  ASSUME IInv, NEW a \in Agents, LoggedIn(world, a), standsFree(world, a), NEW faults
  PROVE  transferIsAccepted(a, Interrupted(a, faults))
<1> DEFINE v == Interrupted(a, faults)
<1>1. Good(world) /\ purses = world.purses
  BY WorldNow
<1>2. InterruptedAlone(v, world, a)
  BY <1>1, InterruptionAlone DEF Interrupted
<1> HIDE DEF v
<1> SUFFICES ASSUME NEW to \in listStandaloneTransferCandidates(world, a),
                    NEW payload \in Payloads,
                    Covers(purses[a], payload),
                    purses[to].money + payload.money <= MaxMoney
             PROVE  validateTransfer(v, a, to, payload)
  BY DEF transferIsAccepted, v
<1>3. to \in Agents /\ to # a /\ LoggedIn(world, to) /\ standsFree(world, to)
  BY DEF listStandaloneTransferCandidates
<1>4. v.agents[a].state \in {"idle", "in_action"}
  BY <1>2 DEF InterruptedAlone, standsFree
<1>5. /\ LoggedIn(v, a) /\ ~isInTransfer(v, a) /\ validateTransferState(v, a)
  BY <1>2, <1>4 DEF InterruptedAlone, standsFree, LoggedIn, isInTransfer,
                    validateTransferState
<1>6. /\ LoggedIn(v, to) /\ ~isInTransfer(v, to) /\ validateTransferState(v, to)
  BY <1>2, <1>3 DEF InterruptedAlone, standsFree, LoggedIn, isInTransfer,
                    validateTransferState
<1> QED
  BY <1>1, <1>2, <1>3, <1>5, <1>6 DEF validateTransfer, InterruptedAlone

\* In a window a waiting offer is cancelled by the answer itself; outside one
\* the receiver can give it.
LEMMA AnswersAccepted ==
  ASSUME IInv, NEW a \in Agents, LoggedIn(world, a), NEW faults
  PROVE  LET t     == agents[a].pending_transfer_id
             ready == Interrupted(a, faults)
         IN  pendingTransferLines(world, a) <=>
               t # None /\ canAcceptTransfer(ready, t, a) /\ canRejectTransfer(ready, t, a)
<1> DEFINE t == agents[a].pending_transfer_id
           v == Interrupted(a, faults)
<1>1. /\ Good(world) /\ agents = world.agents /\ Backed(world, a)
      /\ agents \in [Agents -> AgentRecord]
  BY WorldNow, WorldsFields DEF Good, Control, Roles
<1>2. CASE ~world.agents[a].announced
  <2>1. v = world
    BY <1>2 DEF Interrupted, handleServerAnnouncementInterruption
  <2> HIDE DEF v
  <2>2. t # None => Live(world, t) /\ world.transfers[t].to_agent_id = a
    BY <1>1 DEF Backed
  <2> QED
    BY <1>1, <1>2, <2>1, <2>2 DEF pendingTransferLines, canAcceptTransfer,
                                  canRejectTransfer, v
<1>3. CASE world.agents[a].announced
  <2>1. requireActionableAgent(world, a)
    BY <1>3 DEF requireActionableAgent
  <2>a. v = handleServerAnnouncementInterruption(world, a, faults)
    BY DEF Interrupted
  <2> HIDE DEF v
  <2>2. Good(v) /\ v.agents[a].state = "idle"
    BY <1>1, <2>1, <2>a, InterruptionLemma
  <2>3. ~isInTransfer(v, a)
    BY <2>2 DEF Good, Control, Roles, Backed
  <2>4. t # None => ~canAcceptTransfer(v, t, a)
    BY <2>3 DEF isInTransfer, canAcceptTransfer
  <2> QED
    BY <1>3, <2>4 DEF pendingTransferLines, v
<1> QED
  BY <1>2, <1>3

\* The conditions of the lines and the guards of the commands agree.
LEMMA ActivitiesValid ==
  ASSUME IInv, NEW a \in Agents, LoggedIn(world, a)
  PROVE  activitiesAreValid(a, buildChoicesPrompt(world, a))
<1>1. agents = world.agents /\ purses = world.purses
  BY WorldNow
<1>2. canStartInterruptibleCommand(world, a) => requireActionableAgent(world, a)
  BY DEF canStartInterruptibleCommand, requireActionableAgent
<1> QED
  BY <1>1, <1>2 DEF activitiesAreValid, buildChoicesPrompt, actionLines, infoLines

\* An idle agent has no timer of anything it does.
LEMMA IdleHasNone ==
  ASSUME NEW w, Good(w), NEW a \in Agents, w.agents[a].state = "idle"
  PROVE  TimersOf(w, a, Pursuits) = {}
<1>1. Timing(w)
  BY DEF Good, Control
<1>2. \A x \in w.timers : a \in x.agent_ids =>
        x.type # "movement" /\ x.type \notin ActivityTypes
  BY <1>1 DEF Timing, Timed
<1> QED
  BY <1>2 DEF TimersOf, Pursuits

\* What an idle agent begins is the only thing it does.
LEMMA BegunFromIdle ==
  ASSUME NEW w, Good(w), NEW a \in Agents, w.agents[a].state = "idle",
         NEW state \in AgentStates, NEW type \in TimerTypes,
         type \in Pursuits, NEW about \in Transfers \cup Actions \cup {None}
  PROVE  Doing(startActivity(w, a, state, type, about), a, state, type)
<1> DEFINE v == startActivity(w, a, state, type, about)
           timer == Timer(type, {a}, about)
<1>1. w \in Worlds /\ w.agents \in [Agents -> AgentRecord]
  BY WorldsFields DEF Good, Control
<1>2. Updates(v, w, [w.agents EXCEPT ![a].state = state, ![a].excluded = {}],
              Without(w.timers, a, {"idle_reminder", type}) \cup {timer})
  BY <1>1, StartActivityLemma
<1>3. timer.type = type /\ a \in timer.agent_ids
  BY DEF Timer
<1> HIDE DEF v, timer
<1>4. v.agents[a].state = state
  BY <1>1, <1>2 DEF Updates, AgentRecord
<1>5. v.timers = Without(w.timers, a, {"idle_reminder", type}) \cup {timer}
  BY <1>2 DEF Updates
<1>6. \A x \in w.timers : ~(a \in x.agent_ids /\ x.type \in Pursuits)
  BY IdleHasNone DEF TimersOf
<1>7. TimersOf(v, a, Pursuits) = {timer}
  BY <1>3, <1>5, <1>6 DEF TimersOf, Without
<1> QED
  BY <1>3, <1>4, <1>5, <1>7 DEF Doing, v

\* Paying for an action leaves its agent idle, and the action is begun.
LEMMA ActionBegun ==
  ASSUME NEW w, Good(w), NEW a \in Agents, w.agents[a].state = "idle",
         NEW x \in Actions, NEW faults,
         <<"activity", a>> \in faults => "activity" \in FailingWrites
  PROVE  Doing(executeValidatedAction(w, a, x, faults), a, "in_action", "action")
<1> DEFINE u1 == payForAction(w, a, x, faults)
           u2 == startActivity(u1, a, "in_action", "action", x)
           v == executeValidatedAction(w, a, x, faults)
<1>1. v = [u2 EXCEPT !.agents[a].last_action_id = x]
  BY DEF executeValidatedAction
<1> HIDE DEF v
<1>2. w \in Worlds /\ w.purses[a] \in Purse /\ LoggedIn(w, a)
  BY WorldsFields DEF Good, Control, LoggedIn
<1>3. Catalogue[x].cost \in Purse
  BY WorldAssumption
<1>4. Settled(u1, w, a)
  BY <1>2, <1>3, SettledSelf, SettleLemma, DebitType DEF payForAction
<1> HIDE DEF u1
<1>5. Good(u1) /\ u1.agents[a].state = "idle"
  BY <1>4, SettledGood DEF Settled
<1>6. Doing(u2, a, "in_action", "action")
  BY <1>5, BegunFromIdle DEF AgentStates, TimerTypes, Pursuits, ActivityTypes
<1>7. Good(u2)
  BY <1>5, BusyLemma DEF ActivityTypes
<1> HIDE DEF u2
<1>8. u2 \in Worlds /\ u2.agents \in [Agents -> AgentRecord]
  BY <1>7, WorldsFields DEF Good, Control
<1>9. v.timers = u2.timers /\ v.agents[a].state = u2.agents[a].state
  BY <1>1, <1>8 DEF Worlds, AgentRecord
<1> QED
  BY <1>6, <1>9 DEF Doing, TimersOf, v

\* The world after the interruption by a command of an agent that may act.
LEMMA ReadyToAct ==
  ASSUME IInv, NEW a \in Agents, requireActionableAgent(world, a), NEW faults
  PROVE  Good(Interrupted(a, faults)) /\ Interrupted(a, faults).agents[a].state = "idle"
<1> DEFINE u == handleServerAnnouncementInterruption(world, a, faults)
<1>1. Interrupted(a, faults) = u
  BY DEF Interrupted
<1>2. Good(world)
  BY WorldNow
<1>3. Good(u) /\ u.agents[a].state = "idle"
  BY <1>2, InterruptionLemma
<1> HIDE DEF u
<1> QED
  BY <1>1, <1>3

\* After the interruption everything that is offered and valid is begun.
LEMMA ActivitiesBegun ==
  ASSUME IInv, NEW a \in Agents, LoggedIn(world, a),
         NEW faults \in FaultSets(InterruptionWrites(a))
  PROVE  activitiesBegin(a, buildChoicesPrompt(world, a), Interrupted(a, faults), faults)
<1> DEFINE u == Interrupted(a, faults)
           prompt == buildChoicesPrompt(world, a)
<1>1. /\ prompt.move => requireActionableAgent(world, a)
      /\ prompt.wait => requireActionableAgent(world, a)
      /\ prompt.use_item => requireActionableAgent(world, a)
      /\ prompt.actions \subseteq Actions
      /\ prompt.actions # {} => requireActionableAgent(world, a)
  BY DEF buildChoicesPrompt, actionLines, canStartInterruptibleCommand,
         requireActionableAgent
<1>2. requireActionableAgent(world, a) => Good(u) /\ u.agents[a].state = "idle"
  BY ReadyToAct
<1>3. <<"activity", a>> \in faults => "activity" \in FailingWrites
  BY DEF FaultSets
<1> HIDE DEF u, prompt
<1>4. ASSUME requireActionableAgent(world, a)
      PROVE  /\ Doing(executeValidatedMove(u, a), a, "moving", "movement")
             /\ Doing(executeValidatedWait(u, a), a, "in_action", "wait")
             /\ Doing(executeValidatedUseItem(u, a, "general"), a, "in_action", "item_use")
             /\ \A x \in Actions :
                  Doing(executeValidatedAction(u, a, x, faults), a, "in_action", "action")
  <2>1. Good(u) /\ u.agents[a].state = "idle"
    BY <1>2, <1>4
  <2>2. Doing(startActivity(u, a, "moving", "movement", None), a, "moving", "movement")
    BY <2>1, BegunFromIdle DEF AgentStates, TimerTypes, Pursuits
  <2>3. /\ Doing(startActivity(u, a, "in_action", "wait", None), a, "in_action", "wait")
        /\ Doing(startActivity(u, a, "in_action", "item_use", None), a, "in_action",
                   "item_use")
    BY <2>1, BegunFromIdle DEF AgentStates, TimerTypes, Pursuits, ActivityTypes
  <2>4. \A x \in Actions :
          Doing(executeValidatedAction(u, a, x, faults), a, "in_action", "action")
    BY <1>3, <2>1, ActionBegun
  <2> QED
    BY <2>2, <2>3, <2>4 DEF executeValidatedMove, executeValidatedWait,
                            executeValidatedUseItem
<1> QED
  BY <1>1, <1>4 DEF activitiesBegin, u, prompt

\* Forgetting the excluded info commands changes nothing else.
LEMMA ExcludedOnly ==
  ASSUME NEW w \in Worlds, NEW a \in Agents
  PROVE  LET v == clearExcludedInfoCommands(w, a)
         IN  /\ v.agents = [w.agents EXCEPT ![a].excluded = {}]
             /\ v.timers = w.timers /\ v.transfers = w.transfers
             /\ v.purses = w.purses
BY DEF clearExcludedInfoCommands, Worlds

\* An idle agent without an offer has nothing left to lose.
LEMMA IdleIsKept ==
  ASSUME IInv, NEW a \in Agents, world.agents[a].announced, NEW v, Good(v),
         v.agents[a].state = "idle"
  PROVE  Kept(v, a)
<1>1. ~isInTransfer(v, a)
  BY DEF Good, Control, Roles, Backed
<1>2. TimersOf(v, a, Pursuits) = {}
  BY IdleHasNone
<1> QED
  BY <1>1, <1>2, WorldNow DEF Kept

\* A venue item and an action that cannot be paid for cost their agent nothing
\* outside a window, and in one whatever it was doing or was offered.
LEMMA RefusalsKept ==
  ASSUME IInv, NEW a \in Agents, LoggedIn(world, a), NEW faults
  PROVE  refusalsKeep(a, buildChoicesPrompt(world, a), Interrupted(a, faults), faults)
<1> DEFINE u == clearExcludedInfoCommands(world, a)
           r == handleServerAnnouncementInterruption(u, a, faults)
           v == executeValidatedUseItem(Interrupted(a, faults), a, "venue")
<1>1. /\ Good(world) /\ world \in Worlds /\ agents = world.agents
      /\ timers = world.timers /\ transfers = world.transfers /\ purses = world.purses
      /\ world.agents \in [Agents -> AgentRecord]
  BY WorldNow, WorldsFields DEF Good, Control
<1>2. v = clearExcludedInfoCommands(Interrupted(a, faults), a)
  BY DEF executeValidatedUseItem
<1>3. Good(u) /\ u.agents[a].state = world.agents[a].state
      /\ u.agents[a].announced = world.agents[a].announced
  <2>1. Good(u) /\ \A b \in Agents : u.agents[b].state = world.agents[b].state
    BY <1>1, ClearExcludedGood, ExcludedStates
  <2>2. u.agents = [world.agents EXCEPT ![a].excluded = {}]
    BY <1>1, ExcludedOnly
  <2> QED
    BY <1>1, <2>1, <2>2 DEF AgentRecord
<1>4. CASE ~world.agents[a].announced
  <2>1. Interrupted(a, faults) = world
    BY <1>4 DEF Interrupted, handleServerAnnouncementInterruption
  <2>2. r = u
    BY <1>3, <1>4 DEF handleServerAnnouncementInterruption
  <2> HIDE DEF r, v
  <2>3. v = u
    BY <1>2, <2>1
  <2>4. Kept(u, a)
    BY <1>1, <1>4, ExcludedOnly DEF Kept
  <2> QED
    BY <2>2, <2>3, <2>4 DEF refusalsKeep, r, v
<1>5. CASE world.agents[a].announced
  <2>1. requireActionableAgent(world, a) /\ requireActionableAgent(u, a)
    BY <1>3, <1>5 DEF requireActionableAgent, LoggedIn
  <2>2. Good(Interrupted(a, faults)) /\ Interrupted(a, faults).agents[a].state = "idle"
    BY <2>1, ReadyToAct
  <2>3. Good(r) /\ r.agents[a].state = "idle"
    BY <1>3, <2>1, InterruptionLemma
  <2> HIDE DEF r, v
  <2>4. Good(v) /\ v.agents[a].state = "idle"
    BY <1>2, <2>2, ClearExcludedGood, ExcludedStates DEF Good, Control
  <2>5. Kept(r, a) /\ Kept(v, a)
    BY <1>5, <2>3, <2>4, IdleIsKept
  <2> QED
    BY <2>5 DEF refusalsKeep, r, v
<1> QED
  BY <1>4, <1>5

LEMMA PromptsHold == IInv => OfferedIsAccepted
<1> SUFFICES ASSUME IInv, NEW a \in Agents, LoggedIn(world, a)
             PROVE  LET prompt == buildChoicesPrompt(world, a)
                        t      == agents[a].pending_transfer_id
                    IN  /\ activitiesAreValid(a, prompt)
                        /\ \A faults \in FaultSets(InterruptionWrites(a)) :
                             LET ready == Interrupted(a, faults)
                             IN  /\ activitiesBegin(a, prompt, ready, faults)
                                 /\ refusalsKeep(a, prompt, ready, faults)
                                 /\ prompt.transfer => transferIsAccepted(a, ready)
                                 /\ prompt.answers <=>
                                      t # None /\ canAcceptTransfer(ready, t, a)
                                        /\ canRejectTransfer(ready, t, a)
  BY DEF OfferedIsAccepted
<1>1. buildChoicesPrompt(world, a).transfer = transferLine(world, a)
      /\ buildChoicesPrompt(world, a).answers = pendingTransferLines(world, a)
  BY DEF buildChoicesPrompt
<1>2. transferLine(world, a) => standsFree(world, a)
  BY DEF transferLine
<1> QED
  BY <1>1, <1>2, ActivitiesValid, ActivitiesBegun, RefusalsKept, TransferAccepted,
     AnswersAccepted

\* In every reachable world a prompt keeps its word: its commands are valid and,
\* sent at once, begin after the interruption that executeAction, move, wait
\* and useItem make first; the answers to an offer are offered exactly as long
\* as acceptTransfer and rejectTransfer would take them; and the two commands
\* listed though validateAction or executeValidatedUseItem refuses them cost
\* the agent nothing unless a window is open.
THEOREM OfferedIsAlwaysAccepted == Spec => []OfferedIsAccepted
BY Invariance, PromptsHold, PTL
==============================================================================
