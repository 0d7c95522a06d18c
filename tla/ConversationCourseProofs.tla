----------------------- MODULE ConversationCourseProofs -----------------------
(***************************************************************************)
(* The course of a conversation and the money its members offer each       *)
(* other: for every number of agents, conversations and offers, whatever   *)
(* ends an offer or a conversation, money is neither made nor lost, and a  *)
(* conversation that closes only ever ends. Most of what happens in a      *)
(* conversation is beside the money (Aside); what is not moves it between  *)
(* a purse and an offer (Even); a login and a logout move it between the   *)
(* registration and the purse (Balanced). And a step closes conversations  *)
(* (Closes) when none that closes or is over opens again and none that     *)
(* closes admits or asks anybody (Parting).                                *)
(***************************************************************************)
EXTENDS ConversationProofs, SumProofs

(***************************************************************************)
(* Steps beside the money.                                                 *)
(***************************************************************************)

\* A world has its stores, and every agent is in some state.
Boxed(w) ==
  /\ {"agents", "purses", "transfers", "announcements", "timers",
      "registrations", "conversations"} \subseteq DOMAIN w
  /\ Agents \subseteq DOMAIN w.agents
  /\ \A a \in Agents : "state" \in DOMAIN w.agents[a]

SameLogins(u, w) == \A a \in Agents : LoggedIn(u, a) <=> LoggedIn(w, a)

\* A step beside the money: no purse, no registration and no offer changes.
Aside(u, w) ==
  /\ Boxed(u) /\ SameLogins(u, w)
  /\ u.purses = w.purses /\ u.transfers = w.transfers
  /\ u.registrations = w.registrations

\* Nothing at all is beside the money.
LEMMA AsideSelf ==
  ASSUME NEW w, Boxed(w)
  PROVE  Aside(w, w)
BY DEF Aside, SameLogins

\* Two steps beside the money are one.
LEMMA AsideTwice ==
  ASSUME NEW w, NEW v, Aside(v, w), NEW u, Aside(u, v)
  PROVE  Aside(u, w)
BY DEF Aside, SameLogins

\* Timers, conversations and announcements are beside the money.
LEMMA StoresAside ==
  ASSUME NEW w, Boxed(w), NEW V, NEW c
  PROVE  /\ Aside([w EXCEPT !.timers = V], w)
         /\ Aside([w EXCEPT !.conversations = V], w)
         /\ Aside([w EXCEPT !.conversations[c] = V], w)
         /\ Aside([w EXCEPT !.announcements = V], w)
BY DEF Boxed, Aside, SameLogins, LoggedIn

\* Timers are started and cancelled beside the money.
LEMMA TimersAside ==
  ASSUME NEW w, Boxed(w)
  PROVE  /\ \A timer : Aside(create(w, timer), w) /\ Aside(cancel(w, timer), w)
         /\ \A a : Aside(cancelByAgent(w, a), w) /\ Aside(cancelIdleReminder(w, a), w)
         /\ \A c, types : Aside(cancelTimersOf(w, c, types), w)
         /\ \A c : Aside(cancelConversationTimers(w, c), w)
         /\ \A t : Aside(cancelTransferTimer(w, t), w)
<1>1. \A T : Aside([w EXCEPT !.timers = T], w)
  BY StoresAside
<1>2. \A timer : Aside(create(w, timer), w) /\ Aside(cancel(w, timer), w)
  BY <1>1 DEF create, cancel
<1>3. \A a : Aside(cancelByAgent(w, a), w) /\ Aside(cancelIdleReminder(w, a), w)
  BY <1>1 DEF cancelByAgent, cancelIdleReminder, cancelByType
<1>4. \A c, types : Aside(cancelTimersOf(w, c, types), w)
  BY <1>1 DEF cancelTimersOf
<1>5. \A c : Aside(cancelConversationTimers(w, c), w)
  BY <1>4 DEF cancelConversationTimers
<1>6. \A t : Aside(cancelTransferTimer(w, t), w)
  BY <1>1 DEF cancelTransferTimer
<1> QED
  BY <1>2, <1>3, <1>4, <1>5, <1>6

\* Reminders are started and heard beside the money.
LEMMA RemindersAside ==
  ASSUME NEW w, Boxed(w)
  PROVE  /\ \A S : Aside(startIdleReminders(w, S), w)
         /\ \A a : Aside(startIdleReminder(w, a), w) /\ Aside(remind(w, a), w)
<1>1. \A S : Aside(startIdleReminders(w, S), w)
  BY StoresAside DEF startIdleReminders
<1>2. ASSUME NEW a PROVE Aside(startIdleReminder(w, a), w)
  <2> DEFINE v == cancelIdleReminder(w, a)
  <2>1. Aside(v, w) /\ Boxed(v)
    BY TimersAside DEF Aside
  <2> HIDE DEF v
  <2>2. Aside(create(v, Timer("idle_reminder", {a}, None)), v)
    BY <2>1, TimersAside
  <2> QED
    BY <2>1, <2>2, AsideTwice DEF startIdleReminder, v
<1> QED
  BY <1>1, <1>2, AsideSelf DEF remind

\* An agent's prompt window is closed beside the money.
LEMMA WindowAside ==
  ASSUME NEW w, Boxed(w), NEW a
  PROVE  /\ Aside(clearExcludedInfoCommands(w, a), w)
         /\ Aside(clearActiveServerAnnouncement(w, a), w)
         /\ Aside(closeWindow(w, a), w)
<1>1. \A v : Boxed(v) => Aside(clearExcludedInfoCommands(v, a), v)
  BY DEF Boxed, Aside, SameLogins, LoggedIn, clearExcludedInfoCommands
<1>2. \A v : Boxed(v) => Aside(clearActiveServerAnnouncement(v, a), v)
  BY DEF Boxed, Aside, SameLogins, LoggedIn, clearActiveServerAnnouncement
<1> DEFINE x == clearExcludedInfoCommands(w, a)
<1>3. Aside(x, w) /\ Boxed(x)
  BY <1>1 DEF Aside
<1> HIDE DEF x
<1>4. Aside(clearActiveServerAnnouncement(x, a), x)
  BY <1>2, <1>3
<1>5. Aside(closeWindow(w, a), w)
  BY <1>3, <1>4, AsideTwice DEF closeWindow, x
<1> QED
  BY <1>1, <1>2, <1>5

\* Who is logged in may do something else.
LEMMA StateAside ==
  ASSUME NEW w, Boxed(w), NEW a \in Agents, LoggedIn(w, a),
         NEW s, s # "logged_out"
  PROVE  Aside(setState(w, a, s), w)
BY DEF Boxed, Aside, SameLogins, LoggedIn, setState

\* Participants are released beside the money.
LEMMA CleanupAside ==
  ASSUME NEW w, Boxed(w), NEW c, NEW S, NEW reminded
  PROVE  Aside(cleanupParticipants(w, c, S, reminded), w)
<1> DEFINE leaving == {a \in S : /\ w.agents[a].current_conversation_id = c
                                 /\ w.agents[a].state = "in_conversation"}
           woken == IF reminded THEN leaving ELSE {}
           free(id) == IF id = c THEN None ELSE id
           cleaned(a) ==
             [w.agents[a] EXCEPT
                !.pending_conversation_id = free(@),
                !.current_conversation_id = free(@),
                !.state = IF a \in leaving THEN "idle" ELSE @,
                !.last_action_id = IF a \in leaving THEN None ELSE @]
           v == [w EXCEPT !.agents =
                   [a \in Agents |-> IF a \in S THEN cleaned(a) ELSE w.agents[a]]]
<1>1. cleanupParticipants(w, c, S, reminded) = startIdleReminders(v, woken)
  BY DEF cleanupParticipants
<1>2. \A a \in Agents : /\ "state" \in DOMAIN cleaned(a)
                        /\ cleaned(a).state = "logged_out" <=> w.agents[a].state = "logged_out"
  BY DEF Boxed
<1> HIDE DEF cleaned
<1>3. Aside(v, w) /\ Boxed(v)
  BY <1>2 DEF Boxed, Aside, SameLogins, LoggedIn
<1> HIDE DEF v, woken
<1> QED
  BY <1>1, <1>3, RemindersAside, AsideTwice

\* Who is in a conversation, and what it waits for.
LEMMA ListsAside ==
  ASSUME NEW w, Boxed(w), NEW c
  PROVE  /\ Aside(applyPendingJoiners(w, c), w)
         /\ Aside(discardPendingJoiners(w, c), w)
         /\ \A a, reminded : /\ Aside(detachPendingJoiner(w, c, a, reminded), w)
                             /\ Aside(expel(w, c, a, reminded), w)
<1>1. ASSUME NEW V, NEW S, NEW reminded
      PROVE  Aside(cleanupParticipants([w EXCEPT !.conversations[c] = V], c, S, reminded), w)
  <2> DEFINE v == [w EXCEPT !.conversations[c] = V]
  <2>1. Aside(v, w) /\ Boxed(v)
    BY StoresAside DEF Aside
  <2> HIDE DEF v
  <2>2. Aside(cleanupParticipants(v, c, S, reminded), v)
    BY <2>1, CleanupAside
  <2> QED
    BY <2>1, <2>2, AsideTwice DEF v
<1>2. Aside(applyPendingJoiners(w, c), w)
  BY <1>1 DEF applyPendingJoiners
<1>3. Aside(discardPendingJoiners(w, c), w)
  BY <1>1 DEF discardPendingJoiners
<1>4. \A a, reminded : Aside(detachPendingJoiner(w, c, a, reminded), w)
  BY <1>1 DEF detachPendingJoiner, cleanupParticipant
<1>5. \A a, reminded : Aside(expel(w, c, a, reminded), w)
  BY <1>1 DEF expel, cleanupParticipant
<1> QED
  BY <1>2, <1>3, <1>4, <1>5

\* Turns and intervals are scheduled beside the money.
LEMMA TurnsAside ==
  ASSUME NEW w, Boxed(w), NEW c
  PROVE  /\ \A speaker : Aside(scheduleTurnTimer(w, c, speaker), w)
         /\ \A speaker, next : Aside(createIntervalTimer(w, c, speaker, next), w)
         /\ Aside(createInactiveCheckTimer(w, c), w)
         /\ Aside(clearInactiveCheckState(w, c), w)
<1>1. ASSUME NEW V, NEW timer
      PROVE  Aside(create([w EXCEPT !.conversations = V], timer), w)
  <2> DEFINE v == [w EXCEPT !.conversations = V]
  <2>1. Aside(v, w) /\ Boxed(v)
    BY StoresAside DEF Aside
  <2> HIDE DEF v
  <2>2. Aside(create(v, timer), v)
    BY <2>1, TimersAside
  <2> QED
    BY <2>1, <2>2, AsideTwice DEF v
<1>2. \A speaker : Aside(scheduleTurnTimer(w, c, speaker), w)
  BY <1>1 DEF scheduleTurnTimer
<1>3. \A speaker, next : Aside(createIntervalTimer(w, c, speaker, next), w)
  BY TimersAside DEF createIntervalTimer
<1>4. Aside(createInactiveCheckTimer(w, c), w)
  BY TimersAside DEF createInactiveCheckTimer
<1>5. Aside(clearInactiveCheckState(w, c), w)
  <2> DEFINE v == cancelTimersOf(w, c, {"conversation_inactive_check"})
             C == [[v.conversations EXCEPT ![c].inactive = {}] EXCEPT ![c].resume_speaker = None]
  <2>1. Aside(v, w) /\ Boxed(v)
    BY TimersAside DEF Aside
  <2> HIDE DEF v
  <2>2. clearInactiveCheckState(w, c) = [v EXCEPT !.conversations = C]
    BY <2>1 DEF clearInactiveCheckState, Boxed, v
  <2>3. Aside([v EXCEPT !.conversations = C], v)
    BY <2>1, StoresAside
  <2> QED
    BY <2>1, <2>2, <2>3, AsideTwice
<1> QED
  BY <1>2, <1>3, <1>4, <1>5

\* A conversation asks its inactive members, or starts to close, beside the
\* money.
LEMMA CheckAside ==
  ASSUME NEW w, Boxed(w), NEW c, NEW next
  PROVE  /\ Aside(startInactiveCheck(w, c, next), w)
         /\ Aside(closeForMaxTurns(w, c, next), w)
<1>1. Aside(startInactiveCheck(w, c, next), w)
  <2> DEFINE C == [[w.conversations EXCEPT ![c].inactive = InactiveMembers(w.conversations[c])]
                     EXCEPT ![c].resume_speaker = next]
             v == [w EXCEPT !.conversations = C]
  <2>1. startInactiveCheck(w, c, next) = createInactiveCheckTimer(v, c)
    BY DEF startInactiveCheck, Boxed
  <2> HIDE DEF C
  <2>2. Aside(v, w) /\ Boxed(v)
    BY StoresAside DEF Aside
  <2> HIDE DEF v
  <2> QED
    BY <2>1, <2>2, TurnsAside, AsideTwice
<1>2. Aside(closeForMaxTurns(w, c, next), w)
  <2> DEFINE x == clearInactiveCheckState(w, c)
             C == [[x.conversations EXCEPT ![c].status = "closing"]
                     EXCEPT ![c].closing_reason = "max_turns"]
             v == [x EXCEPT !.conversations = C]
  <2>1. Aside(x, w) /\ Boxed(x)
    BY TurnsAside DEF Aside
  <2> HIDE DEF x
  <2>2. closeForMaxTurns(w, c, next) = scheduleTurnTimer(v, c, next)
    BY <2>1 DEF closeForMaxTurns, Boxed, x
  <2> HIDE DEF C
  <2>3. Aside(v, x) /\ Boxed(v)
    BY <2>1, StoresAside DEF Aside
  <2> HIDE DEF v
  <2> QED
    BY <2>1, <2>2, <2>3, TurnsAside, AsideTwice
<1> QED
  BY <1>1, <1>2

\* The invitation.
LEMMA WithdrawAside ==
  ASSUME NEW w, Boxed(w), NEW c
  PROVE  /\ Aside(withdraw(w, c), w)
         /\ Aside([cancelConversationTimers(w, c)
                     EXCEPT !.conversations[c] = NoConversation], w)
<1> DEFINE x == cancelConversationTimers(w, c)
           y == [x EXCEPT !.conversations[c] = NoConversation]
           pair == Members(w.conversations[c])
           unmarked(a) == [w.agents[a] EXCEPT !.pending_conversation_id = None]
           A == [a \in Agents |-> IF a \in pair /\ LoggedIn(w, a)
                                  THEN unmarked(a) ELSE w.agents[a]]
<1>1. Aside(x, w) /\ Boxed(x)
  BY TimersAside DEF Aside
<1> HIDE DEF x
<1>2. Aside(y, x) /\ Boxed(y)
  BY <1>1, StoresAside DEF Aside
<1>3. withdraw(w, c) = [y EXCEPT !.agents = A]
  BY <1>1 DEF withdraw, Boxed, x
<1> HIDE DEF y
<1>4. \A a \in Agents : /\ "state" \in DOMAIN unmarked(a)
                        /\ unmarked(a).state = w.agents[a].state
  BY DEF Boxed
<1> HIDE DEF unmarked
<1>5. Aside(y, w)
  BY <1>1, <1>2, AsideTwice
<1>6. Aside([y EXCEPT !.agents = A], w)
  BY <1>2, <1>4, <1>5 DEF Boxed, Aside, SameLogins, LoggedIn
<1> QED
  BY <1>3, <1>5, <1>6 DEF x, y

\* An invitation is declined beside the money.
LEMMA RejectAside ==
  ASSUME NEW w, Boxed(w), NEW c, NEW a
  PROVE  Aside(rejectConversation(w, c, a), w)
<1> DEFINE i == w.conversations[c].initiator
           x == withdraw(w, c)
           y == closeWindow(x, i)
           z == closeWindow(y, a)
<1>1. Aside(x, w) /\ Boxed(x)
  BY WithdrawAside DEF Aside
<1> HIDE DEF x
<1>2. Aside(y, x) /\ Boxed(y)
  BY <1>1, WindowAside DEF Aside
<1> HIDE DEF y
<1>3. Aside(z, y) /\ Boxed(z)
  BY <1>2, WindowAside DEF Aside
<1> HIDE DEF z
<1>4. Aside(remind(z, i), z)
  BY <1>3, RemindersAside
<1> QED
  BY <1>1, <1>2, <1>3, <1>4, AsideTwice DEF rejectConversation, x, y, z

\* An invitation nobody answers runs out beside the money.
LEMMA AcceptTimeoutAside ==
  ASSUME NEW w, Boxed(w), NEW timer
  PROVE  Aside(handleAcceptTimeout(w, timer), w)
<1> DEFINE x == cancel(w, timer)
<1>1. Aside(x, w) /\ Boxed(x)
  BY TimersAside DEF Aside
<1> HIDE DEF x
<1> QED
  BY <1>1, RejectAside, AsideTwice DEF handleAcceptTimeout, x

\* An invitation whose host or guest goes elsewhere is dissolved beside the
\* money.
LEMMA DissolveAside ==
  ASSUME NEW w, Boxed(w), NEW a
  PROVE  /\ Aside(cancelPendingConversation(w, a), w)
         /\ Aside(cancelPendingConversationForServerAnnouncement(w, a), w)
<1> DEFINE c == findConversationByAgent(w, a, {"pending"})
           v == w.conversations[c]
           x == withdraw(w, c)
           cleared(b) == [x.agents[b] EXCEPT !.excluded = {}]
           A == [b \in Agents |-> IF b \in Members(v) THEN cleared(b) ELSE x.agents[b]]
           y == [x EXCEPT !.agents = A]
           d == [cancelConversationTimers(w, c) EXCEPT !.conversations[c] = NoConversation]
<1>1. Aside(x, w) /\ Boxed(x) /\ Aside(d, w)
  BY WithdrawAside DEF Aside
<1> HIDE DEF d
<1>2. cancelPendingConversation(w, a) \in {w, d, remind(y, v.initiator), y}
  BY DEF cancelPendingConversation, d
<1> HIDE DEF x
<1>3. Aside(y, x) /\ Boxed(y)
  <2>1. \A b \in Agents : /\ "state" \in DOMAIN cleared(b)
                          /\ cleared(b).state = x.agents[b].state
    BY <1>1 DEF Boxed
  <2> HIDE DEF cleared
  <2> QED
    BY <1>1, <2>1 DEF Boxed, Aside, SameLogins, LoggedIn
<1> HIDE DEF y
<1>4. Aside(remind(y, v.initiator), y)
  BY <1>3, RemindersAside
<1>5. Aside(cancelPendingConversation(w, a), w)
  BY <1>1, <1>2, <1>3, <1>4, AsideTwice, AsideSelf
<1>6. \E S : cancelPendingConversationForServerAnnouncement(w, a)
               \in {w, d, startIdleReminders(x, S)}
  BY DEF cancelPendingConversationForServerAnnouncement, x, d
<1>7. Aside(cancelPendingConversationForServerAnnouncement(w, a), w)
  BY <1>1, <1>6, AsideTwice, AsideSelf, RemindersAside
<1> QED
  BY <1>5, <1>7

\* A conversation is proposed beside the money.
LEMMA InviteAside ==
  ASSUME NEW w, Boxed(w), NEW c, NEW a, NEW target
  PROVE  Aside(startConversation(w, c, a, target), w)
<1> DEFINE x == cancelIdleReminder(w, a)
           y == clearExcludedInfoCommands(x, a)
           z == clearActiveServerAnnouncement(y, a)
<1>1. Aside(x, w) /\ Boxed(x)
  BY TimersAside DEF Aside
<1> HIDE DEF x
<1>2. Aside(y, x) /\ Boxed(y)
  BY <1>1, WindowAside DEF Aside
<1> HIDE DEF y
<1>3. Aside(z, y) /\ Boxed(z)
  BY <1>2, WindowAside DEF Aside
<1> HIDE DEF z
<1>4. ASSUME NEW v
      PROVE  Aside([z EXCEPT !.conversations[c] = v,
                             !.agents[a].pending_conversation_id = c,
                             !.agents[target].pending_conversation_id = c], z)
  BY <1>3 DEF Boxed, Aside, SameLogins, LoggedIn
<1>5. ASSUME NEW v, NEW timer
      PROVE  Aside(create([z EXCEPT !.conversations[c] = v,
                             !.agents[a].pending_conversation_id = c,
                             !.agents[target].pending_conversation_id = c], timer), z)
  <2> DEFINE u == [z EXCEPT !.conversations[c] = v,
                            !.agents[a].pending_conversation_id = c,
                            !.agents[target].pending_conversation_id = c]
  <2>1. Aside(u, z) /\ Boxed(u)
    BY <1>4 DEF Aside
  <2> HIDE DEF u
  <2>2. Aside(create(u, timer), u)
    BY <2>1, TimersAside
  <2> QED
    BY <2>1, <2>2, AsideTwice DEF u
<1>6. Aside(startConversation(w, c, a, target), z)
  BY <1>5 DEF startConversation, x, y, z
<1> QED
  BY <1>1, <1>2, <1>3, <1>6, AsideTwice

\* An agent that is logged in enters a conversation.
LEMMA EnterAside ==
  ASSUME NEW w, Boxed(w), NEW c, NEW a \in Agents, LoggedIn(w, a)
  PROVE  Aside(enterConversation(w, c, a), w)
<1> DEFINE x == cancelIdleReminder(w, a)
           y == [x EXCEPT !.agents[a].pending_conversation_id = None,
                          !.agents[a].current_conversation_id = c,
                          !.agents[a].state = "in_conversation"]
           z == clearExcludedInfoCommands(y, a)
<1>1. Aside(x, w) /\ Boxed(x)
  BY TimersAside DEF Aside
<1> HIDE DEF x
<1>2. Aside(y, x) /\ Boxed(y)
  BY <1>1 DEF Boxed, Aside, SameLogins, LoggedIn
<1> HIDE DEF y
<1>3. Aside(z, y) /\ Boxed(z)
  BY <1>2, WindowAside DEF Aside
<1> HIDE DEF z
<1>4. Aside(clearActiveServerAnnouncement(z, a), z)
  BY <1>3, WindowAside
<1> QED
  BY <1>1, <1>2, <1>3, <1>4, AsideTwice DEF enterConversation, x, y, z

\* What an agent alone does ends, as an answer, a join or its window asks for.
LEMMA ActivityAside ==
  ASSUME NEW w, Boxed(w), NEW a \in Agents
  PROVE  Aside(interruptActivityOf(w, a), w) /\ Aside(interruptActivity(w, a), w)
<1>1. ASSUME NEW v, Boxed(v), NEW type
      PROVE  Aside(cancelActive(v, a, type), v)
  <2> DEFINE x == cancel(v, CHOOSE y \in TimersOf(v, a, {type}) : TRUE)
  <2>1. cancelActive(v, a, type) \in {v, x, setState(x, a, "idle")}
    BY DEF cancelActive
  <2>2. v.agents[a].state # "in_action" =>
          cancelActive(v, a, type) \in {v, x}
    BY DEF cancelActive
  <2>3. Aside(x, v) /\ Boxed(x)
    BY <1>1, TimersAside DEF Aside
  <2> HIDE DEF x
  <2>4. v.agents[a].state = "in_action" => LoggedIn(v, a) /\ LoggedIn(x, a)
    BY <2>3 DEF Aside, SameLogins, LoggedIn
  <2>5. CASE v.agents[a].state = "in_action"
    <3>1. Aside(setState(x, a, "idle"), x)
      BY <2>3, <2>4, <2>5, StateAside
    <3> QED
      BY <1>1, <2>1, <2>3, <3>1, AsideTwice, AsideSelf
  <2>6. CASE v.agents[a].state # "in_action"
    BY <1>1, <2>2, <2>3, <2>6, AsideSelf
  <2> QED
    BY <2>5, <2>6
<1>2. ASSUME NEW p, NEW q, NEW r
      PROVE  Aside(cancelActive(cancelActive(cancelActive(w, a, p), a, q), a, r), w)
  <2> DEFINE x == cancelActive(w, a, p)
             y == cancelActive(x, a, q)
  <2>1. Aside(x, w) /\ Boxed(x)
    BY <1>1 DEF Aside
  <2> HIDE DEF x
  <2>2. Aside(y, x) /\ Boxed(y)
    BY <1>1, <2>1 DEF Aside
  <2> HIDE DEF y
  <2>3. Aside(cancelActive(y, a, r), y)
    BY <1>1, <2>2
  <2> QED
    BY <2>1, <2>2, <2>3, AsideTwice DEF x, y
<1> QED
  BY <1>2, AsideSelf DEF interruptActivityOf, interruptActivity, cancelActiveActivities

\* An invitation is accepted beside the money.
LEMMA AcceptAside ==
  ASSUME NEW w, Boxed(w), NEW c \in Conversations, NEW a \in Agents,
         w.conversations[c].initiator \in Agents
  PROVE  Aside(acceptConversation(w, c, a), w)
<1> DEFINE v == w.conversations[c]
           i == v.initiator
           w1 == cancelConversationTimers(w, c)
           w2 == interruptActivityOf(w1, a)
           w3 == enterConversation(w2, c, i)
           w4 == enterConversation(w3, c, a)
           V == [updateLastSpokenTurns(v, a, i, 2) EXCEPT !.status = "active"]
           w5 == [w4 EXCEPT !.conversations[c] = V]
<1>1. acceptConversation(w, c, a)
        = IF LoggedIn(w, i) /\ w.agents[a].state \in {"idle", "in_action"}
          THEN createIntervalTimer(w5, c, a, i) ELSE withdraw(w, c)
  BY DEF acceptConversation
<1>2. Aside(w1, w) /\ Boxed(w1)
  BY TimersAside DEF Aside
<1> HIDE DEF w1
<1>3. Aside(w2, w1) /\ Boxed(w2)
  BY <1>2, ActivityAside DEF Aside
<1> HIDE DEF w2
<1>4. CASE LoggedIn(w, i) /\ w.agents[a].state \in {"idle", "in_action"}
  <2>1. LoggedIn(w2, i) /\ LoggedIn(w2, a)
    BY <1>2, <1>3, <1>4 DEF Aside, SameLogins, LoggedIn
  <2>2. Aside(w3, w2) /\ Boxed(w3)
    BY <1>3, <2>1, EnterAside DEF Aside
  <2> HIDE DEF w3
  <2>3. LoggedIn(w3, a)
    BY <2>1, <2>2 DEF Aside, SameLogins
  <2>4. Aside(w4, w3) /\ Boxed(w4)
    BY <2>2, <2>3, EnterAside DEF Aside
  <2> HIDE DEF w4, V
  <2>5. Aside(w5, w4) /\ Boxed(w5)
    BY <2>4, StoresAside DEF Aside
  <2> HIDE DEF w5
  <2>6. Aside(createIntervalTimer(w5, c, a, i), w5)
    BY <2>5, TurnsAside
  <2>7. acceptConversation(w, c, a) = createIntervalTimer(w5, c, a, i)
    BY <1>1, <1>4
  <2> QED
    BY <1>2, <1>3, <2>2, <2>4, <2>5, <2>6, <2>7, AsideTwice
<1>5. CASE ~(LoggedIn(w, i) /\ w.agents[a].state \in {"idle", "in_action"})
  <2>1. acceptConversation(w, c, a) = withdraw(w, c)
    BY <1>1, <1>5
  <2> QED
    BY <2>1, WithdrawAside
<1> QED
  BY <1>4, <1>5

\* A conversation is joined beside the money.
LEMMA JoinAside ==
  ASSUME NEW w, Boxed(w), NEW c, NEW a \in Agents, canJoin(w, c, a)
  PROVE  Aside(joinConversation(w, c, a), w)
<1> DEFINE x == interruptActivityOf(w, a)
           C == [x.conversations EXCEPT ![c].joiners = Append(@, a)]
           y == [x EXCEPT !.conversations = C]
<1>1. Aside(x, w) /\ Boxed(x)
  BY ActivityAside DEF Aside
<1>2. joinConversation(w, c, a) = enterConversation(y, c, a)
  BY DEF joinConversation
<1> HIDE DEF x, C
<1>3. Aside(y, x) /\ Boxed(y)
  BY <1>1, StoresAside DEF Aside
<1> HIDE DEF y
<1>4. LoggedIn(y, a)
  BY <1>1, <1>3 DEF canJoin, Aside, SameLogins, LoggedIn
<1>5. Aside(enterConversation(y, c, a), y)
  BY <1>3, <1>4, EnterAside
<1> QED
  BY <1>1, <1>2, <1>3, <1>5, AsideTwice

\* A speech, a good-bye and a leave.
LEMMA SpeakAside ==
  ASSUME NEW w, Boxed(w), NEW c, NEW a, NEW next
  PROVE  /\ Aside(speak(w, c, a, next), w)
         /\ Aside(sayGoodbye(w, c, a, next), w)
         /\ Aside(leaveTheFloor(w, c, a, next), w)
<1> DEFINE timer == TurnTimerOf(w, c, a)
<1>1. Aside(speak(w, c, a, next), w)
  <2> DEFINE x == closeWindow(w, a)
             y == cancel(x, timer)
             V == updateLastSpokenTurns(w.conversations[c], a, next,
                                        w.conversations[c].current_turn + 1)
             z == [y EXCEPT !.conversations[c] = V]
  <2>1. Aside(x, w) /\ Boxed(x)
    BY WindowAside DEF Aside
  <2>2. speak(w, c, a, next) = createIntervalTimer(z, c, a, next)
    BY DEF speak
  <2> HIDE DEF x, timer
  <2>3. Aside(y, x) /\ Boxed(y)
    BY <2>1, TimersAside DEF Aside
  <2> HIDE DEF y, V
  <2>4. Aside(z, y) /\ Boxed(z)
    BY <2>3, StoresAside DEF Aside
  <2> HIDE DEF z
  <2>5. Aside(createIntervalTimer(z, c, a, next), z)
    BY <2>4, TurnsAside
  <2> QED
    BY <2>1, <2>2, <2>3, <2>4, <2>5, AsideTwice
<1>2. Aside(sayGoodbye(w, c, a, next), w)
  <2> DEFINE x == cancel(w, timer)
             y == clearInactiveCheckState(x, c)
             z == discardPendingJoiners(y, c)
             V == [updateLastSpokenTurns(z.conversations[c], a, next,
                                         z.conversations[c].current_turn + 1) EXCEPT
                     !.status = "closing", !.closing_reason = "ended_by_agent",
                     !.current_speaker = next]
             u == [z EXCEPT !.conversations[c] = V]
  <2>1. Aside(x, w) /\ Boxed(x)
    BY TimersAside DEF Aside
  <2>2. sayGoodbye(w, c, a, next) = createIntervalTimer(u, c, a, next)
    BY DEF sayGoodbye
  <2> HIDE DEF x
  <2>3. Aside(y, x) /\ Boxed(y)
    BY <2>1, TurnsAside DEF Aside
  <2> HIDE DEF y
  <2>4. Aside(z, y) /\ Boxed(z)
    BY <2>3, ListsAside DEF Aside
  <2> HIDE DEF z, V
  <2>5. Aside(u, z) /\ Boxed(u)
    BY <2>4, StoresAside DEF Aside
  <2> HIDE DEF u
  <2>6. Aside(createIntervalTimer(u, c, a, next), u)
    BY <2>5, TurnsAside
  <2> QED
    BY <2>1, <2>2, <2>3, <2>4, <2>5, <2>6, AsideTwice
<1>3. Aside(leaveTheFloor(w, c, a, next), w)
  <2> DEFINE x == cancel(w, timer)
             C == [x.conversations EXCEPT ![c].current_turn = @ + 1]
             y == [x EXCEPT !.conversations = C]
             z == expel(y, c, a, TRUE)
             D == [z.conversations EXCEPT ![c].last_spoken_turns[next] =
                     w.conversations[c].current_turn + 1]
             u == [z EXCEPT !.conversations = D]
  <2>1. Aside(x, w) /\ Boxed(x)
    BY TimersAside DEF Aside
  <2>2. leaveTheFloor(w, c, a, next) = createIntervalTimer(u, c, a, next)
    BY DEF leaveTheFloor
  <2> HIDE DEF x, C
  <2>3. Aside(y, x) /\ Boxed(y)
    BY <2>1, StoresAside DEF Aside
  <2> HIDE DEF y
  <2>4. Aside(z, y) /\ Boxed(z)
    <3>1. Aside(z, y)
      BY <2>3, ListsAside
    <3> HIDE DEF z
    <3> QED
      BY <3>1 DEF Aside
  <2> HIDE DEF z, D
  <2>5. Aside(u, z) /\ Boxed(u)
    BY <2>4, StoresAside DEF Aside
  <2> HIDE DEF u
  <2>6. Aside(createIntervalTimer(u, c, a, next), u)
    BY <2>5, TurnsAside
  <2> QED
    BY <2>1, <2>2, <2>3, <2>4, <2>5, <2>6, AsideTwice
<1> QED
  BY <1>1, <1>2, <1>3

\* A wait is begun beside the money.
LEMMA WaitAside ==
  ASSUME NEW w, Boxed(w), NEW a \in Agents, LoggedIn(w, a)
  PROVE  Aside(executeValidatedWait(w, a), w)
<1> DEFINE x == cancelIdleReminder(w, a)
           y == cancelByType(x, a, "wait")
           z == setState(y, a, "in_action")
           u == create(z, Timer("wait", {a}, None))
<1>1. Aside(x, w) /\ Boxed(x)
  BY TimersAside DEF Aside
<1> HIDE DEF x
<1>2. Aside(y, x) /\ Boxed(y)
  BY <1>1, StoresAside DEF Aside, cancelByType
<1> HIDE DEF y
<1>3. LoggedIn(y, a)
  BY <1>1, <1>2 DEF Aside, SameLogins
<1>4. Aside(z, y) /\ Boxed(z)
  BY <1>2, <1>3, StateAside DEF Aside
<1> HIDE DEF z
<1>5. Aside(u, z) /\ Boxed(u)
  BY <1>4, TimersAside DEF Aside
<1> HIDE DEF u
<1>6. Aside(clearExcludedInfoCommands(u, a), u)
  BY <1>5, WindowAside
<1> QED
  BY <1>1, <1>2, <1>4, <1>5, <1>6, AsideTwice
  DEF executeValidatedWait, startActivity, x, y, z, u

\* A wait ends beside the money.
LEMMA WaitedAside ==
  ASSUME NEW w, Boxed(w), NEW a \in Agents, NEW timer
  PROVE  Aside(handleWaitCompleted(w, timer, a), w)
<1> DEFINE x == cancel(w, timer)
           y == setState(x, a, "idle")
<1>1. Aside(x, w) /\ Boxed(x)
  BY TimersAside DEF Aside
<1>2. handleWaitCompleted(w, timer, a)
        = IF LoggedIn(w, a) THEN startIdleReminder(y, a) ELSE x
  BY DEF handleWaitCompleted, becomeIdle
<1> HIDE DEF x
<1>3. CASE LoggedIn(w, a)
  <2>1. LoggedIn(x, a)
    BY <1>1, <1>3 DEF Aside, SameLogins
  <2>2. Aside(y, x) /\ Boxed(y)
    BY <1>1, <2>1, StateAside DEF Aside
  <2> HIDE DEF y
  <2>3. Aside(startIdleReminder(y, a), y)
    BY <2>2, RemindersAside
  <2> QED
    BY <1>1, <1>2, <1>3, <2>2, <2>3, AsideTwice
<1> QED
  BY <1>1, <1>2, <1>3

\* An announcement of the server is made, and forgotten, beside the money.
LEMMA AnnouncedAside ==
  ASSUME NEW w, Boxed(w)
  PROVE  /\ \A n : Aside(fireServerAnnouncement(w, n), w)
         /\ \A a : Aside(cleanupServerAnnouncementsForAgent(w, a), w)
<1>1. ASSUME NEW n PROVE Aside(fireServerAnnouncement(w, n), w)
  <2> DEFINE awaiting(a) == [w.agents[a] EXCEPT !.pending_announcements = @ \cup {n}]
             opened(a) == [w.agents[a] EXCEPT !.announced = TRUE, !.excluded = {}]
  <2>1. \A a \in Agents : /\ "state" \in DOMAIN awaiting(a)
                          /\ "state" \in DOMAIN opened(a)
                          /\ awaiting(a).state = w.agents[a].state
                          /\ opened(a).state = w.agents[a].state
    BY DEF Boxed
  <2>2. ASSUME NEW M, NEW N
        PROVE  LET A == [a \in Agents |-> IF a \in M THEN awaiting(a)
                            ELSE IF LoggedIn(w, a) THEN opened(a) ELSE w.agents[a]]
               IN  Aside([w EXCEPT !.announcements = N, !.agents = A], w)
    <3> HIDE DEF awaiting, opened
    <3> QED
      BY <2>1 DEF Boxed, Aside, SameLogins, LoggedIn
  <2> QED
    BY <2>2 DEF fireServerAnnouncement, Boxed
<1>2. ASSUME NEW a PROVE Aside(cleanupServerAnnouncementsForAgent(w, a), w)
  <2> DEFINE x == clearActiveServerAnnouncement(w, a)
  <2>1. Aside(x, w) /\ Boxed(x)
    BY WindowAside DEF Aside
  <2> HIDE DEF x
  <2>2. \A N : Aside([x EXCEPT !.announcements = N], x)
    BY <2>1, StoresAside
  <2> QED
    BY <2>1, <2>2, AsideTwice DEF cleanupServerAnnouncementsForAgent, x
<1> QED
  BY <1>1, <1>2

(***************************************************************************)
(* Steps that move money between purses and offers.                        *)
(***************************************************************************)

\* What an offer that is kept holds, and whose it is.
Escrow(o) ==
  \/ o = NoOffer
  \/ /\ o.status = "open" /\ o.escrow \in Purse
     /\ o.from_agent_id \in Agents /\ o.to_agent_id \in Agents

\* Purses, offers and registrations, which are up to date.
Coffers(w) ==
  /\ Boxed(w)
  /\ w.purses \in [Agents -> Purse] /\ w.registrations \in [Agents -> Purse]
  /\ w.transfers = [t \in Transfers |-> w.transfers[t]]
  /\ \A t \in Transfers : Escrow(w.transfers[t])
  /\ \A a \in Agents : LoggedIn(w, a) => w.purses[a] = w.registrations[a]

Registers(w) == [a \in Agents |-> w.registrations[a].money]
Escrows(w) == [t \in Transfers |-> w.transfers[t].escrow.money]

\* All the money there is.
Stock(w) == SumOver(Agents, Registers(w)) + SumOver(Transfers, Escrows(w))

\* A step that makes no money and loses none.
Even(u, w) == Coffers(u) /\ SameLogins(u, w) /\ Stock(u) = Stock(w)

\* Nothing at all is even.
LEMMA EvenSelf ==
  ASSUME NEW w, Coffers(w)
  PROVE  Even(w, w)
BY DEF Even, SameLogins

\* Two even steps are one.
LEMMA EvenTwice ==
  ASSUME NEW w, NEW v, Even(v, w), NEW u, Even(u, v)
  PROVE  Even(u, w)
BY DEF Even, SameLogins

\* What is beside the money leaves it as it is.
LEMMA AsideEven ==
  ASSUME NEW w, Coffers(w), NEW u, Aside(u, w)
  PROVE  Even(u, w)
<1>1. Coffers(u)
  BY DEF Coffers, Aside, SameLogins
<1>2. Stock(u) = Stock(w)
  BY DEF Stock, Registers, Escrows, Aside
<1> QED
  BY <1>1, <1>2 DEF Even, Aside

\* Money is natural.
LEMMA MoneyTypes ==
  ASSUME NEW w, Coffers(w)
  PROVE  /\ \A a \in Agents : Registers(w)[a] \in Nat
         /\ \A t \in Transfers : Escrows(w)[t] \in Nat
<1>1. \A a \in Agents : w.registrations[a] \in Purse
  BY DEF Coffers
<1>2. ASSUME NEW t \in Transfers PROVE w.transfers[t].escrow \in Purse
  <2>1. Escrow(w.transfers[t])
    BY DEF Coffers
  <2> QED
    BY <2>1 DEF Escrow, NoOffer, Nothing, Purse
<1> QED
  BY <1>1, <1>2 DEF Registers, Escrows, Purse

\* An offer emptied into the registration of an agent.
Poured(u, w, t, a) ==
  /\ t \in Transfers /\ a \in Agents
  /\ u.transfers[t] = NoOffer
  /\ \A s \in Transfers \ {t} : u.transfers[s] = w.transfers[s]
  /\ u.registrations[a].money = w.registrations[a].money + w.transfers[t].escrow.money
  /\ \A b \in Agents \ {a} : u.registrations[b] = w.registrations[b]

\* What one purse gains an offer loses, or the other way round: the stock stays.
LEMMA PouredStock ==
  ASSUME NEW w, Coffers(w), NEW u, Coffers(u), NEW t, NEW a, Poured(u, w, t, a)
  PROVE  Stock(u) = Stock(w)
<1> DEFINE o == Registers(w)
           p == Registers(u)
           c == Escrows(w)
           d == Escrows(u)
           S == {t}
           n == c[t]
<1>1. /\ \A b \in Agents : o[b] \in Nat /\ p[b] \in Nat
      /\ \A s \in Transfers : c[s] \in Nat /\ d[s] \in Nat
      /\ t \in Transfers /\ a \in Agents
  BY MoneyTypes DEF Poured
<1>2. /\ \A b \in Agents \ {a} : p[b] = o[b]
      /\ p[a] = o[a] + n
      /\ d[t] = 0
      /\ \A s \in Transfers \ S : d[s] = c[s]
  BY DEF Poured, Registers, Escrows, NoOffer, Nothing
<1>3. SumOver(S, c) = n
  BY <1>1, SumOne
<1> HIDE DEF o, p, c, d
<1>4. Shifted(o, p, c, d, S, a, n)
  BY <1>1, <1>2 DEF Shifted
<1>5. /\ SumOver(Agents, p) + SumOver(Transfers, d) + SumOver(S, c)
           = SumOver(Agents, o) + SumOver(Transfers, c) + n
      /\ SumOver(Agents, p) \in Nat /\ SumOver(Transfers, d) \in Nat
      /\ SumOver(Agents, o) \in Nat /\ SumOver(Transfers, c) \in Nat
      /\ SumOver(S, c) \in Nat
  BY <1>4, EmptyingTotal
<1>6. SumOver(Agents, p) + SumOver(Transfers, d) = SumOver(Agents, o) + SumOver(Transfers, c)
  BY <1>3, <1>5
<1> QED
  BY <1>6 DEF Stock, o, p, c, d

\* What is credited is a purse, and all the money arrives.
LEMMA CreditFacts ==
  ASSUME NEW p \in Purse, NEW granted \in Purse
  PROVE  /\ credit(p, granted) \in Purse
         /\ credit(p, granted).money = p.money + granted.money
         /\ [money |-> p.money + granted.money, items |-> p.items + granted.items] \in Purse
<1>1. fitting(p.items, granted.items) \in Nat
  BY WorldAssumption DEF fitting, Purse
<1> QED
  BY <1>1 DEF credit, Purse

\* The agents of an offer are released.
LEMMA ReleaseAside ==
  ASSUME NEW w, Boxed(w), NEW t, NEW offer,
         offer.from_agent_id \in Agents, offer.to_agent_id \in Agents
  PROVE  Aside(clearTransferState(cancelTransferTimer(w, t), t, offer), w)
<1>1. ASSUME NEW v, Boxed(v), NEW a \in Agents
      PROVE  Aside(leaveTransfer(v, a), v)
  <2> DEFINE x == setState(v, a, "idle")
  <2>1. leaveTransfer(v, a) = IF v.agents[a].state = "in_transfer"
                              THEN startIdleReminder(x, a) ELSE v
    BY DEF leaveTransfer, becomeIdle
  <2>2. CASE v.agents[a].state = "in_transfer"
    <3>1. Aside(x, v) /\ Boxed(x)
      BY <1>1, <2>2, StateAside DEF LoggedIn, Aside
    <3> HIDE DEF x
    <3> QED
      BY <2>1, <2>2, <3>1, RemindersAside, AsideTwice
  <2> QED
    BY <1>1, <2>1, <2>2, AsideSelf
<1>2. ASSUME NEW v, Boxed(v), NEW a \in Agents
      PROVE  Aside(releaseSender(v, t, a), v) /\ Aside(releaseReceiver(v, t, a), v)
  <2> DEFINE x == [v EXCEPT !.agents[a].active_transfer_id = None]
             y == [v EXCEPT !.agents[a].pending_transfer_id = None]
  <2>1. Aside(x, v) /\ Boxed(x) /\ Aside(y, v) /\ Boxed(y)
    BY <1>2 DEF Boxed, Aside, SameLogins, LoggedIn
  <2>2. /\ releaseSender(v, t, a) \in {v, leaveTransfer(x, a)}
        /\ releaseReceiver(v, t, a) \in {v, leaveTransfer(y, a)}
    BY DEF releaseSender, releaseReceiver
  <2> HIDE DEF x, y
  <2> QED
    BY <1>1, <1>2, <2>1, <2>2, AsideTwice, AsideSelf
<1> DEFINE x == cancelTransferTimer(w, t)
           y == releaseSender(x, t, offer.from_agent_id)
<1>3. Aside(x, w) /\ Boxed(x)
  BY TimersAside DEF Aside
<1> HIDE DEF x
<1>4. Aside(y, x) /\ Boxed(y)
  BY <1>2, <1>3 DEF Aside
<1> HIDE DEF y
<1>5. Aside(releaseReceiver(y, t, offer.to_agent_id), y)
  BY <1>2, <1>4
<1> QED
  BY <1>3, <1>4, <1>5, AsideTwice DEF clearTransferState, x, y

\* The purse and the registration of one agent are credited and an offer is gone.
LEMMA PourEven ==
  ASSUME NEW w, Coffers(w), NEW t \in Transfers, NEW a \in Agents,
         NEW P \in [Agents -> Purse], NEW R \in [Agents -> Purse],
         \A b \in Agents \ {a} : P[b] = w.purses[b] /\ R[b] = w.registrations[b],
         LoggedIn(w, a) => P[a] = R[a],
         R[a].money = w.registrations[a].money + w.transfers[t].escrow.money,
         NEW u, SameLogins(u, w), Boxed(u), u.purses = P, u.registrations = R,
         u.transfers = [w.transfers EXCEPT ![t] = NoOffer]
  PROVE  Even(u, w)
<1>1. /\ u.transfers = [s \in Transfers |-> u.transfers[s]]
      /\ u.transfers[t] = NoOffer
      /\ \A s \in Transfers \ {t} : u.transfers[s] = w.transfers[s]
  BY DEF Coffers
<1>2. \A b \in Agents : LoggedIn(u, b) => u.purses[b] = u.registrations[b]
  BY DEF Coffers, SameLogins
<1>3. \A s \in Transfers : Escrow(u.transfers[s])
  BY <1>1 DEF Coffers, Escrow
<1>4. Coffers(u)
  BY <1>1, <1>2, <1>3 DEF Coffers
<1>5. Poured(u, w, t, a)
  BY <1>1 DEF Poured
<1> QED
  BY <1>4, <1>5, PouredStock DEF Even

\* A refund goes to the purse and the registration of the sender, or to the
\* registration alone, and it never throws: everybody is registered.
LEMMA RefundEven ==
  ASSUME NEW w, Coffers(w), NEW t \in Transfers, w.transfers[t].status = "open"
  PROVE  /\ Even(finalizeRefund(w, t, NoFaults), w)
         /\ finalizeRefund(w, t, NoFaults).transfers = [w.transfers EXCEPT ![t] = NoOffer]
<1> DEFINE offer == w.transfers[t]
           a == offer.from_agent_id
           g == offer.escrow
           x == clearTransferState(cancelTransferTimer(w, t), t, offer)
           P == [x.purses EXCEPT ![a] = credit(x.purses[a], g)]
           q == [money |-> x.registrations[a].money + g.money,
                 items |-> x.registrations[a].items + g.items]
           u == [refundEscrow(x, offer) EXCEPT !.transfers[t] = NoOffer]
<1>1. offer.escrow \in Purse /\ a \in Agents /\ offer.to_agent_id \in Agents
  BY DEF Coffers, Escrow, NoOffer
<1>2. Aside(x, w) /\ Boxed(x)
  BY <1>1, ReleaseAside DEF Coffers, Aside
<1>3. finalizeRefund(w, t, NoFaults) = u
  <2>1. w.registrations[a] # None
    BY <1>1, WorldAssumption DEF Coffers
  <2>2. ~refundThrows(w, t, NoFaults)
    BY <2>1 DEF refundThrows, Registered, NoFaults
  <2> QED
    BY <2>2 DEF finalizeRefund
<1> HIDE DEF x
<1>4. Even(x, w) /\ Coffers(x)
  BY <1>2, AsideEven DEF Even
<1>5. x.transfers[t] = offer /\ x.transfers = w.transfers
  BY <1>2 DEF Aside
<1>6. x.purses[a] \in Purse /\ x.registrations[a] \in Purse
  BY <1>1, <1>4 DEF Coffers
<1>7. /\ credit(x.purses[a], g) \in Purse /\ q \in Purse
      /\ credit(x.purses[a], g).money = x.purses[a].money + g.money
  BY <1>1, <1>6, CreditFacts
<1>8. CASE LoggedIn(x, a)
  <2> DEFINE R == [x.registrations EXCEPT ![a] = P[a]]
  <2>1. u = [[[x EXCEPT !.purses = P] EXCEPT !.registrations = R]
               EXCEPT !.transfers = [@ EXCEPT ![t] = NoOffer]]
    BY <1>2, <1>8 DEF refundEscrow, creditAgent, persistLoggedInAgentState, Boxed
  <2>2. /\ P \in [Agents -> Purse] /\ R \in [Agents -> Purse]
        /\ P[a] = credit(x.purses[a], g) /\ R[a] = P[a]
        /\ \A b \in Agents \ {a} : P[b] = x.purses[b] /\ R[b] = x.registrations[b]
    BY <1>1, <1>4, <1>7 DEF Coffers
  <2> HIDE DEF P, R
  <2>3. /\ u.purses = P /\ u.registrations = R
        /\ u.transfers = [x.transfers EXCEPT ![t] = NoOffer]
        /\ Boxed(u) /\ SameLogins(u, x)
    BY <1>2, <2>1 DEF Boxed, SameLogins, LoggedIn
  <2>4. x.purses[a] = x.registrations[a]
    BY <1>1, <1>4, <1>8 DEF Coffers
  <2>5. R[a].money = x.registrations[a].money + x.transfers[t].escrow.money
    BY <1>5, <1>7, <2>2, <2>4
  <2> HIDE DEF u
  <2>6. Even(u, x)
    BY <1>1, <1>4, <2>2, <2>3, <2>5, PourEven
  <2> QED
    BY <1>3, <1>4, <1>5, <2>3, <2>6, EvenTwice
<1>9. CASE ~LoggedIn(x, a)
  <2> DEFINE R == [x.registrations EXCEPT ![a] = q]
             V == x.purses
  <2>1. u = [[x EXCEPT !.registrations = R] EXCEPT !.transfers = [@ EXCEPT ![t] = NoOffer]]
    BY <1>2, <1>9 DEF refundEscrow, mergePersistedAgentInventory, Boxed
  <2>2. /\ V \in [Agents -> Purse] /\ R \in [Agents -> Purse] /\ R[a] = q
        /\ \A b \in Agents \ {a} : V[b] = x.purses[b] /\ R[b] = x.registrations[b]
    BY <1>1, <1>4, <1>7 DEF Coffers
  <2> HIDE DEF R
  <2>3. /\ u.purses = V /\ u.registrations = R
        /\ u.transfers = [x.transfers EXCEPT ![t] = NoOffer]
        /\ Boxed(u) /\ SameLogins(u, x)
    BY <1>2, <2>1 DEF Boxed, SameLogins, LoggedIn
  <2>5. R[a].money = x.registrations[a].money + x.transfers[t].escrow.money
    BY <1>5, <2>2
  <2> HIDE DEF u, V, q
  <2>6. Even(u, x)
    BY <1>1, <1>4, <1>9, <2>2, <2>3, <2>5, PourEven
  <2> QED
    BY <1>3, <1>4, <1>5, <2>3, <2>6, EvenTwice
<1> QED
  BY <1>8, <1>9

\* An acceptance pays the receiver, who is logged in.
LEMMA SettleEven ==
  ASSUME NEW w, Coffers(w), NEW t \in Transfers, w.transfers[t].status = "open",
         NEW a \in Agents, LoggedIn(w, a)
  PROVE  /\ Even(settleAccept(w, t, a), w)
         /\ settleAccept(w, t, a).transfers = [w.transfers EXCEPT ![t] = NoOffer]
<1> DEFINE offer == w.transfers[t]
           g == offer.escrow
           P == [w.purses EXCEPT ![a] = credit(w.purses[a], g)]
           R == [w.registrations EXCEPT ![a] = P[a]]
           x == creditAgent(w, a, g)
           y == clearTransferState(cancelTransferTimer(x, t), t, offer)
           u == [y EXCEPT !.transfers[t] = NoOffer]
<1>1. g \in Purse /\ offer.from_agent_id \in Agents /\ offer.to_agent_id \in Agents
  BY DEF Coffers, Escrow, NoOffer
<1>2. settleAccept(w, t, a) = clearExcludedInfoCommands(u, a)
  BY DEF settleAccept
<1>3. x = [[w EXCEPT !.purses = P] EXCEPT !.registrations = R]
  BY DEF creditAgent, persistLoggedInAgentState, Coffers, Boxed
<1>4. w.purses[a] \in Purse /\ w.purses[a] = w.registrations[a]
  BY DEF Coffers
<1>5. /\ credit(w.purses[a], g) \in Purse
      /\ credit(w.purses[a], g).money = w.purses[a].money + g.money
  BY <1>1, <1>4, CreditFacts
<1>6. /\ P \in [Agents -> Purse] /\ R \in [Agents -> Purse]
      /\ P[a] = credit(w.purses[a], g) /\ R[a] = P[a]
      /\ \A b \in Agents \ {a} : P[b] = w.purses[b] /\ R[b] = w.registrations[b]
  BY <1>5 DEF Coffers
<1> HIDE DEF P, R
<1>7. /\ x.purses = P /\ x.registrations = R /\ x.transfers = w.transfers
      /\ Boxed(x) /\ SameLogins(x, w)
  BY <1>3 DEF Boxed, SameLogins, LoggedIn, Coffers
<1> HIDE DEF x
<1>8. Aside(y, x) /\ Boxed(y)
  BY <1>1, <1>7, ReleaseAside DEF Aside
<1> HIDE DEF y
<1>9. /\ u.purses = P /\ u.registrations = R
      /\ u.transfers = [w.transfers EXCEPT ![t] = NoOffer]
      /\ Boxed(u) /\ SameLogins(u, w)
  BY <1>7, <1>8 DEF Boxed, SameLogins, LoggedIn, Aside
<1>10. R[a].money = w.registrations[a].money + w.transfers[t].escrow.money
  BY <1>4, <1>5, <1>6
<1> HIDE DEF u
<1>11. Even(u, w)
  BY <1>6, <1>9, <1>10, PourEven
<1>12. Aside(clearExcludedInfoCommands(u, a), u)
  BY <1>11, WindowAside DEF Even, Coffers
<1>13. Even(clearExcludedInfoCommands(u, a), u)
  BY <1>11, <1>12, AsideEven DEF Even
<1> QED
  BY <1>2, <1>9, <1>11, <1>12, <1>13, EvenTwice DEF Aside

\* An offer is opened: the sender's money is held in its escrow.
LEMMA ProposalEven ==
  ASSUME NEW w, Coffers(w), NEW c, NEW t \in Transfers,
         w.transfers[t].status = "absent", NEW from \in Agents, NEW to \in Agents,
         NEW payload \in Purse
  PROVE  Even(startConversationTransfer(w, c, t, from, to, payload), w)
<1> DEFINE offer == [status |-> "open", from_agent_id |-> from, to_agent_id |-> to,
                     escrow |-> payload, conversation_id |-> c]
           x == [w EXCEPT !.transfers[t] = offer,
                          !.agents[from].active_transfer_id = t,
                          !.agents[to].pending_transfer_id = t,
                          !.purses[from] = debit(@, payload)]
           y == persistLoggedInAgentState(x, from)
           p == debit(w.purses[from], payload)
           P == [w.purses EXCEPT ![from] = p]
           R == [w.registrations EXCEPT ![from] = p]
<1>1. startConversationTransfer(w, c, t, from, to, payload)
        = IF validateConversationTransfer(w, c, from, to, payload)
          THEN create(y, TransferTimer(t, offer)) ELSE w
  BY DEF startConversationTransfer
<1>2. CASE ~validateConversationTransfer(w, c, from, to, payload)
  BY <1>1, <1>2, EvenSelf
<1>3. CASE validateConversationTransfer(w, c, from, to, payload)
  <2>1. /\ LoggedIn(w, from) /\ payload.money <= w.purses[from].money
        /\ payload.items <= w.purses[from].items
    BY <1>3 DEF validateConversationTransfer, isConversing, LoggedIn, Covers
  <2>2. w.purses[from] \in Purse /\ w.purses[from] = w.registrations[from]
    BY <2>1 DEF Coffers
  <2>3. p \in Purse /\ p.money + payload.money = w.purses[from].money
    BY <2>1, <2>2 DEF debit, AtLeastZero, Purse
  <2>4. /\ P \in [Agents -> Purse] /\ R \in [Agents -> Purse]
        /\ P[from] = p /\ R[from] = p
        /\ \A b \in Agents \ {from} : P[b] = w.purses[b] /\ R[b] = w.registrations[b]
    BY <2>3 DEF Coffers
  <2>5. /\ x.purses = P /\ x.registrations = w.registrations
        /\ x.transfers = [w.transfers EXCEPT ![t] = offer]
        /\ Boxed(x) /\ SameLogins(x, w)
    BY DEF Boxed, SameLogins, LoggedIn, Coffers
  <2> HIDE DEF x, p
  <2>6. /\ y.purses = P /\ y.transfers = x.transfers /\ y.registrations = R
        /\ Boxed(y) /\ SameLogins(y, w)
    BY <2>4, <2>5 DEF persistLoggedInAgentState, Boxed, SameLogins, LoggedIn
  <2>7. /\ y.transfers = [s \in Transfers |-> y.transfers[s]]
        /\ y.transfers[t] = offer
        /\ \A s \in Transfers \ {t} : y.transfers[s] = w.transfers[s]
    BY <2>5, <2>6 DEF Coffers
  <2>8. offer.escrow = payload /\ Escrow(offer)
    BY DEF Escrow
  <2> HIDE DEF y, offer, P, R
  <2>9. Coffers(y)
    <3>1. \A s \in Transfers : Escrow(y.transfers[s])
      BY <2>7, <2>8 DEF Coffers
    <3>2. \A b \in Agents : LoggedIn(y, b) => y.purses[b] = y.registrations[b]
      BY <2>4, <2>6 DEF Coffers, SameLogins
    <3> QED
      BY <2>4, <2>6, <2>7, <3>1, <3>2 DEF Coffers
  <2>10. w.transfers[t] = NoOffer
    BY DEF Coffers, Escrow
  <2>11. Poured(w, y, t, from)
    BY <2>2, <2>3, <2>4, <2>6, <2>7, <2>8, <2>10 DEF Poured
  <2>12. Even(y, w)
    BY <2>6, <2>9, <2>11, PouredStock DEF Even
  <2>13. Even(create(y, TransferTimer(t, offer)), y)
    BY <2>9, TimersAside, AsideEven DEF Coffers
  <2> QED
    BY <1>1, <1>3, <2>12, <2>13, EvenTwice
<1> QED
  BY <1>2, <1>3

\* A cancelled offer goes back to its sender, if it was still open.
LEMMA CancelEven ==
  ASSUME NEW w, Coffers(w), NEW t \in Transfers
  PROVE  Even(cancelTransfer(w, t, NoFaults), w)
<1>1. w.transfers[t].status \in {"open", "absent"}
  BY DEF Coffers, Escrow, NoOffer
<1>2. CASE w.transfers[t].status = "open"
  BY <1>2, RefundEven DEF cancelTransfer
<1>3. CASE w.transfers[t].status = "absent"
  BY <1>3, EvenSelf DEF cancelTransfer
<1> QED
  BY <1>1, <1>2, <1>3

\* The open offers from and to an agent are cancelled one after the other.
LEMMA PendingEven ==
  ASSUME NEW w, Coffers(w), NEW a
  PROVE  Even(cancelPendingTransfersForAgent(w, a, NoFaults), w)
<1> DEFINE open == {t \in Transfers :
                      Live(w, t) /\ a \in {w.transfers[t].from_agent_id,
                                           w.transfers[t].to_agent_id}}
<1>1. open # {} => (CHOOSE t \in open : TRUE) \in Transfers
  OBVIOUS
<1>2. cancelPendingTransfersForAgent(w, a, NoFaults)
        = IF open = {} THEN w ELSE cancelTransfer(w, CHOOSE t \in open : TRUE, NoFaults)
  BY DEF cancelPendingTransfersForAgent
<1> HIDE DEF open
<1> QED
  BY <1>1, <1>2, CancelEven, EvenSelf

\* An offer that runs out goes back to its sender.
LEMMA TimeoutEven ==
  ASSUME NEW w, Coffers(w), NEW timer, timer.about \in Transfers
  PROVE  Even(handleTransferTimeout(w, timer, NoFaults), w)
<1> DEFINE x == cancel(w, timer)
<1>1. Aside(x, w)
  BY TimersAside DEF Coffers
<1> HIDE DEF x
<1>2. Even(x, w) /\ Coffers(x) /\ x.transfers = w.transfers
  BY <1>1, AsideEven DEF Even, Aside
<1> QED
  BY <1>2, RefundEven, EvenTwice DEF handleTransferTimeout, Live, x

\* An answer settles the offer or leaves it: none is opened by it.
LEMMA AnswerEven ==
  ASSUME NEW w, Coffers(w), NEW a \in Agents, NEW response,
         w.agents[a].pending_transfer_id \in Transfers \cup {None}
  PROVE  /\ Even(resolveConversationTransferResponse(w, a, response), w)
         /\ \A t \in Transfers :
              resolveConversationTransferResponse(w, a, response).transfers[t]
                \in {w.transfers[t], NoOffer}
<1> DEFINE t == w.agents[a].pending_transfer_id
           u == resolveConversationTransferResponse(w, a, response)
<1>1. \/ u = w
      \/ /\ t # None /\ w.transfers[t].status = "open" /\ LoggedIn(w, a)
         /\ u \in {settleAccept(w, t, a), finalizeRefund(w, t, NoFaults)}
  BY DEF resolveConversationTransferResponse, canAcceptTransfer, canRejectTransfer,
         Live, isConversing, LoggedIn
<1> HIDE DEF u
<1>2. t # None => t \in Transfers
  OBVIOUS
<1> HIDE DEF t
<1>3. Even(u, w)
  <2>1. u = w => Even(u, w)
    BY EvenSelf
  <2>2. ASSUME t # None, w.transfers[t].status = "open", LoggedIn(w, a)
        PROVE  Even(settleAccept(w, t, a), w) /\ Even(finalizeRefund(w, t, NoFaults), w)
    BY <1>2, <2>2, SettleEven, RefundEven
  <2> QED
    BY <1>1, <2>1, <2>2
<1>4. u.transfers = w.transfers \/ u.transfers = [w.transfers EXCEPT ![t] = NoOffer]
  BY <1>1, <1>2, SettleEven, RefundEven
<1>5. \A s \in Transfers : u.transfers[s] \in {w.transfers[s], NoOffer}
  BY <1>4 DEF Coffers
<1> QED
  BY <1>3, <1>5 DEF u

(***************************************************************************)
(* What a conversation does when somebody leaves it or it ends.            *)
(***************************************************************************)

\* What is even is up to date.
LEMMA EvenBoxed ==
  ASSUME NEW w, NEW u, Even(u, w)
  PROVE  Coffers(u) /\ Boxed(u)
BY DEF Even, Coffers

\* The offers made in a conversation are settled one after the other.
LEMMA OffersEven ==
  ASSUME NEW w, Coffers(w), NEW c
  PROVE  Even(cancelInConversationTransfersForConversation(w, c), w)
<1> DEFINE S == {t \in Transfers : /\ w.transfers[t].status # "absent"
                                   /\ w.transfers[t].conversation_id = c}
           offers == SetToSeq(S)
           F == CHOOSE f : SettlesUpTo(f, w, offers, Len(offers))
<1>1. Len(offers) \in Nat /\ \A i \in 1 .. Len(offers) : offers[i] \in Transfers
  <2>1. S \in SUBSET Transfers
    OBVIOUS
  <2> HIDE DEF S
  <2> QED
    BY <2>1, ListOfSome
<1>2. SettlesUpTo(F, w, offers, Len(offers))
  BY <1>1, SettlesDefined, Zenon
<1>3. cancelInConversationTransfersForConversation(w, c) = F[Len(offers)]
  BY Zenon DEF cancelInConversationTransfersForConversation, SettlesUpTo
<1> HIDE DEF F, offers, S
<1> DEFINE bad == {n \in 0 .. Len(offers) : ~Even(F[n], w)}
<1>4. bad = {}
  <2> SUFFICES ASSUME bad # {} PROVE FALSE
    OBVIOUS
  <2>1. PICK n \in bad : \A k \in bad : n <= k
    <3>1. bad \in SUBSET Nat
      OBVIOUS
    <3> HIDE DEF bad
    <3> QED
      BY <3>1, LeastOf
  <2>2. n \in Nat /\ n <= Len(offers) /\ n \in 0 .. Len(offers) /\ ~Even(F[n], w)
    BY <1>1
  <2>3. F[n] = IF n = 0 THEN w ELSE cancelTransfer(F[n - 1], offers[n], NoFaults)
    BY <1>2, <2>2, Zenon DEF SettlesUpTo
  <2>4. CASE n = 0
    BY <2>2, <2>3, <2>4, EvenSelf
  <2>5. CASE n # 0
    <3>1. n - 1 \in 0 .. Len(offers) /\ n - 1 \notin bad /\ offers[n] \in Transfers
      BY <1>1, <2>1, <2>2, <2>5
    <3>2. Even(F[n - 1], w)
      BY <3>1
    <3>3. Even(cancelTransfer(F[n - 1], offers[n], NoFaults), F[n - 1])
      BY <3>1, <3>2, CancelEven DEF Even
    <3> QED
      BY <2>2, <2>3, <2>5, <3>2, <3>3, EvenTwice
  <2> QED
    BY <2>4, <2>5
<1>5. Len(offers) \in 0 .. Len(offers)
  BY <1>1
<1> QED
  BY <1>3, <1>4, <1>5

\* A conversation ends.
LEMMA EndEven ==
  ASSUME NEW w, Coffers(w), NEW c
  PROVE  Even(endConversation(w, c), w)
<1> DEFINE x == discardPendingJoiners(w, c)
           y == cancelConversationTimers(x, c)
           z == cancelInConversationTransfersForConversation(y, c)
           u == [z EXCEPT !.conversations[c] = NoConversation]
           M == Members(w.conversations[c])
<1>1. endConversation(w, c) = cleanupParticipants(u, c, M, TRUE)
  BY DEF endConversation
<1>2. Even(x, w) /\ Coffers(x) /\ Boxed(x)
  BY ListsAside, AsideEven, EvenBoxed DEF Coffers
<1> HIDE DEF x, M
<1>3. Even(y, x) /\ Coffers(y)
  BY <1>2, TimersAside, AsideEven, EvenBoxed
<1> HIDE DEF y
<1>4. Even(z, y) /\ Coffers(z) /\ Boxed(z)
  BY <1>3, OffersEven, EvenBoxed
<1> HIDE DEF z
<1>5. Even(u, z) /\ Coffers(u) /\ Boxed(u)
  BY <1>4, StoresAside, AsideEven, EvenBoxed
<1> HIDE DEF u
<1>6. Even(cleanupParticipants(u, c, M, TRUE), u)
  BY <1>5, CleanupAside, AsideEven
<1> QED
  BY <1>1, <1>2, <1>3, <1>4, <1>5, <1>6, EvenTwice

\* Turns, lists and windows, in a world whose money is up to date.
LEMMA AsidesEven ==
  ASSUME NEW w, Coffers(w), NEW c
  PROVE  /\ \A V : Even([w EXCEPT !.conversations = V], w)
         /\ \A V : Even([w EXCEPT !.conversations[c] = V], w)
         /\ \A timer : Even(cancel(w, timer), w)
         /\ Even(cancelConversationTimers(w, c), w)
         /\ \A types : Even(cancelTimersOf(w, c, types), w)
         /\ Even(applyPendingJoiners(w, c), w)
         /\ Even(discardPendingJoiners(w, c), w)
         /\ \A a, reminded : /\ Even(detachPendingJoiner(w, c, a, reminded), w)
                             /\ Even(expel(w, c, a, reminded), w)
         /\ \A speaker : Even(scheduleTurnTimer(w, c, speaker), w)
         /\ Even(createInactiveCheckTimer(w, c), w)
         /\ Even(clearInactiveCheckState(w, c), w)
         /\ \A a : Even(closeWindow(w, a), w) /\ Even(clearActiveServerAnnouncement(w, a), w)
<1>0. Boxed(w)
  BY DEF Coffers
<1>1. /\ \A V : Even([w EXCEPT !.conversations = V], w)
      /\ \A V : Even([w EXCEPT !.conversations[c] = V], w)
  <2>1. /\ \A V : Aside([w EXCEPT !.conversations = V], w)
        /\ \A V : Aside([w EXCEPT !.conversations[c] = V], w)
    BY <1>0, StoresAside
  <2> QED
    BY <2>1, AsideEven
<1>2. /\ \A timer : Even(cancel(w, timer), w)
      /\ Even(cancelConversationTimers(w, c), w)
      /\ \A types : Even(cancelTimersOf(w, c, types), w)
  BY <1>0, TimersAside, AsideEven
<1>3. /\ Even(applyPendingJoiners(w, c), w)
      /\ Even(discardPendingJoiners(w, c), w)
      /\ \A a, reminded : /\ Even(detachPendingJoiner(w, c, a, reminded), w)
                          /\ Even(expel(w, c, a, reminded), w)
  BY <1>0, ListsAside, AsideEven
<1>4. /\ \A speaker : Even(scheduleTurnTimer(w, c, speaker), w)
      /\ Even(createInactiveCheckTimer(w, c), w)
      /\ Even(clearInactiveCheckState(w, c), w)
  BY <1>0, TurnsAside, AsideEven
<1>5. \A a : Even(closeWindow(w, a), w) /\ Even(clearActiveServerAnnouncement(w, a), w)
  BY <1>0, WindowAside, AsideEven
<1> QED
  BY <1>1, <1>2, <1>3, <1>4, <1>5

\* The conversation resumes after a check, or is over.
LEMMA ResumeEven ==
  ASSUME NEW w, Coffers(w), NEW c
  PROVE  Even(resumeAfterInactiveCheck(w, c), w)
<1> DEFINE x == cancelTimersOf(w, c, {"conversation_inactive_check"})
           y == applyPendingJoiners(x, c)
           next == resolveResumeSpeaker(y.conversations[c])
           C == [y.conversations EXCEPT ![c].resume_speaker = None]
           z == [y EXCEPT !.conversations = C]
<1>1. resumeAfterInactiveCheck(w, c)
        \in {w, endConversation(z, c), scheduleTurnTimer(z, c, next)}
  BY DEF resumeAfterInactiveCheck
<1>2. Even(x, w) /\ Coffers(x)
  BY AsidesEven, EvenBoxed
<1> HIDE DEF x
<1>3. Even(y, x) /\ Coffers(y)
  BY <1>2, AsidesEven, EvenBoxed
<1> HIDE DEF y, C, next
<1>4. Even(z, y) /\ Coffers(z)
  BY <1>3, AsidesEven, EvenBoxed
<1> HIDE DEF z
<1>5. Even(endConversation(z, c), z) /\ Even(scheduleTurnTimer(z, c, next), z)
  BY <1>4, EndEven, AsidesEven
<1> QED
  BY <1>1, <1>2, <1>3, <1>4, <1>5, EvenTwice, EvenSelf

\* After somebody left, a conversation ends, resumes or gives the turn to
\* another.
LEMMA ConcludeEven ==
  ASSUME NEW w, Coffers(w), NEW c
  PROVE  Even(concludeOrContinueAfterLeave(w, c), w)
<1> DEFINE x == applyPendingJoiners(w, c)
           s == resolveResumeSpeaker(x.conversations[c])
<1>1. concludeOrContinueAfterLeave(w, c)
        \in {endConversation(x, c), resumeAfterInactiveCheck(x, c),
             scheduleTurnTimer(x, c, s)}
  BY DEF concludeOrContinueAfterLeave
<1>2. Even(x, w) /\ Coffers(x)
  BY AsidesEven, EvenBoxed
<1> HIDE DEF x, s
<1>3. /\ Even(endConversation(x, c), x) /\ Even(resumeAfterInactiveCheck(x, c), x)
      /\ Even(scheduleTurnTimer(x, c, s), x)
  BY <1>2, EndEven, ResumeEven, AsidesEven
<1> QED
  BY <1>1, <1>2, <1>3, EvenTwice

\* A member that is asked stays.
LEMMA StayEven ==
  ASSUME NEW w, Coffers(w), NEW c, NEW a
  PROVE  Even(stayInConversation(w, c, a), w)
<1> DEFINE x == closeWindow(w, a)
           C == [x.conversations EXCEPT ![c].inactive = @ \ {a}]
           y == [x EXCEPT !.conversations = C]
           D == [y.conversations EXCEPT
                   ![c].last_spoken_turns[a] = w.conversations[c].current_turn]
           z == [y EXCEPT !.conversations = D]
<1>1. stayInConversation(w, c, a) = resumeAfterInactiveCheck(z, c)
  BY DEF stayInConversation
<1>2. Even(x, w) /\ Coffers(x)
  BY AsidesEven, EvenBoxed
<1> HIDE DEF x, C
<1>3. Even(y, x) /\ Coffers(y)
  BY <1>2, AsidesEven, EvenBoxed
<1> HIDE DEF y, D
<1>4. Even(z, y) /\ Coffers(z)
  BY <1>3, AsidesEven, EvenBoxed
<1> HIDE DEF z
<1> QED
  BY <1>1, <1>2, <1>3, <1>4, ResumeEven, EvenTwice

\* A member is taken out, with its offer.
LEMMA DroppedEven ==
  ASSUME NEW w, Coffers(w), NEW c, NEW a
  PROVE  Even(Dropped(w, c, a), w)
<1> DEFINE x == expel(w, c, a, TRUE)
<1>1. Even(x, w) /\ Coffers(x)
  BY AsidesEven, EvenBoxed
<1> HIDE DEF x
<1> QED
  BY <1>1, PendingEven, EvenTwice DEF Dropped, x

\* An agent leaves a conversation that goes on.
LEMMA LeaveEven ==
  ASSUME NEW w, Coffers(w), NEW c, NEW a
  PROVE  Even(leaveConversation(w, c, a), w)
<1> DEFINE x == closeWindow(w, a)
           y == Dropped(x, c, a)
<1>1. leaveConversation(w, c, a) = concludeOrContinueAfterLeave(y, c)
  BY DEF leaveConversation, Dropped
<1>2. Even(x, w) /\ Coffers(x)
  BY AsidesEven, EvenBoxed
<1> HIDE DEF x
<1>3. Even(y, x) /\ Coffers(y)
  BY <1>2, DroppedEven, EvenBoxed
<1> HIDE DEF y
<1> QED
  BY <1>1, <1>2, <1>3, ConcludeEven, EvenTwice

\* The members that did not answer are taken out one after the other.
LEMMA SilentEven ==
  ASSUME NEW w, Sound(w, {}), Coffers(w), NEW timer,
         timer.about.conversation \in Conversations
  PROVE  Even(handleInactiveCheckTimeout(w, timer), w)
<1> DEFINE c == timer.about.conversation
           fired == cancel(w, timer)
           v == fired.conversations[c]
           list == Kept(v.participants, v.inactive)
           F == CHOOSE f : DropsUpTo(f, fired, c, list, Len(list))
           u == handleInactiveCheckTimeout(w, timer)
<1>1. Even(fired, w) /\ Coffers(fired)
  BY AsidesEven, EvenBoxed
<1>2. u = IF v.status # "active" THEN fired
          ELSE concludeOrContinueAfterLeave(F[Len(list)], c)
  BY Zenon DEF handleInactiveCheckTimeout, DropsUpTo, Dropped
<1>3. Len(list) \in Nat
  <2>1. v = w.conversations[c]
    BY DEF cancel, Sound, Shape
  <2>2. v.participants \in Seq(Agents)
    BY <2>1 DEF Sound, Shape, IsConversation
  <2> HIDE DEF v
  <2>3. list \in Seq(Agents)
    BY <2>2, KeptFacts
  <2> HIDE DEF list
  <2> QED
    BY <2>3
<1> HIDE DEF fired, list, u
<1>4. DropsUpTo(F, fired, c, list, Len(list))
  BY <1>3, DropsDefined, Zenon
<1> HIDE DEF F, c
<1> DEFINE bad == {n \in 0 .. Len(list) : ~Even(F[n], fired)}
<1>5. bad = {}
  <2> SUFFICES ASSUME bad # {} PROVE FALSE
    OBVIOUS
  <2>1. PICK n \in bad : \A k \in bad : n <= k
    <3>1. bad \in SUBSET Nat
      OBVIOUS
    <3> HIDE DEF bad
    <3> QED
      BY <3>1, LeastOf
  <2>2. n \in Nat /\ n <= Len(list) /\ n \in 0 .. Len(list) /\ ~Even(F[n], fired)
    BY <1>3
  <2>3. F[n] = IF n = 0 THEN fired ELSE Dropped(F[n - 1], c, list[n])
    BY <1>4, <2>2, Zenon DEF DropsUpTo
  <2>4. CASE n = 0
    BY <1>1, <2>2, <2>3, <2>4, EvenSelf
  <2>5. CASE n # 0
    <3>1. n - 1 \in 0 .. Len(list) /\ n - 1 \notin bad
      BY <1>3, <2>1, <2>2, <2>5
    <3>2. Even(F[n - 1], fired)
      BY <3>1
    <3>3. Even(Dropped(F[n - 1], c, list[n]), F[n - 1])
      BY <3>2, DroppedEven, EvenBoxed
    <3> QED
      BY <2>2, <2>3, <2>5, <3>2, <3>3, EvenTwice
  <2> QED
    BY <2>4, <2>5
<1> DEFINE z == F[Len(list)]
<1>6. Even(z, fired) /\ Coffers(z)
  <2>1. Len(list) \in 0 .. Len(list)
    BY <1>3
  <2>2. Even(z, fired)
    BY <1>5, <2>1
  <2> HIDE DEF z
  <2> QED
    BY <2>2, EvenBoxed
<1>7. u \in {fired, concludeOrContinueAfterLeave(z, c)}
  BY <1>2, Zenon DEF c, list, F
<1> HIDE DEF z
<1>8. Even(concludeOrContinueAfterLeave(z, c), z)
  BY <1>6, ConcludeEven
<1>9. Even(u, w)
  BY <1>1, <1>6, <1>7, <1>8, EvenTwice
<1> QED
  BY <1>9 DEF u

(***************************************************************************)
(* What ends the turns of a conversation, and what its members say.        *)
(***************************************************************************)

\* A farewell in a conversation that closes.
LEMMA CloseAfterEven ==
  ASSUME NEW w, Coffers(w), NEW c, NEW speaker, NEW next
  PROVE  Even(closeAfterSpeech(w, c, speaker, next), w)
<1> DEFINE x == IF speaker \in Members(w.conversations[c])
                THEN expel(w, c, speaker, TRUE) ELSE w
           v == x.conversations[c]
           s == IF next \in Members(v) THEN next ELSE resolveResumeSpeaker(v)
<1>1. closeAfterSpeech(w, c, speaker, next)
        = IF Len(v.participants) <= 1 THEN endConversation(x, c)
          ELSE scheduleTurnTimer(x, c, s)
  BY DEF closeAfterSpeech
<1>2. Even(x, w) /\ Coffers(x)
  BY AsidesEven, EvenSelf, EvenBoxed
<1> HIDE DEF x, v, s
<1>3. Even(endConversation(x, c), x) /\ Even(scheduleTurnTimer(x, c, s), x)
  BY <1>2, EndEven, AsidesEven
<1> QED
  BY <1>1, <1>2, <1>3, EvenTwice

\* The end of an interval.
LEMMA IntervalEven ==
  ASSUME NEW w, Coffers(w), NEW timer
  PROVE  Even(handleConversationInterval(w, timer), w)
<1> DEFINE c == timer.about.conversation
           fired == cancel(w, timer)
           x == IF w.conversations[c].status = "active"
                THEN applyPendingJoiners(fired, c) ELSE fired
           v == x.conversations[c]
           next == IF timer.about.next \in Members(v) THEN timer.about.next
                   ELSE resolveResumeSpeaker(v)
           speaker == timer.about.speaker
           u == handleConversationInterval(w, timer)
<1>1. u \in {fired, endConversation(x, c), closeBetweenTwo(x, c, next),
             closeAfterSpeech(x, c, speaker, next), closeForMaxTurns(x, c, next),
             startInactiveCheck(x, c, next), scheduleTurnTimer(x, c, next)}
  BY DEF handleConversationInterval
<1>2. Even(fired, w) /\ Coffers(fired)
  BY AsidesEven, EvenBoxed
<1> HIDE DEF fired, u
<1>3. Even(x, fired) /\ Coffers(x) /\ Boxed(x)
  BY <1>2, AsidesEven, EvenSelf, EvenBoxed
<1> HIDE DEF c, next, x, v, speaker
<1>4. /\ Even(endConversation(x, c), x) /\ Even(scheduleTurnTimer(x, c, next), x)
      /\ Even(closeAfterSpeech(x, c, speaker, next), x)
  BY <1>3, EndEven, AsidesEven, CloseAfterEven
<1>5. Even(closeBetweenTwo(x, c, next), x)
  BY <1>4 DEF closeBetweenTwo
<1>6. /\ Even(closeForMaxTurns(x, c, next), x) /\ Even(startInactiveCheck(x, c, next), x)
  BY <1>3, CheckAside, AsideEven
<1>7. Even(u, w)
  BY <1>1, <1>2, <1>3, <1>4, <1>5, <1>6, EvenTwice
<1> QED
  BY <1>7 DEF u

\* Nobody took the turn.
LEMMA TurnEven ==
  ASSUME NEW w, Coffers(w), NEW timer
  PROVE  Even(handleTurnTimeout(w, timer), w)
<1> DEFINE x == cancel(w, timer)
           c == timer.about.conversation
<1>1. handleTurnTimeout(w, timer) \in {x, endConversation(x, c)}
  BY DEF handleTurnTimeout
<1>2. Even(x, w) /\ Coffers(x)
  BY AsidesEven, EvenBoxed
<1> HIDE DEF x, c
<1> QED
  BY <1>1, <1>2, EndEven, EvenTwice

\* A member is called away by an announcement.
LEMMA BeginClosingEven ==
  ASSUME NEW w, Coffers(w), NEW c, NEW speaker, NEW departing
  PROVE  Even(beginClosingConversation(w, c, speaker, departing), w)
<1> DEFINE x == cancelConversationTimers(w, c)
           y == cancelInConversationTransfersForConversation(x, c)
           z == clearInactiveCheckState(y, c)
           w1 == discardPendingJoiners(z, c)
           C == [w1.conversations EXCEPT ![c].status = "closing"]
           w2 == [w1 EXCEPT !.conversations = C]
           D == [w2.conversations EXCEPT ![c].closing_reason = "server_announcement"]
           w3 == [w2 EXCEPT !.conversations = D]
           w4 == expel(w3, c, departing, FALSE)
           v == w4.conversations[c]
           next == IF speaker \in Members(v) THEN speaker ELSE FirstOf(v)
<1>1. beginClosingConversation(w, c, speaker, departing)
        \in {endConversation(w4, c), scheduleTurnTimer(w4, c, next)}
  BY DEF beginClosingConversation
<1>2. Even(x, w) /\ Coffers(x)
  BY AsidesEven, EvenBoxed
<1> HIDE DEF x
<1>3. Even(y, x) /\ Coffers(y)
  BY <1>2, OffersEven, EvenBoxed
<1> HIDE DEF y
<1>4. Even(z, y) /\ Coffers(z)
  BY <1>3, AsidesEven, EvenBoxed
<1> HIDE DEF z
<1>5. Even(w1, z) /\ Coffers(w1)
  BY <1>4, AsidesEven, EvenBoxed
<1> HIDE DEF w1, C
<1>6. Even(w2, w1) /\ Coffers(w2)
  BY <1>5, AsidesEven, EvenBoxed
<1> HIDE DEF w2, D
<1>7. Even(w3, w2) /\ Coffers(w3)
  BY <1>6, AsidesEven, EvenBoxed
<1> HIDE DEF w3
<1>8. Even(w4, w3) /\ Coffers(w4)
  BY <1>7, AsidesEven, EvenBoxed
<1> HIDE DEF w4, next
<1>9. Even(endConversation(w4, c), w4) /\ Even(scheduleTurnTimer(w4, c, next), w4)
  BY <1>8, EndEven, AsidesEven
<1>10. Even(w4, w)
  BY <1>2, <1>3, <1>4, <1>5, <1>6, <1>7, <1>8, EvenTwice
<1> QED
  BY <1>1, <1>9, <1>10, EvenTwice

\* An agent is taken out of a conversation that closes.
LEMMA DetachClosingEven ==
  ASSUME NEW w, Coffers(w), NEW c, NEW a
  PROVE  Even(detachParticipantFromClosingConversation(w, c, a), w)
<1> DEFINE x == cancelPendingTransfersForAgent(w, a, NoFaults)
           y == expel(x, c, a, FALSE)
           z == cancelConversationTimers(y, c)
           s == resolveResumeSpeaker(y.conversations[c])
<1>1. detachParticipantFromClosingConversation(w, c, a)
        \in {endConversation(y, c), y, scheduleTurnTimer(z, c, s)}
  BY DEF detachParticipantFromClosingConversation
<1>2. Even(x, w) /\ Coffers(x)
  BY PendingEven, EvenBoxed
<1> HIDE DEF x
<1>3. Even(y, x) /\ Coffers(y)
  BY <1>2, AsidesEven, EvenBoxed
<1> HIDE DEF y
<1>4. Even(z, y) /\ Coffers(z)
  BY <1>3, AsidesEven, EvenBoxed
<1> HIDE DEF z, s
<1>5. Even(endConversation(y, c), y) /\ Even(scheduleTurnTimer(z, c, s), z)
  BY <1>3, <1>4, EndEven, AsidesEven
<1> QED
  BY <1>1, <1>2, <1>3, <1>4, <1>5, EvenTwice

\* An agent leaves its conversation for an announcement.
LEMMA LeaveForEven ==
  ASSUME NEW w, Coffers(w), NEW a
  PROVE  Even(leaveForAnnouncement(w, a), w)
<1> DEFINE c == findConversationByAgent(w, a, {"active", "closing"})
           v == w.conversations[c]
           s == getConversationActionableSpeaker(v)
           others == Without(v.participants, a)
           partner == IF s \notin {None, a} THEN s
                      ELSE IF others # <<>> THEN Head(others) ELSE v.current_speaker
<1>1. leaveForAnnouncement(w, a)
        \in {w, detachPendingJoiner(w, c, a, FALSE),
             detachParticipantFromClosingConversation(w, c, a),
             beginClosingConversation(w, c, partner, a)}
  BY DEF leaveForAnnouncement
<1> HIDE DEF c, v, partner
<1>2. Even(detachPendingJoiner(w, c, a, FALSE), w)
  BY AsidesEven
<1>3. /\ Even(detachParticipantFromClosingConversation(w, c, a), w)
      /\ Even(beginClosingConversation(w, c, partner, a), w)
  BY DetachClosingEven, BeginClosingEven
<1> QED
  BY <1>1, <1>2, <1>3, EvenSelf

\* A logout takes its agent out of the conversation it is in.
LEMMA ForceEndEven ==
  ASSUME NEW w, Coffers(w), NEW a
  PROVE  Even(forceEndConversation(w, a), w)
<1> DEFINE c == findConversationByAgent(w, a, {"active", "closing"})
           x == cancelPendingTransfersForAgent(w, a, NoFaults)
           y == cancelConversationTimers(x, c)
           r == removeParticipant(y.conversations[c], a)
           z == [y EXCEPT !.conversations[c] = r]
           s == SpeakerWithout(w, c, a, z.conversations[c])
<1>1. forceEndConversation(w, a)
        \in {w, detachPendingJoiner(w, c, a, TRUE), endConversation(z, c),
             createInactiveCheckTimer(z, c), scheduleTurnTimer(z, c, s)}
  BY DEF forceEndConversation
<1> HIDE DEF c
<1>2. Even(detachPendingJoiner(w, c, a, TRUE), w)
  BY AsidesEven
<1>3. Even(x, w) /\ Coffers(x)
  BY PendingEven, EvenBoxed
<1> HIDE DEF x
<1>4. Even(y, x) /\ Coffers(y)
  BY <1>3, AsidesEven, EvenBoxed
<1> HIDE DEF y, r
<1>5. Even(z, y) /\ Coffers(z)
  BY <1>4, AsidesEven, EvenBoxed
<1> HIDE DEF z, s
<1>6. /\ Even(endConversation(z, c), z) /\ Even(createInactiveCheckTimer(z, c), z)
      /\ Even(scheduleTurnTimer(z, c, s), z)
  BY <1>5, EndEven, AsidesEven
<1> QED
  BY <1>1, <1>2, <1>3, <1>4, <1>5, <1>6, EvenTwice, EvenSelf

\* The agent whose turn it is ends the conversation, or its part in it.
LEMMA EndByAgentEven ==
  ASSUME NEW w, Coffers(w), NEW c, NEW a \in Agents, NEW next, NEW response,
         w.agents[a].pending_transfer_id \in Transfers \cup {None}
  PROVE  Even(endConversationByAgent(w, c, a, next, response), w)
<1> DEFINE x == IF response = None THEN w
                ELSE resolveConversationTransferResponse(w, a, response)
           y == closeWindow(x, a)
           b == CHOOSE b \in Others(w.conversations[c], a) : TRUE
           g == sayGoodbye(y, c, a, b)
           f == leaveTheFloor(y, c, a, next)
<1>1. endConversationByAgent(w, c, a, next, response)
        \in {y, cancelPendingTransfersForAgent(g, a, NoFaults),
             cancelPendingTransfersForAgent(f, a, NoFaults)}
  BY DEF endConversationByAgent
<1>2. Even(x, w) /\ Coffers(x)
  BY AnswerEven, EvenSelf, EvenBoxed
<1> HIDE DEF x, b
<1>3. Even(y, x) /\ Coffers(y) /\ Boxed(y)
  BY <1>2, AsidesEven, EvenBoxed
<1> HIDE DEF y
<1>4. Even(g, y) /\ Even(f, y) /\ Coffers(g) /\ Coffers(f)
  BY <1>3, SpeakAside, AsideEven, EvenBoxed
<1> HIDE DEF g, f
<1>5. /\ Even(cancelPendingTransfersForAgent(g, a, NoFaults), g)
      /\ Even(cancelPendingTransfersForAgent(f, a, NoFaults), f)
  BY <1>4, PendingEven
<1> QED
  BY <1>1, <1>2, <1>3, <1>4, <1>5, EvenTwice

\* The command of an agent in its window.
LEMMA InterruptionEven ==
  ASSUME NEW w, Sound(w, {}), Coffers(w), NEW a \in Agents, requireActionableAgent(w, a)
  PROVE  Even(handleInterruption(w, a), w)
<1> DEFINE u == handleInterruption(w, a)
<1>1. CASE ~w.agents[a].announced
  BY <1>1, EvenSelf DEF handleInterruption
<1>2. CASE w.agents[a].announced /\ w.agents[a].state = "in_conversation"
  <2> DEFINE x == leaveForAnnouncement(w, a)
             y == setState(x, a, "idle")
  <2>1. u = clearActiveServerAnnouncement(y, a)
    BY <1>2 DEF handleInterruption
  <2>2. Even(x, w) /\ Coffers(x) /\ Boxed(x)
    BY LeaveForEven, EvenBoxed
  <2> HIDE DEF x
  <2>3. LoggedIn(x, a)
    BY <2>2 DEF Even, SameLogins, requireActionableAgent
  <2>4. Even(y, x) /\ Coffers(y)
    BY <2>2, <2>3, StateAside, AsideEven, EvenBoxed
  <2> HIDE DEF y
  <2>5. Even(clearActiveServerAnnouncement(y, a), y)
    BY <2>4, AsidesEven
  <2> QED
    BY <2>1, <2>2, <2>4, <2>5, EvenTwice
<1>3. CASE w.agents[a].announced /\ w.agents[a].state # "in_conversation"
  <2> DEFINE x == cancelPendingConversationForServerAnnouncement(w, a)
             y == interruptActivity(x, a)
             z == setState(y, a, "idle")
  <2>1. u = handleServerAnnouncementInterruption(x, a, NoFaults)
    BY <1>3 DEF handleInterruption
  <2>2. Announcements # {}
    BY <1>3 DEF Sound
  <2>3. Fades(x, w)
    BY <2>2, DissolveSound
  <2>4. Even(x, w) /\ Coffers(x) /\ Boxed(x)
    BY DissolveAside, AsideEven, EvenBoxed DEF Coffers
  <2> HIDE DEF x
  <2>5. w.agents[a].state \in {"idle", "in_action"}
    BY <1>3 DEF Sound, Shape, AgentRecord, requireActionableAgent, LoggedIn
  <2>6. x.agents[a].state # "in_transfer"
    BY <2>3, <2>5 DEF Fades
  <2>7. u \in {x, clearActiveServerAnnouncement(z, a)}
    BY <2>1, <2>6 DEF handleServerAnnouncementInterruption
  <2>8. Even(y, x) /\ Coffers(y) /\ Boxed(y)
    BY <2>4, ActivityAside, AsideEven, EvenBoxed
  <2> HIDE DEF y
  <2>9. LoggedIn(y, a)
    BY <2>4, <2>8 DEF Even, SameLogins, requireActionableAgent
  <2>10. Even(z, y) /\ Coffers(z)
    BY <2>8, <2>9, StateAside, AsideEven, EvenBoxed
  <2> HIDE DEF z
  <2>11. Even(clearActiveServerAnnouncement(z, a), z)
    BY <2>10, AsidesEven
  <2> QED
    BY <2>4, <2>7, <2>8, <2>10, <2>11, EvenTwice
<1> QED
  BY <1>1, <1>2, <1>3

(***************************************************************************)
(* The balance of the world.                                               *)
(***************************************************************************)

\* All the money there is, is what the agents began with.
Balanced(w) == Coffers(w) /\ Stock(w) = Cardinality(Agents) * InitialMoney

\* An even step leaves the balance as it is.
LEMMA EvenBalanced ==
  ASSUME NEW w, Balanced(w), NEW u, Even(u, w)
  PROVE  Balanced(u)
BY DEF Balanced, Even

\* A login takes what is registered into memory.
LEMMA LoginBalanced ==
  ASSUME NEW w, Balanced(w), NEW a \in Agents
  PROVE  Balanced(startIdleReminder(login(w, a), a))
<1> DEFINE u == login(w, a)
           g == [LoggedOut EXCEPT !.state = "idle"]
<1>1. /\ u.purses = [w.purses EXCEPT ![a] = w.registrations[a]]
      /\ u.transfers = w.transfers /\ u.registrations = w.registrations
      /\ Boxed(u)
      /\ \A b \in Agents \ {a} : LoggedIn(u, b) <=> LoggedIn(w, b)
  <2>1. "state" \in DOMAIN g
    BY DEF LoggedOut
  <2>2. u = [[w EXCEPT !.agents = [@ EXCEPT ![a] = g]]
               EXCEPT !.purses = [@ EXCEPT ![a] = w.registrations[a]]]
    BY DEF login, Balanced, Coffers, Boxed
  <2> HIDE DEF u, g
  <2> QED
    BY <2>1, <2>2 DEF Balanced, Coffers, Boxed, LoggedIn
<1> HIDE DEF u
<1>2. u.purses \in [Agents -> Purse] /\ u.purses[a] = w.registrations[a]
      /\ \A b \in Agents \ {a} : u.purses[b] = w.purses[b]
  BY <1>1 DEF Balanced, Coffers
<1>3. \A b \in Agents : LoggedIn(u, b) => u.purses[b] = u.registrations[b]
  BY <1>1, <1>2 DEF Balanced, Coffers
<1>4. Coffers(u)
  BY <1>1, <1>2, <1>3 DEF Balanced, Coffers
<1>5. Balanced(u)
  BY <1>1, <1>4 DEF Balanced, Stock, Registers, Escrows
<1>6. Even(startIdleReminder(u, a), u)
  BY <1>1, <1>4, RemindersAside, AsideEven
<1> QED
  BY <1>5, <1>6, EvenBalanced DEF u

\* Who logs out keeps what is registered.
LEMMA GoneBalanced ==
  ASSUME NEW w, Balanced(w), NEW a \in Agents
  PROVE  Balanced(logout(w, a))
<1> DEFINE u == logout(w, a)
<1>1. /\ u.purses = [w.purses EXCEPT ![a] = Nothing]
      /\ u.transfers = w.transfers /\ u.registrations = w.registrations
      /\ Boxed(u) /\ ~LoggedIn(u, a)
      /\ \A b \in Agents \ {a} : LoggedIn(u, b) <=> LoggedIn(w, b)
  <2>1. "state" \in DOMAIN LoggedOut /\ LoggedOut.state = "logged_out"
    BY DEF LoggedOut
  <2>2. u = [[w EXCEPT !.agents = [@ EXCEPT ![a] = LoggedOut]]
               EXCEPT !.purses = [@ EXCEPT ![a] = Nothing]]
    BY DEF logout, Balanced, Coffers, Boxed
  <2> HIDE DEF u
  <2> QED
    BY <2>1, <2>2 DEF Balanced, Coffers, Boxed, LoggedIn
<1> HIDE DEF u
<1>2. u.purses \in [Agents -> Purse]
      /\ \A b \in Agents \ {a} : u.purses[b] = w.purses[b]
  BY <1>1 DEF Balanced, Coffers, Nothing, Purse
<1>3. \A b \in Agents : LoggedIn(u, b) => u.purses[b] = u.registrations[b]
  BY <1>1, <1>2 DEF Balanced, Coffers
<1>4. Coffers(u)
  BY <1>1, <1>2, <1>3 DEF Balanced, Coffers
<1> QED
  BY <1>1, <1>4 DEF Balanced, Stock, Registers, Escrows, u

\* A logout settles the agent's offers before it forgets the agent.
LEMMA LogoutBalanced ==
  ASSUME NEW w, Balanced(w), NEW a \in Agents, LoggedIn(w, a)
  PROVE  Balanced(logout(cleanupServerAnnouncementsForAgent(
                    cancelByAgent(
                      persistLoggedInAgentState(
                        cancelPendingTransfersForAgent(
                          forceEndConversation(cancelPendingConversation(w, a), a),
                          a, NoFaults), a), a), a), a))
<1> DEFINE x1 == cancelPendingConversation(w, a)
           x2 == forceEndConversation(x1, a)
           x3 == cancelPendingTransfersForAgent(x2, a, NoFaults)
           x4 == persistLoggedInAgentState(x3, a)
           x5 == cancelByAgent(x4, a)
           x6 == cleanupServerAnnouncementsForAgent(x5, a)
<1>1. Even(x1, w) /\ Coffers(x1)
  BY DissolveAside, AsideEven, EvenBoxed DEF Balanced, Coffers
<1> HIDE DEF x1
<1>2. Even(x2, x1) /\ Coffers(x2)
  BY <1>1, ForceEndEven, EvenBoxed
<1> HIDE DEF x2
<1>3. Even(x3, x2) /\ Coffers(x3) /\ Boxed(x3)
  BY <1>2, PendingEven, EvenBoxed
<1> HIDE DEF x3
<1>4. Aside(x4, x3) /\ Boxed(x4)
  <2>1. LoggedIn(x3, a)
    BY <1>1, <1>2, <1>3 DEF Even, SameLogins
  <2>2. x3.purses[a] = x3.registrations[a] /\ x3.registrations \in [Agents -> Purse]
    BY <1>3, <2>1 DEF Coffers
  <2>3. [x3.registrations EXCEPT ![a] = x3.purses[a]] = x3.registrations
    BY <2>2
  <2>4. x4 = [x3 EXCEPT !.registrations = x3.registrations]
    BY <2>3 DEF persistLoggedInAgentState
  <2> QED
    BY <1>3, <2>4 DEF Aside, Boxed, SameLogins, LoggedIn
<1> HIDE DEF x4
<1>5. Aside(x5, x4) /\ Boxed(x5)
  BY <1>4, TimersAside DEF Aside
<1> HIDE DEF x5
<1>6. Aside(x6, x5)
  BY <1>5, AnnouncedAside
<1> HIDE DEF x6
<1>7. Even(x6, x3)
  BY <1>3, <1>4, <1>5, <1>6, AsideTwice, AsideEven
<1>8. Balanced(x6)
  BY <1>1, <1>2, <1>3, <1>7, EvenTwice, EvenBalanced
<1>9. Balanced(logout(x6, a))
  BY <1>8, GoneBalanced
<1> QED
  BY <1>9 DEF x6, x5, x4, x3, x2, x1

\* A handler that leaves the money balanced is a step that keeps it so.
LEMMA BecomeBalanced ==
  ASSUME NEW v, Balanced(v), Become(v)
  PROVE  Balanced(world)'
<1>1. /\ world'.agents = v.agents /\ world'.purses = v.purses
      /\ world'.transfers = v.transfers /\ world'.registrations = v.registrations
  BY DEF Become, world
<1>2. Boxed(world')
  <2>1. {"agents", "purses", "transfers", "announcements", "timers",
         "registrations", "conversations"} \subseteq DOMAIN world'
    BY DEF world
  <2> QED
    BY <1>1, <2>1 DEF Balanced, Coffers, Boxed
<1>3. Coffers(world')
  BY <1>1, <1>2 DEF Balanced, Coffers, LoggedIn
<1> QED
  BY <1>1, <1>3 DEF Balanced, Stock, Registers, Escrows

\* What changes nothing leaves the balance as it is.
LEMMA UnchangedBalanced ==
  ASSUME Balanced(world), UNCHANGED vars
  PROVE  Balanced(world)'
<1>1. world' = world
  BY DEF vars, world
<1> QED
  BY <1>1

\* At first every agent has what it begins with, and nothing is offered.
LEMMA InitBalanced == Init => Balanced(world)
<1> SUFFICES ASSUME Init PROVE Balanced(world)
  OBVIOUS
<1>1. /\ world.agents = [a \in Agents |-> LoggedOut]
      /\ world.purses = [a \in Agents |-> Nothing]
      /\ world.transfers = [t \in Transfers |-> NoOffer]
      /\ world.registrations = [a \in Agents |-> [money |-> InitialMoney, items |-> 0]]
  BY DEF Init, EmptyWorld, world
<1>2. Boxed(world)
  <2>1. {"agents", "purses", "transfers", "announcements", "timers",
         "registrations", "conversations"} \subseteq DOMAIN world
    BY DEF world
  <2> QED
    BY <1>1, <2>1 DEF Boxed, LoggedOut
<1>3. \A a \in Agents : ~LoggedIn(world, a)
  BY <1>1 DEF LoggedIn, LoggedOut
<1>4. /\ world.purses \in [Agents -> Purse] /\ world.registrations \in [Agents -> Purse]
  BY <1>1, WorldAssumption DEF Purse, Nothing
<1>5. Coffers(world)
  BY <1>1, <1>2, <1>3, <1>4 DEF Coffers, Escrow
<1>6. SumOver(Agents, Registers(world)) = Cardinality(Agents) * InitialMoney
  <2>1. Registers(world) = [a \in Agents |-> InitialMoney]
    BY <1>1 DEF Registers
  <2> QED
    BY <2>1, SumConstant, WorldAssumption
<1>7. SumOver(Transfers, Escrows(world)) = 0
  <2>1. \A t \in Transfers : Escrows(world)[t] = 0
    BY <1>1 DEF Escrows, NoOffer, Nothing
  <2> QED
    BY <2>1, SumZero
<1>8. Cardinality(Agents) * InitialMoney \in Nat
  BY WorldAssumption, FS_CardinalityType
<1> QED
  BY <1>5, <1>6, <1>7, <1>8 DEF Balanced, Stock

\* What one agent does alone.
LEMMA AgentBalance ==
  ASSUME IInv, Balanced(world), AgentNext
  PROVE  Balanced(world)'
<1>0. Sound(world, {}) /\ Coffers(world) /\ Boxed(world)
  BY DEF IInv, Balanced, Coffers
<1>1. ASSUME NEW a \in Agents, loginAgent(a) PROVE Balanced(world)'
  <2> DEFINE v == startIdleReminder(login(world, a), a)
  <2>1. Balanced(v) /\ Become(v)
    BY <1>1, LoginBalanced DEF loginAgent
  <2> HIDE DEF v
  <2> QED
    BY <2>1, BecomeBalanced
<1>2. ASSUME NEW a \in Agents, logoutAgent(a) PROVE Balanced(world)'
  <2> DEFINE v == logout(cleanupServerAnnouncementsForAgent(
                     cancelByAgent(LeftEverything(a), a), a), a)
  <2>1. Balanced(v)
    BY <1>2, LogoutBalanced DEF LeftEverything, logoutAgent
  <2>2. Become(v)
    BY <1>2 DEF logoutAgent
  <2> HIDE DEF v
  <2> QED
    BY <2>1, <2>2, BecomeBalanced
<1>3. ASSUME NEW a \in Agents, executeWait(a) PROVE Balanced(world)'
  <2> DEFINE u == handleInterruption(world, a)
             v == executeValidatedWait(u, a)
  <2>1. requireActionableAgent(world, a) /\ Become(v)
    BY <1>3 DEF executeWait
  <2>2. Even(u, world)
    BY <1>0, <2>1, InterruptionEven
  <2>3. LoggedIn(u, a)
    BY <1>0, <2>1, InterruptionSound DEF LoggedIn
  <2> HIDE DEF u
  <2>4. Even(v, u)
    BY <2>2, <2>3, EvenBoxed, WaitAside, AsideEven
  <2> HIDE DEF v
  <2>5. Balanced(v)
    BY <2>2, <2>4, EvenTwice, EvenBalanced
  <2> QED
    BY <2>1, <2>5, BecomeBalanced
<1>4. ASSUME NEW a \in Agents, waitCompleted(a) PROVE Balanced(world)'
  <2>1. PICK timer \in Pending("wait") : Become(handleWaitCompleted(world, timer, a))
    BY <1>4 DEF waitCompleted
  <2> DEFINE v == handleWaitCompleted(world, timer, a)
  <2>2. Even(v, world) /\ Become(v)
    BY <1>0, <2>1, WaitedAside, AsideEven
  <2> HIDE DEF v
  <2> QED
    BY <2>2, EvenBalanced, BecomeBalanced
<1> QED
  BY <1>1, <1>2, <1>3, <1>4 DEF AgentNext

\* Inviting, and answering an invitation.
LEMMA InvitationBalance ==
  ASSUME IInv, Balanced(world), InvitationNext
  PROVE  Balanced(world)'
<1>0. Sound(world, {}) /\ Coffers(world) /\ Boxed(world)
  BY DEF IInv, Balanced, Coffers
<1>1. ASSUME NEW v, Aside(v, world), Become(v) PROVE Balanced(world)'
  BY <1>0, <1>1, AsideEven, EvenBalanced, BecomeBalanced
<1>2. ASSUME NEW a \in Agents, NEW target \in Agents, NEW c \in Conversations,
             startConversationRequest(a, target, c)
      PROVE  Balanced(world)'
  <2> DEFINE v == startConversation(world, c, a, target)
  <2>1. Aside(v, world) /\ Become(v)
    BY <1>0, <1>2, InviteAside DEF startConversationRequest
  <2> HIDE DEF v
  <2> QED
    BY <1>1, <2>1
<1>3. ASSUME NEW a \in Agents, acceptConversationRequest(a) PROVE Balanced(world)'
  <2> DEFINE c == findConversationByAgent(world, a, {"pending"})
             v == acceptConversation(world, c, a)
  <2>1. c # None /\ Become(v)
    BY <1>3, WorldNow DEF acceptConversationRequest
  <2>2. c \in Conversations /\ world.conversations[c].status = "pending"
    BY <2>1, Found
  <2> HIDE DEF c
  <2>3. world.conversations[c].initiator \in Agents
    BY <1>0, <2>2 DEF Sound, Invites
  <2>4. Aside(v, world)
    BY <1>0, <2>2, <2>3, AcceptAside
  <2> HIDE DEF v
  <2> QED
    BY <1>1, <2>1, <2>4
<1>4. ASSUME NEW a \in Agents, rejectConversationRequest(a) PROVE Balanced(world)'
  <2> DEFINE c == findConversationByAgent(world, a, {"pending"})
             v == rejectConversation(world, c, a)
  <2>1. Become(v)
    BY <1>4, WorldNow DEF rejectConversationRequest
  <2>2. Aside(v, world)
    BY <1>0, RejectAside
  <2> HIDE DEF v
  <2> QED
    BY <1>1, <2>1, <2>2
<1> QED
  BY <1>2, <1>3, <1>4 DEF InvitationNext

\* A speech, with the answer to an offer or with an offer of its own.
LEMMA SpokenBalance ==
  ASSUME IInv, Balanced(world), NEW a \in Agents, NEW named \in Agents,
         speakInConversation(a, named)
  PROVE  Balanced(world)'
<1>0. Sound(world, {}) /\ Coffers(world) /\ Boxed(world)
  BY DEF IInv, Balanced, Coffers
<1> DEFINE c == findConversationByAgent(world, a, {"active", "closing"})
           next == IF conversations[c].status = "closing"
                   THEN resolveClosingNextSpeaker(conversations[c], a, named)
                   ELSE named
<1>1. /\ c # None /\ isMyTurn(world, c, a)
      /\ \/ \E response \in Responses(a) : Become(Spoken(a, c, next, response))
         \/ \E t \in Transfers, payload \in Payloads :
              /\ next = named /\ transfers[t].status = "absent"
              /\ Become(startConversationTransfer(
                          Spoken(a, c, next, None), c, t, a, next, payload))
  BY DEF speakInConversation
<1>2. c \in Conversations /\ IsRunning(world, c)
  BY <1>1, Found DEF IsRunning
<1> HIDE DEF c, next
<1>3. ASSUME NEW response
      PROVE  /\ Even(Spoken(a, c, next, response), world)
             /\ \A t \in Transfers :
                  Spoken(a, c, next, response).transfers[t] \in {transfers[t], NoOffer}
  <2> DEFINE u == speak(world, c, a, next)
             v == resolveConversationTransferResponse(u, a, response)
  <2>1. Goes(u, world, {})
    BY <1>0, <1>1, <1>2, SpeakGoes
  <2>2. Aside(u, world)
    BY <1>0, SpeakAside
  <2> HIDE DEF u
  <2>3. Even(u, world) /\ Coffers(u) /\ u.transfers = transfers
    BY <1>0, <2>2, AsideEven, EvenBoxed, WorldNow DEF Aside
  <2>4. u.agents[a].pending_transfer_id \in Transfers \cup {None}
    BY <2>1 DEF Goes, Sound, Shape, AgentRecord
  <2>5. Even(v, u) /\ \A t \in Transfers : v.transfers[t] \in {u.transfers[t], NoOffer}
    BY <2>3, <2>4, AnswerEven
  <2> HIDE DEF v
  <2>6. Even(v, world) /\ \A t \in Transfers : v.transfers[t] \in {transfers[t], NoOffer}
    BY <2>3, <2>5, EvenTwice
  <2> QED
    BY <2>6 DEF Spoken, u, v
<1>4. CASE \E response \in Responses(a) : Become(Spoken(a, c, next, response))
  <2>1. PICK response \in Responses(a) : Become(Spoken(a, c, next, response))
    BY <1>4
  <2> QED
    BY <1>3, <2>1, EvenBalanced, BecomeBalanced
<1>5. CASE \E t \in Transfers, payload \in Payloads :
             /\ next = named /\ transfers[t].status = "absent"
             /\ Become(startConversationTransfer(
                         Spoken(a, c, next, None), c, t, a, next, payload))
  <2>1. PICK t \in Transfers, payload \in Payloads :
             /\ next = named /\ transfers[t].status = "absent"
             /\ Become(startConversationTransfer(
                         Spoken(a, c, next, None), c, t, a, next, payload))
    BY <1>5
  <2> DEFINE u == Spoken(a, c, next, None)
             v == startConversationTransfer(u, c, t, a, next, payload)
  <2>2. Even(u, world) /\ Coffers(u) /\ u.transfers[t] \in {transfers[t], NoOffer}
    BY <1>3, EvenBoxed
  <2>3. Become(v)
    BY <2>1
  <2> HIDE DEF u
  <2>4. u.transfers[t].status = "absent"
    BY <2>1, <2>2 DEF NoOffer
  <2>5. next \in Agents /\ payload \in Purse
    BY <2>1, PayloadAssumption
  <2>6. Even(v, u)
    BY <2>2, <2>4, <2>5, ProposalEven
  <2> HIDE DEF v
  <2>7. Balanced(v)
    BY <2>2, <2>6, EvenTwice, EvenBalanced
  <2> QED
    BY <2>3, <2>7, BecomeBalanced
<1> QED
  BY <1>1, <1>4, <1>5

\* What the members of a conversation do.
LEMMA MemberBalance ==
  ASSUME IInv, Balanced(world), MemberNext
  PROVE  Balanced(world)'
<1>0. Sound(world, {}) /\ Coffers(world) /\ Boxed(world)
  BY DEF IInv, Balanced, Coffers
<1>1. ASSUME NEW v, Even(v, world), Become(v) PROVE Balanced(world)'
  BY <1>1, EvenBalanced, BecomeBalanced
<1>2. ASSUME NEW a \in Agents, NEW c \in Conversations, joinConversationRequest(a, c)
      PROVE  Balanced(world)'
  <2> DEFINE v == joinConversation(world, c, a)
  <2>1. Aside(v, world) /\ Become(v)
    BY <1>0, <1>2, JoinAside DEF joinConversationRequest
  <2> HIDE DEF v
  <2> QED
    BY <1>0, <1>1, <2>1, AsideEven
<1>3. ASSUME NEW a \in Agents, NEW named \in Agents, endConversationRequest(a, named)
      PROVE  Balanced(world)'
  <2> DEFINE c == findConversationByAgent(world, a, {"active"})
  <2>1. PICK response \in Responses(a) :
          Become(endConversationByAgent(world, c, a, named, response))
    BY <1>3 DEF endConversationRequest
  <2> HIDE DEF c
  <2> DEFINE v == endConversationByAgent(world, c, a, named, response)
  <2>2. world.agents[a].pending_transfer_id \in Transfers \cup {None}
    BY <1>0 DEF Sound, Shape, AgentRecord
  <2>3. Even(v, world) /\ Become(v)
    BY <1>0, <2>1, <2>2, EndByAgentEven
  <2> HIDE DEF v
  <2> QED
    BY <1>1, <2>3
<1>4. ASSUME NEW a \in Agents, stayInConversationRequest(a) PROVE Balanced(world)'
  <2> DEFINE c == findConversationByAgent(world, a, {"active"})
             v == stayInConversation(world, c, a)
  <2>1. Even(v, world) /\ Become(v)
    BY <1>0, <1>4, StayEven DEF stayInConversationRequest
  <2> HIDE DEF v
  <2> QED
    BY <1>1, <2>1
<1>5. ASSUME NEW a \in Agents, leaveConversationRequest(a) PROVE Balanced(world)'
  <2> DEFINE c == findConversationByAgent(world, a, {"active"})
             v == leaveConversation(world, c, a)
  <2>1. Even(v, world) /\ Become(v)
    BY <1>0, <1>5, LeaveEven DEF leaveConversationRequest
  <2> HIDE DEF v
  <2> QED
    BY <1>1, <2>1
<1> QED
  BY <1>2, <1>3, <1>4, <1>5, SpokenBalance DEF MemberNext

\* The timers of conversations and of the offers made in them.
LEMMA TimerBalance ==
  ASSUME IInv, Balanced(world), TimerNext
  PROVE  Balanced(world)'
<1>0. Sound(world, {}) /\ Coffers(world) /\ Boxed(world)
  BY DEF IInv, Balanced, Coffers
<1>1. ASSUME NEW v, Even(v, world), Become(v) PROVE Balanced(world)'
  BY <1>1, EvenBalanced, BecomeBalanced
<1>2. ASSUME NEW c \in Conversations, acceptTimeout(c) PROVE Balanced(world)'
  <2>1. PICK timer : Become(handleAcceptTimeout(world, timer))
    BY <1>2 DEF acceptTimeout
  <2>2. Even(handleAcceptTimeout(world, timer), world)
    BY <1>0, AcceptTimeoutAside, AsideEven
  <2> QED
    BY <1>1, <2>1, <2>2
<1>3. ASSUME NEW c \in Conversations, intervalElapsed(c) PROVE Balanced(world)'
  <2>1. PICK timer : Become(handleConversationInterval(world, timer))
    BY <1>3 DEF intervalElapsed
  <2>2. Even(handleConversationInterval(world, timer), world)
    BY <1>0, IntervalEven
  <2> QED
    BY <1>1, <2>1, <2>2
<1>4. ASSUME NEW c \in Conversations, inactiveCheckTimeout(c) PROVE Balanced(world)'
  <2>1. PICK timer \in ConversationTimers(world, c, {"conversation_inactive_check"}) :
          Become(handleInactiveCheckTimeout(world, timer))
    BY <1>4 DEF inactiveCheckTimeout
  <2>2. timer.about.conversation = c
    BY DEF ConversationTimers
  <2>3. Even(handleInactiveCheckTimeout(world, timer), world)
    BY <1>0, <2>2, SilentEven
  <2> QED
    BY <1>1, <2>1, <2>3
<1>5. ASSUME NEW c \in Conversations, turnTimeout(c) PROVE Balanced(world)'
  <2>1. PICK timer : Become(handleTurnTimeout(world, timer))
    BY <1>5 DEF turnTimeout
  <2>2. Even(handleTurnTimeout(world, timer), world)
    BY <1>0, TurnEven
  <2> QED
    BY <1>1, <2>1, <2>2
<1>6. ASSUME NEW t \in Transfers, transferTimeout(t) PROVE Balanced(world)'
  <2>1. PICK timer : timer.about = t /\ Become(handleTransferTimeout(world, timer, NoFaults))
    BY <1>6 DEF transferTimeout
  <2>2. Even(handleTransferTimeout(world, timer, NoFaults), world)
    BY <1>0, <2>1, TimeoutEven
  <2> QED
    BY <1>1, <2>1, <2>2
<1> QED
  BY <1>2, <1>3, <1>4, <1>5, <1>6 DEF TimerNext

\* Announcements, and the notifications that close their windows.
LEMMA AnnouncementBalance ==
  ASSUME IInv, Balanced(world), AnnouncementNext
  PROVE  Balanced(world)'
<1>0. Coffers(world) /\ Boxed(world)
  BY DEF Balanced, Coffers
<1>1. ASSUME NEW v, Aside(v, world), Become(v) PROVE Balanced(world)'
  BY <1>0, <1>1, AsideEven, EvenBalanced, BecomeBalanced
<1>2. ASSUME NEW n, announce(n) PROVE Balanced(world)'
  BY <1>0, <1>1, <1>2, AnnouncedAside DEF announce
<1>3. ASSUME NEW a, deliverNotification(a) PROVE Balanced(world)'
  BY <1>0, <1>1, <1>3, WindowAside DEF deliverNotification
<1> QED
  BY <1>2, <1>3 DEF AnnouncementNext

\* Balanced money is what MoneyIsConserved counts.
LEMMA BalancedIsConserved ==
  ASSUME Balanced(world)
  PROVE  MoneyIsConserved
<1>1. \A a \in Agents : Owned(a) = Registers(world)[a]
  BY WorldNow DEF Balanced, Coffers, Owned, Registers, world
<1>2. SumOver(Agents, [a \in Agents |-> Owned(a)]) = SumOver(Agents, Registers(world))
  BY <1>1, SumSame
<1>3. [t \in Transfers |-> transfers[t].escrow.money] = Escrows(world)
  BY WorldNow DEF Escrows
<1> QED
  BY <1>2, <1>3 DEF MoneyIsConserved, Balanced, Stock

\* Offers, answers, refunds and logouts move money between purses,
\* registrations and offers, and make or lose none.
THEOREM MoneyAlwaysConserved == Spec => []MoneyIsConserved
<1>1. Init => Balanced(world)
  BY InitBalanced
<1>2. IInv /\ Balanced(world) /\ [Next]_vars => Balanced(world)'
  <2> SUFFICES ASSUME IInv, Balanced(world), [Next]_vars PROVE Balanced(world)'
    OBVIOUS
  <2> QED
    BY AgentBalance, InvitationBalance, MemberBalance, TimerBalance,
       AnnouncementBalance, UnchangedBalanced DEF Next
<1>3. Balanced(world) => MoneyIsConserved
  BY BalancedIsConserved
<1> QED
  BY <1>1, <1>2, <1>3, ConversationIsSound, PTL DEF Spec

(***************************************************************************)
(* Closing is one-way.                                                     *)
(***************************************************************************)

\* A conversation that closes admits nobody and asks nobody to stay.
Settled(v) ==
  /\ {"status", "joiners", "inactive"} \subseteq DOMAIN v
  /\ v.status = "closing" => v.joiners = <<>> /\ v.inactive = {}

Parting(w) ==
  /\ "conversations" \in DOMAIN w
  /\ w.conversations = [c \in Conversations |-> w.conversations[c]]
  /\ \A c \in Conversations : Settled(w.conversations[c])

\* What closes goes on closing or is over, and what is over stays so.
Onward(v, u) ==
  /\ u.status = "closing" => v.status \in {"closing", "absent"}
  /\ u.status = "absent" => v.status = "absent"

Closes(u, w) ==
  /\ Parting(u)
  /\ \A c \in Conversations : Onward(u.conversations[c], w.conversations[c])

\* A step at the end of which everything that closed goes on closing or is over.
Concludes(u, w) ==
  /\ Parting(u)
  /\ \A c \in Conversations : w.conversations[c].status = "closing" =>
       u.conversations[c].status \in {"closing", "absent"}

\* A step beside the conversations: none of them changes.
Apart(u, w) ==
  /\ "conversations" \in DOMAIN w /\ "conversations" \in DOMAIN u
  /\ u.conversations = w.conversations

\* Two steps that close conversations are one.
LEMMA ClosesTwice ==
  ASSUME NEW w, NEW v, Closes(v, w), NEW u, Closes(u, v)
  PROVE  Closes(u, w)
BY DEF Closes, Onward

\* Nothing at all closes what closes.
LEMMA ClosesSelf ==
  ASSUME NEW w, Parting(w)
  PROVE  Closes(w, w)
BY DEF Closes, Onward

\* Two steps beside the conversations are one.
LEMMA ApartTwice ==
  ASSUME NEW w, NEW v, Apart(v, w), NEW u, Apart(u, v)
  PROVE  Apart(u, w)
BY DEF Apart

\* A step beside the conversations leaves them as they are.
LEMMA ApartCloses ==
  ASSUME NEW w, Parting(w), NEW u, Apart(u, w)
  PROVE  Closes(u, w) /\ Parting(u)
BY DEF Closes, Apart, Parting, Onward

\* One conversation goes on.
LEMMA PutCloses ==
  ASSUME NEW w, Parting(w), NEW c \in Conversations, NEW v,
         Settled(v), Onward(v, w.conversations[c])
  PROVE  /\ Closes([w EXCEPT !.conversations[c] = v], w)
         /\ Parting([w EXCEPT !.conversations[c] = v])
         /\ [w EXCEPT !.conversations[c] = v].conversations[c] = v
<1> DEFINE u == [w EXCEPT !.conversations[c] = v]
           C == [w.conversations EXCEPT ![c] = v]
<1>1. "conversations" \in DOMAIN u /\ u.conversations = C
  BY DEF Parting
<1>2. /\ C = [d \in Conversations |-> C[d]] /\ C[c] = v
      /\ \A d \in Conversations \ {c} : C[d] = w.conversations[d]
  BY DEF Parting
<1> HIDE DEF u, C
<1>3. Parting(u)
  BY <1>1, <1>2 DEF Parting
<1>4. Closes(u, w)
  BY <1>1, <1>2, <1>3 DEF Closes, Onward
<1> QED
  BY <1>1, <1>2, <1>3, <1>4 DEF u

\* All stores but the conversations are beside them.
LEMMA StoresApart ==
  ASSUME NEW w, "conversations" \in DOMAIN w, NEW V, NEW x
  PROVE  /\ Apart(w, w)
         /\ Apart([w EXCEPT !.timers = V], w)
         /\ Apart([w EXCEPT !.agents = V], w)
         /\ Apart([w EXCEPT !.agents[x] = V], w)
         /\ Apart([w EXCEPT !.purses[x] = V], w)
         /\ Apart([w EXCEPT !.transfers[x] = V], w)
         /\ Apart([w EXCEPT !.registrations[x] = V], w)
         /\ Apart([w EXCEPT !.announcements = V], w)
BY DEF Apart

\* Timers are started and cancelled beside the conversations.
LEMMA TimersApart ==
  ASSUME NEW w, "conversations" \in DOMAIN w
  PROVE  /\ \A timer : Apart(create(w, timer), w) /\ Apart(cancel(w, timer), w)
         /\ \A a : Apart(cancelByAgent(w, a), w) /\ Apart(cancelIdleReminder(w, a), w)
         /\ \A a, type : Apart(cancelByType(w, a, type), w)
         /\ \A c, types : Apart(cancelTimersOf(w, c, types), w)
         /\ \A c : Apart(cancelConversationTimers(w, c), w)
         /\ \A t : Apart(cancelTransferTimer(w, t), w)
         /\ \A S : Apart(startIdleReminders(w, S), w)
<1>1. \A T : Apart([w EXCEPT !.timers = T], w)
  BY StoresApart
<1>2. \A timer : Apart(create(w, timer), w) /\ Apart(cancel(w, timer), w)
  BY <1>1 DEF create, cancel
<1>3. \A a : Apart(cancelByAgent(w, a), w) /\ Apart(cancelIdleReminder(w, a), w)
  BY <1>1 DEF cancelByAgent, cancelIdleReminder, cancelByType
<1>4. \A c, types : Apart(cancelTimersOf(w, c, types), w)
  BY <1>1 DEF cancelTimersOf
<1>5. \A c : Apart(cancelConversationTimers(w, c), w)
  BY <1>4 DEF cancelConversationTimers
<1>6. \A t : Apart(cancelTransferTimer(w, t), w)
  BY <1>1 DEF cancelTransferTimer
<1>7. \A S : Apart(startIdleReminders(w, S), w)
  BY <1>1 DEF startIdleReminders
<1>8. \A a, type : Apart(cancelByType(w, a, type), w)
  BY <1>1 DEF cancelByType
<1> QED
  BY <1>2, <1>3, <1>4, <1>5, <1>6, <1>7, <1>8

\* So are records of agents changed.
LEMMA RecordsApart ==
  ASSUME NEW w, "conversations" \in DOMAIN w, NEW a
  PROVE  /\ \A s : Apart(setState(w, a, s), w)
         /\ Apart(clearExcludedInfoCommands(w, a), w)
         /\ Apart(clearActiveServerAnnouncement(w, a), w)
         /\ Apart(login(w, a), w) /\ Apart(logout(w, a), w)
         /\ Apart(persistLoggedInAgentState(w, a), w)
<1>1. \A s : Apart(setState(w, a, s), w)
  BY DEF Apart, setState
<1>2. Apart(clearExcludedInfoCommands(w, a), w)
  BY DEF Apart, clearExcludedInfoCommands
<1>3. Apart(clearActiveServerAnnouncement(w, a), w)
  BY DEF Apart, clearActiveServerAnnouncement
<1>4. Apart(login(w, a), w) /\ Apart(logout(w, a), w)
  BY DEF Apart, login, logout
<1>5. Apart(persistLoggedInAgentState(w, a), w)
  BY DEF Apart, persistLoggedInAgentState
<1> QED
  BY <1>1, <1>2, <1>3, <1>4, <1>5

\* Reminders and windows.
LEMMA WindowApart ==
  ASSUME NEW w, "conversations" \in DOMAIN w, NEW a
  PROVE  /\ Apart(startIdleReminder(w, a), w) /\ Apart(remind(w, a), w)
         /\ Apart(closeWindow(w, a), w)
<1>1. Apart(startIdleReminder(w, a), w)
  <2> DEFINE v == cancelIdleReminder(w, a)
  <2>1. Apart(v, w)
    BY TimersApart
  <2> HIDE DEF v
  <2>2. Apart(create(v, Timer("idle_reminder", {a}, None)), v)
    BY <2>1, TimersApart DEF Apart
  <2> QED
    BY <2>1, <2>2, ApartTwice DEF startIdleReminder, v
<1>2. Apart(remind(w, a), w)
  BY <1>1, StoresApart DEF remind
<1>3. Apart(closeWindow(w, a), w)
  <2> DEFINE v == clearExcludedInfoCommands(w, a)
  <2>1. Apart(v, w)
    BY RecordsApart
  <2> HIDE DEF v
  <2>2. Apart(clearActiveServerAnnouncement(v, a), v)
    BY <2>1, RecordsApart DEF Apart
  <2> QED
    BY <2>1, <2>2, ApartTwice DEF closeWindow, v
<1> QED
  BY <1>1, <1>2, <1>3

\* An activity is begun, ended or cancelled beside the conversations.
LEMMA ActivityApart ==
  ASSUME NEW w, "conversations" \in DOMAIN w, NEW a
  PROVE  /\ Apart(cancelActiveActivities(w, a), w)
         /\ Apart(interruptActivity(w, a), w)
         /\ Apart(interruptActivityOf(w, a), w)
         /\ Apart(executeValidatedWait(w, a), w)
         /\ \A timer : Apart(handleWaitCompleted(w, timer, a), w)
<1>1. ASSUME NEW v, "conversations" \in DOMAIN v, NEW type
      PROVE  Apart(cancelActive(v, a, type), v)
  <2> DEFINE x == cancel(v, CHOOSE y \in TimersOf(v, a, {type}) : TRUE)
  <2>1. cancelActive(v, a, type) \in {v, x, setState(x, a, "idle")}
    BY DEF cancelActive
  <2>2. Apart(x, v) /\ "conversations" \in DOMAIN x
    <3>1. \A timer : Apart(cancel(v, timer), v)
      BY <1>1, TimersApart
    <3> QED
      BY <3>1 DEF Apart
  <2> HIDE DEF x
  <2>3. Apart(setState(x, a, "idle"), x)
    BY <2>2, RecordsApart
  <2>4. Apart(v, v) /\ Apart(setState(x, a, "idle"), v)
    BY <1>1, <2>2, <2>3, ApartTwice DEF Apart
  <2> QED
    BY <2>1, <2>2, <2>4
<1>2. ASSUME NEW p, NEW q, NEW r
      PROVE  Apart(cancelActive(cancelActive(cancelActive(w, a, p), a, q), a, r), w)
  <2> DEFINE x == cancelActive(w, a, p)
             y == cancelActive(x, a, q)
             z == cancelActive(y, a, r)
  <2>1. Apart(x, w) /\ "conversations" \in DOMAIN x
    BY <1>1 DEF Apart
  <2> HIDE DEF x
  <2>2. Apart(y, x) /\ "conversations" \in DOMAIN y
    BY <1>1, <2>1 DEF Apart
  <2> HIDE DEF y
  <2>3. Apart(z, y)
    BY <1>1, <2>2
  <2> HIDE DEF z
  <2>4. Apart(z, w)
    BY <2>1, <2>2, <2>3, ApartTwice
  <2> QED
    BY <2>4 DEF x, y, z
<1>3. Apart(cancelActiveActivities(w, a), w)
  BY <1>2 DEF cancelActiveActivities
<1>4. Apart(interruptActivity(w, a), w)
  BY <1>2, StoresApart DEF interruptActivity
<1>5. Apart(interruptActivityOf(w, a), w)
  BY <1>3, StoresApart DEF interruptActivityOf
<1>6. Apart(executeValidatedWait(w, a), w)
  <2> DEFINE x == cancelIdleReminder(w, a)
             y == cancelByType(x, a, "wait")
             z == setState(y, a, "in_action")
             u == create(z, Timer("wait", {a}, None))
  <2>1. Apart(x, w) /\ "conversations" \in DOMAIN x
    BY TimersApart DEF Apart
  <2> HIDE DEF x
  <2>2. Apart(y, x) /\ "conversations" \in DOMAIN y
    BY <2>1, TimersApart DEF Apart
  <2> HIDE DEF y
  <2>3. Apart(z, y) /\ "conversations" \in DOMAIN z
    <3>1. Apart(z, y)
      BY <2>2, RecordsApart
    <3> QED
      BY <3>1 DEF Apart
  <2> HIDE DEF z
  <2>4. Apart(u, z) /\ "conversations" \in DOMAIN u
    BY <2>3, TimersApart DEF Apart
  <2> HIDE DEF u
  <2>5. Apart(clearExcludedInfoCommands(u, a), u)
    BY <2>4, RecordsApart
  <2>6. Apart(clearExcludedInfoCommands(u, a), w)
    BY <2>1, <2>2, <2>3, <2>4, <2>5, ApartTwice
  <2> QED
    BY <2>6 DEF executeValidatedWait, startActivity, u, z, y, x
<1>7. ASSUME NEW timer PROVE Apart(handleWaitCompleted(w, timer, a), w)
  <2> DEFINE x == cancel(w, timer)
             y == setState(x, a, "idle")
  <2>1. handleWaitCompleted(w, timer, a) \in {x, startIdleReminder(y, a)}
    BY DEF handleWaitCompleted, becomeIdle
  <2>2. Apart(x, w) /\ "conversations" \in DOMAIN x
    BY TimersApart DEF Apart
  <2> HIDE DEF x
  <2>3. Apart(y, x) /\ "conversations" \in DOMAIN y
    BY <2>2, RecordsApart DEF Apart
  <2> HIDE DEF y
  <2>4. Apart(startIdleReminder(y, a), y)
    BY <2>3, WindowApart
  <2> QED
    BY <2>1, <2>2, <2>3, <2>4, ApartTwice
<1> QED
  BY <1>3, <1>4, <1>5, <1>6, <1>7

\* The roles of an offer are cleared beside the conversations.
LEMMA RolesApart ==
  ASSUME NEW w, "conversations" \in DOMAIN w, NEW t, NEW offer
  PROVE  Apart(clearTransferState(w, t, offer), w)
<1>1. ASSUME NEW v, "conversations" \in DOMAIN v, NEW a
      PROVE  Apart(leaveTransfer(v, a), v)
  <2> DEFINE x == setState(v, a, "idle")
  <2>1. leaveTransfer(v, a) \in {v, startIdleReminder(x, a)}
    BY DEF leaveTransfer, becomeIdle
  <2>2. Apart(x, v) /\ "conversations" \in DOMAIN x
    <3>1. Apart(x, v)
      BY <1>1, RecordsApart
    <3> QED
      BY <3>1 DEF Apart
  <2> HIDE DEF x
  <2>3. Apart(startIdleReminder(x, a), x)
    BY <2>2, WindowApart
  <2> QED
    BY <1>1, <2>1, <2>2, <2>3, ApartTwice, StoresApart
<1>2. ASSUME NEW v, "conversations" \in DOMAIN v, NEW a
      PROVE  Apart(releaseSender(v, t, a), v)
  <2> DEFINE x == [v EXCEPT !.agents[a].active_transfer_id = None]
  <2>1. releaseSender(v, t, a) \in {v, leaveTransfer(x, a)}
    BY DEF releaseSender
  <2>2. Apart(x, v) /\ "conversations" \in DOMAIN x
    BY <1>2 DEF Apart
  <2> HIDE DEF x
  <2>3. Apart(leaveTransfer(x, a), x)
    BY <1>1, <2>2
  <2> QED
    BY <1>2, <2>1, <2>2, <2>3, ApartTwice, StoresApart
<1>3. ASSUME NEW v, "conversations" \in DOMAIN v, NEW a
      PROVE  Apart(releaseReceiver(v, t, a), v)
  <2> DEFINE x == [v EXCEPT !.agents[a].pending_transfer_id = None]
  <2>1. releaseReceiver(v, t, a) \in {v, leaveTransfer(x, a)}
    BY DEF releaseReceiver
  <2>2. Apart(x, v) /\ "conversations" \in DOMAIN x
    BY <1>3 DEF Apart
  <2> HIDE DEF x
  <2>3. Apart(leaveTransfer(x, a), x)
    BY <1>1, <2>2
  <2> QED
    BY <1>3, <2>1, <2>2, <2>3, ApartTwice, StoresApart
<1> DEFINE x == releaseSender(w, t, offer.from_agent_id)
<1>4. Apart(x, w) /\ "conversations" \in DOMAIN x
  BY <1>2 DEF Apart
<1> HIDE DEF x
<1>5. Apart(releaseReceiver(x, t, offer.to_agent_id), x)
  BY <1>3, <1>4
<1> QED
  BY <1>4, <1>5, ApartTwice DEF clearTransferState, x

\* An offer is refunded beside the conversations.
LEMMA RefundApart ==
  ASSUME NEW w, "conversations" \in DOMAIN w, NEW t
  PROVE  Apart(finalizeRefund(w, t, NoFaults), w)
<1> DEFINE x == cancelTransferTimer(w, t)
           offer == w.transfers[t]
           y == clearTransferState(x, t, offer)
           failed == [y EXCEPT !.transfers[t].status = "refund_failed"]
           z == refundEscrow(y, offer)
<1>1. finalizeRefund(w, t, NoFaults) \in {failed, [z EXCEPT !.transfers[t] = NoOffer]}
  BY DEF finalizeRefund
<1>2. Apart(x, w) /\ "conversations" \in DOMAIN x
  BY TimersApart DEF Apart
<1> HIDE DEF x, offer
<1>3. Apart(y, x) /\ "conversations" \in DOMAIN y
  BY <1>2, RolesApart DEF Apart
<1> HIDE DEF y
<1>4. Apart(failed, y)
  BY <1>3 DEF Apart
<1>5. Apart(z, y) /\ "conversations" \in DOMAIN z
  BY <1>3 DEF Apart, refundEscrow, creditAgent, persistLoggedInAgentState,
              mergePersistedAgentInventory
<1> HIDE DEF z, failed
<1>6. Apart([z EXCEPT !.transfers[t] = NoOffer], z)
  BY <1>5 DEF Apart
<1> QED
  BY <1>1, <1>2, <1>3, <1>4, <1>5, <1>6, ApartTwice

\* An offer is cancelled, runs out or is answered beside the conversations.
LEMMA OfferApart ==
  ASSUME NEW w, "conversations" \in DOMAIN w, NEW a
  PROVE  /\ \A t : Apart(cancelTransfer(w, t, NoFaults), w)
         /\ Apart(cancelPendingTransfersForAgent(w, a, NoFaults), w)
         /\ \A timer : Apart(handleTransferTimeout(w, timer, NoFaults), w)
         /\ \A response : Apart(resolveConversationTransferResponse(w, a, response), w)
<1>1. ASSUME NEW t PROVE Apart(cancelTransfer(w, t, NoFaults), w)
  BY RefundApart, RolesApart, StoresApart DEF cancelTransfer
<1>2. Apart(cancelPendingTransfersForAgent(w, a, NoFaults), w)
  BY <1>1, StoresApart DEF cancelPendingTransfersForAgent
<1>3. ASSUME NEW timer PROVE Apart(handleTransferTimeout(w, timer, NoFaults), w)
  <2> DEFINE x == cancel(w, timer)
  <2>1. handleTransferTimeout(w, timer, NoFaults)
          \in {x, finalizeRefund(x, timer.about, NoFaults)}
    BY DEF handleTransferTimeout
  <2>2. Apart(x, w) /\ "conversations" \in DOMAIN x
    BY TimersApart DEF Apart
  <2> HIDE DEF x
  <2>3. Apart(finalizeRefund(x, timer.about, NoFaults), x)
    BY <2>2, RefundApart
  <2> QED
    BY <2>1, <2>2, <2>3, ApartTwice
<1>4. ASSUME NEW t PROVE Apart(settleAccept(w, t, a), w)
  <2> DEFINE offer == w.transfers[t]
             x == creditAgent(w, a, offer.escrow)
             y == cancelTransferTimer(x, t)
             z == clearTransferState(y, t, offer)
             u == [z EXCEPT !.transfers[t] = NoOffer]
  <2>1. settleAccept(w, t, a) = clearExcludedInfoCommands(u, a)
    BY DEF settleAccept
  <2>2. Apart(x, w) /\ "conversations" \in DOMAIN x
    BY DEF Apart, creditAgent, persistLoggedInAgentState
  <2> HIDE DEF x, offer
  <2>3. Apart(y, x) /\ "conversations" \in DOMAIN y
    BY <2>2, TimersApart DEF Apart
  <2> HIDE DEF y
  <2>4. Apart(z, y) /\ "conversations" \in DOMAIN z
    BY <2>3, RolesApart DEF Apart
  <2> HIDE DEF z
  <2>5. Apart(u, z) /\ "conversations" \in DOMAIN u
    BY <2>4 DEF Apart
  <2> HIDE DEF u
  <2>6. Apart(clearExcludedInfoCommands(u, a), u)
    BY <2>5, RecordsApart
  <2> QED
    BY <2>1, <2>2, <2>3, <2>4, <2>5, <2>6, ApartTwice
<1>5. ASSUME NEW response
      PROVE  Apart(resolveConversationTransferResponse(w, a, response), w)
  BY <1>4, RefundApart, StoresApart DEF resolveConversationTransferResponse
<1> QED
  BY <1>1, <1>2, <1>3, <1>5

\* So are all the offers made in a conversation, one after the other.
LEMMA OffersApart ==
  ASSUME NEW w, "conversations" \in DOMAIN w, NEW c
  PROVE  Apart(cancelInConversationTransfersForConversation(w, c), w)
<1> DEFINE S == {t \in Transfers : /\ w.transfers[t].status # "absent"
                                   /\ w.transfers[t].conversation_id = c}
           offers == SetToSeq(S)
           F == CHOOSE f : SettlesUpTo(f, w, offers, Len(offers))
<1>1. Len(offers) \in Nat
  <2>1. S \in SUBSET Transfers
    OBVIOUS
  <2> HIDE DEF S
  <2> QED
    BY <2>1, ListOfSome
<1>2. SettlesUpTo(F, w, offers, Len(offers))
  BY <1>1, SettlesDefined, Zenon
<1>3. cancelInConversationTransfersForConversation(w, c) = F[Len(offers)]
  BY Zenon DEF cancelInConversationTransfersForConversation, SettlesUpTo
<1> HIDE DEF F, offers, S
<1> DEFINE bad == {n \in 0 .. Len(offers) : ~Apart(F[n], w)}
<1>4. bad = {}
  <2> SUFFICES ASSUME bad # {} PROVE FALSE
    OBVIOUS
  <2>1. PICK n \in bad : \A k \in bad : n <= k
    <3>1. bad \in SUBSET Nat
      OBVIOUS
    <3> HIDE DEF bad
    <3> QED
      BY <3>1, LeastOf
  <2>2. n \in Nat /\ n <= Len(offers) /\ n \in 0 .. Len(offers) /\ ~Apart(F[n], w)
    BY <1>1
  <2>3. F[n] = IF n = 0 THEN w ELSE cancelTransfer(F[n - 1], offers[n], NoFaults)
    BY <1>2, <2>2, Zenon DEF SettlesUpTo
  <2>4. CASE n = 0
    BY <2>2, <2>3, <2>4, StoresApart
  <2>5. CASE n # 0
    <3>1. n - 1 \in 0 .. Len(offers) /\ n - 1 \notin bad
      BY <1>1, <2>1, <2>2, <2>5
    <3>2. Apart(F[n - 1], w)
      BY <3>1
    <3>3. Apart(cancelTransfer(F[n - 1], offers[n], NoFaults), F[n - 1])
      BY <3>2, OfferApart DEF Apart
    <3> QED
      BY <2>2, <2>3, <2>5, <3>2, <3>3, ApartTwice
  <2> QED
    BY <2>4, <2>5
<1>5. Len(offers) \in 0 .. Len(offers)
  BY <1>1
<1> QED
  BY <1>3, <1>4, <1>5

\* An offer is made beside the conversations.
LEMMA ProposalApart ==
  ASSUME NEW w, "conversations" \in DOMAIN w, NEW c, NEW t, NEW from, NEW to, NEW payload
  PROVE  Apart(startConversationTransfer(w, c, t, from, to, payload), w)
<1> DEFINE offer == [status |-> "open", from_agent_id |-> from, to_agent_id |-> to,
                     escrow |-> payload, conversation_id |-> c]
           x == [w EXCEPT !.transfers[t] = offer,
                          !.agents[from].active_transfer_id = t,
                          !.agents[to].pending_transfer_id = t,
                          !.purses[from] = debit(@, payload)]
           y == persistLoggedInAgentState(x, from)
<1>1. startConversationTransfer(w, c, t, from, to, payload)
        \in {w, create(y, TransferTimer(t, offer))}
  BY DEF startConversationTransfer
<1>2. Apart(x, w) /\ "conversations" \in DOMAIN x
  BY DEF Apart
<1> HIDE DEF x, offer
<1>3. Apart(y, x) /\ "conversations" \in DOMAIN y
  <2>1. Apart(y, x)
    BY <1>2, RecordsApart
  <2> QED
    BY <2>1 DEF Apart
<1> HIDE DEF y
<1>4. Apart(create(y, TransferTimer(t, offer)), y)
  BY <1>3, TimersApart
<1> QED
  BY <1>1, <1>2, <1>3, <1>4, ApartTwice, StoresApart

\* Announcements are made, and interrupt, beside the conversations.
LEMMA AnnouncedApart ==
  ASSUME NEW w, "conversations" \in DOMAIN w, NEW a
  PROVE  /\ \A n : Apart(fireServerAnnouncement(w, n), w)
         /\ Apart(cleanupServerAnnouncementsForAgent(w, a), w)
         /\ Apart(handleServerAnnouncementInterruption(w, a, NoFaults), w)
<1>1. ASSUME NEW n PROVE Apart(fireServerAnnouncement(w, n), w)
  BY DEF Apart, fireServerAnnouncement
<1>2. Apart(cleanupServerAnnouncementsForAgent(w, a), w)
  BY DEF Apart, cleanupServerAnnouncementsForAgent, clearActiveServerAnnouncement
<1>3. Apart(handleServerAnnouncementInterruption(w, a, NoFaults), w)
  <2> DEFINE x == interruptTransfer(w, a, NoFaults)
             y == interruptActivity(w, a)
             z == setState(y, a, "idle")
  <2>1. handleServerAnnouncementInterruption(w, a, NoFaults)
          \in {w, clearActiveServerAnnouncement(x, a), clearActiveServerAnnouncement(z, a)}
    BY DEF handleServerAnnouncementInterruption
  <2>2. Apart(x, w) /\ "conversations" \in DOMAIN x
    <3>1. Apart(x, w)
      BY OfferApart, StoresApart DEF interruptTransfer
    <3> QED
      BY <3>1 DEF Apart
  <2> HIDE DEF x
  <2>3. Apart(y, w) /\ "conversations" \in DOMAIN y
    <3>1. Apart(y, w)
      BY ActivityApart
    <3> QED
      BY <3>1 DEF Apart
  <2> HIDE DEF y
  <2>4. Apart(z, y) /\ "conversations" \in DOMAIN z
    <3>1. Apart(z, y)
      BY <2>3, RecordsApart
    <3> QED
      BY <3>1 DEF Apart
  <2> HIDE DEF z
  <2>5. Apart(clearActiveServerAnnouncement(x, a), x) /\ Apart(clearActiveServerAnnouncement(z, a), z)
    BY <2>2, <2>4, RecordsApart
  <2>6. Apart(z, w)
    BY <2>3, <2>4, ApartTwice
  <2> QED
    BY <2>1, <2>2, <2>5, <2>6, ApartTwice, StoresApart
<1> QED
  BY <1>1, <1>2, <1>3

\* Agents are taken in and released beside the conversations.
LEMMA EnterApart ==
  ASSUME NEW w, "conversations" \in DOMAIN w, NEW c
  PROVE  /\ \A a : Apart(enterConversation(w, c, a), w)
         /\ \A S, reminded : Apart(cleanupParticipants(w, c, S, reminded), w)
<1>1. ASSUME NEW a PROVE Apart(enterConversation(w, c, a), w)
  <2> DEFINE x == cancelIdleReminder(w, a)
             y == [x EXCEPT !.agents[a].pending_conversation_id = None,
                            !.agents[a].current_conversation_id = c,
                            !.agents[a].state = "in_conversation"]
  <2>1. Apart(x, w) /\ "conversations" \in DOMAIN x
    BY TimersApart DEF Apart
  <2> HIDE DEF x
  <2>2. Apart(y, x) /\ "conversations" \in DOMAIN y
    BY <2>1 DEF Apart
  <2> HIDE DEF y
  <2>3. Apart(closeWindow(y, a), y)
    BY <2>2, WindowApart
  <2>4. Apart(closeWindow(y, a), w)
    BY <2>1, <2>2, <2>3, ApartTwice
  <2> QED
    BY <2>4 DEF enterConversation, closeWindow, x, y
<1>2. ASSUME NEW S, NEW reminded
      PROVE  Apart(cleanupParticipants(w, c, S, reminded), w)
  <2>1. ASSUME NEW V, NEW T PROVE Apart(startIdleReminders([w EXCEPT !.agents = V], T), w)
    <3> DEFINE x == [w EXCEPT !.agents = V]
    <3>1. Apart(x, w) /\ "conversations" \in DOMAIN x
      BY DEF Apart
    <3> HIDE DEF x
    <3>2. Apart(startIdleReminders(x, T), x)
      BY <3>1, TimersApart
    <3> QED
      BY <3>1, <3>2, ApartTwice DEF x
  <2> QED
    BY <2>1 DEF cleanupParticipants
<1> QED
  BY <1>1, <1>2

\* Nothing is kept of nothing.
LEMMA NothingKept ==
  ASSUME NEW a
  PROVE  Without(<<>>, a) = <<>>
<1> DEFINE S == ToSet(<<>>) \ {a}
<1>1. Len(<<>>) = 0 /\ 0 \in 0 .. 0
  OBVIOUS
<1> HIDE DEF S
<1>2. PICK f : KeepsUpTo(f, <<>>, S, 0) /\ Kept(<<>>, S) = f[0]
  BY <1>1, KeptDefined
<1>3. f[0] = <<>>
  BY <1>1, <1>2 DEF KeepsUpTo
<1> QED
  BY <1>2, <1>3 DEF Without, S

\* An agent is taken off the lists of a conversation, which goes on as before.
LEMMA RemovedSettled ==
  ASSUME NEW v, Settled(v), NEW a
  PROVE  /\ Settled(removeParticipant(v, a))
         /\ removeParticipant(v, a).status = v.status
<1> DEFINE x == [v EXCEPT !.participants = Without(@, a), !.joiners = Without(@, a),
                          !.last_spoken_turns[a] = 0, !.inactive = @ \ {a}]
           y == IF v.resume_speaker # a THEN x
                ELSE [x EXCEPT !.resume_speaker =
                        resolveResumeSpeakerAfterRemoval(v.participants, x, a)]
           s == resolveResumeSpeaker(y)
<1>1. removeParticipant(v, a) \in {y, [y EXCEPT !.current_speaker = s]}
  BY DEF removeParticipant
<1>2. /\ {"status", "joiners", "inactive"} \subseteq DOMAIN x /\ x.status = v.status
      /\ x.joiners = Without(v.joiners, a) /\ x.inactive = v.inactive \ {a}
  BY DEF Settled
<1>3. Settled(x)
  BY <1>2, NothingKept DEF Settled
<1> HIDE DEF x
<1>4. Settled(y) /\ y.status = v.status
  BY <1>2, <1>3 DEF Settled
<1> HIDE DEF y, s
<1>5. /\ Settled([y EXCEPT !.current_speaker = s])
      /\ [y EXCEPT !.current_speaker = s].status = y.status
  BY <1>4 DEF Settled
<1> QED
  BY <1>1, <1>4, <1>5

\* What a record of a conversation may be changed in while it closes.
LEMMA FieldsSettled ==
  ASSUME NEW v, Settled(v), NEW V
  PROVE  /\ Settled([v EXCEPT !.current_speaker = V])
         /\ [v EXCEPT !.current_speaker = V].status = v.status
         /\ Settled([v EXCEPT !.resume_speaker = V])
         /\ [v EXCEPT !.resume_speaker = V].status = v.status
         /\ Settled([v EXCEPT !.current_turn = V])
         /\ [v EXCEPT !.current_turn = V].status = v.status
         /\ Settled([v EXCEPT !.last_spoken_turns = V])
         /\ [v EXCEPT !.last_spoken_turns = V].status = v.status
         /\ Settled([v EXCEPT !.joiners = <<>>])
         /\ [v EXCEPT !.joiners = <<>>].status = v.status
         /\ Settled([v EXCEPT !.inactive = {}])
         /\ [v EXCEPT !.inactive = {}].status = v.status
BY DEF Settled

\* Timers are started and agents released in a conversation that goes on.
LEMMA TimersClose ==
  ASSUME NEW w, Parting(w), NEW c
  PROVE  /\ \A timer : Closes(create(w, timer), w) /\ Closes(cancel(w, timer), w)
         /\ \A types : Closes(cancelTimersOf(w, c, types), w)
         /\ Closes(cancelConversationTimers(w, c), w)
         /\ \A a : Closes(closeWindow(w, a), w)
         /\ \A a : Closes(cancelPendingTransfersForAgent(w, a, NoFaults), w)
         /\ \A S, reminded : Closes(cleanupParticipants(w, c, S, reminded), w)
<1>1. "conversations" \in DOMAIN w
  BY DEF Parting
<1>2. \A timer : Closes(create(w, timer), w) /\ Closes(cancel(w, timer), w)
  BY <1>1, TimersApart, ApartCloses
<1>3. \A types : Closes(cancelTimersOf(w, c, types), w)
  BY <1>1, TimersApart, ApartCloses
<1>4. Closes(cancelConversationTimers(w, c), w)
  BY <1>1, TimersApart, ApartCloses
<1>5. \A a : Closes(closeWindow(w, a), w)
  BY <1>1, WindowApart, ApartCloses
<1>6. \A a : Closes(cancelPendingTransfersForAgent(w, a, NoFaults), w)
  BY <1>1, OfferApart, ApartCloses
<1>7. \A S, reminded : Closes(cleanupParticipants(w, c, S, reminded), w)
  BY <1>1, EnterApart, ApartCloses
<1> QED
  BY <1>2, <1>3, <1>4, <1>5, <1>6, <1>7

\* u is w with x for the conversation c, which agents are released from.
Released(u, w, c, x) ==
  \E S, reminded :
    u = cleanupParticipants([w EXCEPT !.conversations[c] = x], c, S, reminded)

\* A conversation goes on, and agents are released from it.
LEMMA ReleasedCloses ==
  ASSUME NEW w, Parting(w), NEW c \in Conversations, NEW x, Settled(x),
         x.status = w.conversations[c].status, NEW u, Released(u, w, c, x)
  PROVE  Closes(u, w) /\ Parting(u) /\ u.conversations[c] = x
<1> DEFINE y == [w EXCEPT !.conversations[c] = x]
<1>1. Onward(x, w.conversations[c])
  BY DEF Onward
<1>2. Closes(y, w) /\ Parting(y) /\ y.conversations[c] = x
  BY <1>1, PutCloses
<1>3. PICK S, reminded : u = cleanupParticipants(y, c, S, reminded)
  BY DEF Released
<1> HIDE DEF y
<1>4. Apart(u, y)
  BY <1>2, <1>3, EnterApart DEF Parting
<1>5. Closes(u, w) /\ Parting(u)
  BY <1>2, <1>4, ApartCloses, ClosesTwice
<1> QED
  BY <1>2, <1>4, <1>5 DEF Apart

\* Who is in a conversation that goes on.
LEMMA ListsClose ==
  ASSUME NEW w, Parting(w), NEW c \in Conversations
  PROVE  /\ Closes(applyPendingJoiners(w, c), w)
         /\ applyPendingJoiners(w, c).conversations[c].status = w.conversations[c].status
         /\ applyPendingJoiners(w, c).conversations[c].joiners = <<>>
         /\ Closes(discardPendingJoiners(w, c), w)
         /\ discardPendingJoiners(w, c).conversations[c].status = w.conversations[c].status
         /\ discardPendingJoiners(w, c).conversations[c].joiners = <<>>
         /\ discardPendingJoiners(w, c).conversations[c].inactive = w.conversations[c].inactive
<1> DEFINE v == w.conversations[c]
           d == [v EXCEPT !.joiners = <<>>]
           admitted == {a \in Agents \ Members(v) :
                          /\ w.agents[a].current_conversation_id = c
                          /\ w.agents[a].state = "in_conversation"}
           applied == Kept(v.joiners, admitted)
           p == [v EXCEPT !.joiners = <<>>, !.participants = @ \o applied,
                          !.last_spoken_turns = [a \in Agents |->
                            IF a \in ToSet(applied) THEN v.current_turn ELSE @[a]]]
           D == discardPendingJoiners(w, c)
           P == applyPendingJoiners(w, c)
<1>1. Settled(v)
  BY DEF Parting
<1>2. Settled(d) /\ d.status = v.status /\ d.joiners = <<>> /\ d.inactive = v.inactive
  BY <1>1 DEF Settled
<1>3. Released(D, w, c, d)
  BY DEF discardPendingJoiners, Parting, Released
<1>4. Settled(p) /\ p.status = v.status /\ p.joiners = <<>>
  BY <1>1 DEF Settled
<1>5. Released(P, w, c, p)
  BY DEF applyPendingJoiners, Released
<1> HIDE DEF d, p, applied, D, P
<1>6. Closes(D, w) /\ D.conversations[c] = d
  BY <1>2, <1>3, ReleasedCloses
<1>7. Closes(P, w) /\ P.conversations[c] = p
  BY <1>4, <1>5, ReleasedCloses
<1> QED
  BY <1>2, <1>4, <1>6, <1>7 DEF D, P

\* u has the conversations of w but for c, which is x.
Puts(u, w, c, x) ==
  "conversations" \in DOMAIN u /\ u.conversations = [w.conversations EXCEPT ![c] = x]

\* A conversation goes on, and nothing else is said of the step.
LEMMA PutsCloses ==
  ASSUME NEW w, Parting(w), NEW c \in Conversations, NEW x, Settled(x),
         Onward(x, w.conversations[c]), NEW u, Puts(u, w, c, x)
  PROVE  Closes(u, w) /\ Parting(u) /\ u.conversations[c] = x
<1> DEFINE C == [w.conversations EXCEPT ![c] = x]
<1>1. "conversations" \in DOMAIN u /\ u.conversations = C
  BY DEF Puts
<1>2. /\ C = [d \in Conversations |-> C[d]] /\ C[c] = x
      /\ \A d \in Conversations \ {c} : C[d] = w.conversations[d]
  BY DEF Parting
<1> HIDE DEF C
<1>3. Parting(u)
  BY <1>1, <1>2 DEF Parting
<1> QED
  BY <1>1, <1>2, <1>3 DEF Closes, Onward

\* Turns, intervals and checks are timed in a conversation that goes on.
LEMMA TurnsClose ==
  ASSUME NEW w, Parting(w), NEW c \in Conversations
  PROVE  /\ \A speaker : Closes(scheduleTurnTimer(w, c, speaker), w)
         /\ \A speaker, next : Closes(createIntervalTimer(w, c, speaker, next), w)
         /\ Closes(createInactiveCheckTimer(w, c), w)
<1>1. ASSUME NEW speaker PROVE Closes(scheduleTurnTimer(w, c, speaker), w)
  <2> DEFINE x == [w.conversations[c] EXCEPT !.current_speaker = speaker]
             u == scheduleTurnTimer(w, c, speaker)
  <2>1. Settled(x) /\ Onward(x, w.conversations[c])
    BY FieldsSettled DEF Parting, Onward
  <2>2. Puts(u, w, c, x)
    BY DEF Parting, Puts, scheduleTurnTimer, create
  <2> HIDE DEF x, u
  <2>3. Closes(u, w)
    BY <2>1, <2>2, PutsCloses
  <2> QED
    BY <2>3 DEF u
<1>2. \A speaker, next : Closes(createIntervalTimer(w, c, speaker, next), w)
  BY TimersClose DEF createIntervalTimer
<1>3. Closes(createInactiveCheckTimer(w, c), w)
  BY TimersClose DEF createInactiveCheckTimer
<1> QED
  BY <1>1, <1>2, <1>3

\* The check is over; what closes is not asked in the first place.
LEMMA CheckCloses ==
  ASSUME NEW w, Parting(w), NEW c \in Conversations
  PROVE  /\ Closes(clearInactiveCheckState(w, c), w)
         /\ LET v == clearInactiveCheckState(w, c).conversations[c]
            IN  /\ v.status = w.conversations[c].status
                /\ v.joiners = w.conversations[c].joiners /\ v.inactive = {}
         /\ w.conversations[c].status # "closing" =>
              \A next : Closes(startInactiveCheck(w, c, next), w)
<1> DEFINE v == w.conversations[c]
<1>1. Settled(v) /\ w.conversations = [d \in Conversations |-> w.conversations[d]]
  BY DEF Parting
<1> DEFINE x == [[v EXCEPT !.inactive = {}] EXCEPT !.resume_speaker = None]
           u == clearInactiveCheckState(w, c)
<1>2. /\ Settled(x) /\ Onward(x, v) /\ x.inactive = {}
      /\ x.status = v.status /\ x.joiners = v.joiners
  BY <1>1 DEF Settled, Onward
<1>3. Puts(u, w, c, x)
  <2> DEFINE y == cancelTimersOf(w, c, {"conversation_inactive_check"})
             C == [[y.conversations EXCEPT ![c].inactive = {}] EXCEPT ![c].resume_speaker = None]
  <2>1. u = [y EXCEPT !.conversations = C]
    BY DEF clearInactiveCheckState
  <2>2. "conversations" \in DOMAIN y /\ y.conversations = w.conversations
    BY TimersApart DEF Parting, Apart
  <2>3. C = [w.conversations EXCEPT ![c] = x]
    BY <1>1, <2>2
  <2> HIDE DEF y, C, x, u
  <2> QED
    BY <2>1, <2>2, <2>3 DEF Puts
<1> HIDE DEF x, u
<1>4. Closes(u, w) /\ u.conversations[c] = x
  BY <1>2, <1>3, PutsCloses
<1>5. ASSUME v.status # "closing", NEW next
      PROVE  Closes(startInactiveCheck(w, c, next), w)
  <2> DEFINE C == [[w.conversations EXCEPT ![c].inactive = InactiveMembers(w.conversations[c])]
                     EXCEPT ![c].resume_speaker = next]
             z == [w EXCEPT !.conversations = C]
             y == [[v EXCEPT !.inactive = InactiveMembers(v)] EXCEPT !.resume_speaker = next]
  <2>1. startInactiveCheck(w, c, next) = createInactiveCheckTimer(z, c)
    BY DEF startInactiveCheck
  <2>2. Settled(y) /\ Onward(y, v)
    BY <1>1, <1>5 DEF Settled, Onward
  <2>3. C = [w.conversations EXCEPT ![c] = y]
    BY <1>1
  <2>4. "conversations" \in DOMAIN z /\ z.conversations = C
    BY DEF Parting
  <2> HIDE DEF y, z, C
  <2>5. Puts(z, w, c, y)
    BY <2>3, <2>4 DEF Puts
  <2>6. Closes(z, w) /\ Parting(z)
    BY <2>2, <2>5, PutsCloses
  <2>7. Closes(createInactiveCheckTimer(z, c), z)
    BY <2>6, TurnsClose
  <2> QED
    BY <2>1, <2>6, <2>7, ClosesTwice
<1> QED
  BY <1>2, <1>4, <1>5 DEF u

\* An agent is taken off the lists of a conversation that goes on.
LEMMA OutCloses ==
  ASSUME NEW w, Parting(w), NEW c \in Conversations, NEW a, NEW reminded
  PROVE  /\ Closes(detachPendingJoiner(w, c, a, reminded), w)
         /\ Closes(expel(w, c, a, reminded), w)
         /\ expel(w, c, a, reminded).conversations[c].status = w.conversations[c].status
<1> DEFINE v == w.conversations[c]
           x == [v EXCEPT !.joiners = Without(@, a)]
           y == removeParticipant(v, a)
           U == detachPendingJoiner(w, c, a, reminded)
           V == expel(w, c, a, reminded)
<1>1. Settled(v)
  BY DEF Parting
<1>2. Settled(x) /\ x.status = v.status
  BY <1>1, NothingKept DEF Settled
<1>3. Settled(y) /\ y.status = v.status
  BY <1>1, RemovedSettled
<1>4. Released(U, w, c, x)
  BY DEF detachPendingJoiner, cleanupParticipant, Released, Parting
<1>5. Released(V, w, c, y)
  BY DEF expel, cleanupParticipant, Released, Parting
<1> HIDE DEF x, y, U, V
<1>6. Closes(U, w)
  BY <1>2, <1>4, ReleasedCloses
<1>7. Closes(V, w) /\ V.conversations[c] = y
  BY <1>3, <1>5, ReleasedCloses
<1> QED
  BY <1>3, <1>6, <1>7 DEF U, V

\* A conversation ends.
LEMMA EndCloses ==
  ASSUME NEW w, Parting(w), NEW c \in Conversations
  PROVE  Closes(endConversation(w, c), w)
<1> DEFINE x == discardPendingJoiners(w, c)
           y == cancelConversationTimers(x, c)
           z == cancelInConversationTransfersForConversation(y, c)
           u == [z EXCEPT !.conversations[c] = NoConversation]
           M == Members(w.conversations[c])
<1>1. endConversation(w, c) = cleanupParticipants(u, c, M, TRUE)
  BY DEF endConversation
<1>2. Closes(x, w) /\ Parting(x)
  BY ListsClose DEF Closes
<1> HIDE DEF x, M
<1>3. Closes(y, x) /\ Parting(y)
  BY <1>2, TimersClose DEF Closes
<1> HIDE DEF y
<1>4. Closes(z, y) /\ Parting(z)
  <2>1. Apart(z, y)
    BY <1>3, OffersApart DEF Parting
  <2> QED
    BY <1>3, <2>1, ApartCloses
<1> HIDE DEF z
<1>5. Settled(NoConversation) /\ Onward(NoConversation, z.conversations[c])
  BY DEF Settled, Onward, NoConversation
<1>6. Closes(u, z) /\ Parting(u)
  BY <1>4, <1>5, PutCloses
<1> HIDE DEF u
<1>7. Closes(cleanupParticipants(u, c, M, TRUE), u)
  BY <1>6, TimersClose
<1> QED
  BY <1>1, <1>2, <1>3, <1>4, <1>6, <1>7, ClosesTwice

\* The conversation resumes after a check, or is over.
LEMMA ResumeCloses ==
  ASSUME NEW w, Parting(w), NEW c \in Conversations
  PROVE  Closes(resumeAfterInactiveCheck(w, c), w)
<1> DEFINE x == cancelTimersOf(w, c, {"conversation_inactive_check"})
           y == applyPendingJoiners(x, c)
           next == resolveResumeSpeaker(y.conversations[c])
           C == [y.conversations EXCEPT ![c].resume_speaker = None]
           z == [y EXCEPT !.conversations = C]
           v == [y.conversations[c] EXCEPT !.resume_speaker = None]
<1>1. resumeAfterInactiveCheck(w, c)
        \in {w, endConversation(z, c), scheduleTurnTimer(z, c, next)}
  BY DEF resumeAfterInactiveCheck
<1>2. Closes(x, w) /\ Parting(x)
  BY TimersClose DEF Closes
<1> HIDE DEF x
<1>3. Closes(y, x) /\ Parting(y)
  BY <1>2, ListsClose DEF Closes
<1> HIDE DEF y, next
<1>4. Settled(v) /\ Onward(v, y.conversations[c])
  BY <1>3, FieldsSettled DEF Parting, Onward
<1>5. Puts(z, y, c, v)
  BY <1>3 DEF Puts, Parting
<1> HIDE DEF z, v, C
<1>6. Closes(z, y) /\ Parting(z)
  BY <1>3, <1>4, <1>5, PutsCloses
<1>7. Closes(endConversation(z, c), z) /\ Closes(scheduleTurnTimer(z, c, next), z)
  BY <1>6, EndCloses, TurnsClose
<1> QED
  BY <1>1, <1>2, <1>3, <1>6, <1>7, ClosesTwice, ClosesSelf

\* After somebody left, a conversation ends, resumes or gives the turn to another.
LEMMA ConcludeCloses ==
  ASSUME NEW w, Parting(w), NEW c \in Conversations
  PROVE  Closes(concludeOrContinueAfterLeave(w, c), w)
<1> DEFINE x == applyPendingJoiners(w, c)
           s == resolveResumeSpeaker(x.conversations[c])
<1>1. concludeOrContinueAfterLeave(w, c)
        \in {endConversation(x, c), resumeAfterInactiveCheck(x, c),
             scheduleTurnTimer(x, c, s)}
  BY DEF concludeOrContinueAfterLeave
<1>2. Closes(x, w) /\ Parting(x)
  BY ListsClose DEF Closes
<1> HIDE DEF x, s
<1>3. /\ Closes(endConversation(x, c), x) /\ Closes(resumeAfterInactiveCheck(x, c), x)
      /\ Closes(scheduleTurnTimer(x, c, s), x)
  BY <1>2, EndCloses, ResumeCloses, TurnsClose
<1> QED
  BY <1>1, <1>2, <1>3, ClosesTwice

\* A member that is asked stays.
LEMMA StayCloses ==
  ASSUME NEW w, Parting(w), NEW c \in Conversations, NEW a
  PROVE  Closes(stayInConversation(w, c, a), w)
<1> DEFINE x == closeWindow(w, a)
           C == [x.conversations EXCEPT ![c].inactive = @ \ {a}]
           y == [x EXCEPT !.conversations = C]
           D == [y.conversations EXCEPT
                   ![c].last_spoken_turns[a] = w.conversations[c].current_turn]
           z == [y EXCEPT !.conversations = D]
           p == [x.conversations[c] EXCEPT !.inactive = @ \ {a}]
           q == [y.conversations[c] EXCEPT
                   !.last_spoken_turns[a] = w.conversations[c].current_turn]
<1>1. stayInConversation(w, c, a) = resumeAfterInactiveCheck(z, c)
  BY DEF stayInConversation
<1>2. Closes(x, w) /\ Parting(x)
  BY TimersClose DEF Closes
<1> HIDE DEF x
<1>3. Settled(p) /\ Onward(p, x.conversations[c])
  BY <1>2 DEF Parting, Settled, Onward
<1>4. Puts(y, x, c, p)
  BY <1>2 DEF Puts, Parting
<1> HIDE DEF y, p, C
<1>5. Closes(y, x) /\ Parting(y)
  BY <1>2, <1>3, <1>4, PutsCloses
<1>6. Settled(q) /\ Onward(q, y.conversations[c])
  BY <1>5 DEF Parting, Settled, Onward
<1>7. Puts(z, y, c, q)
  BY <1>5 DEF Puts, Parting
<1> HIDE DEF z, q, D
<1>8. Closes(z, y) /\ Parting(z)
  BY <1>5, <1>6, <1>7, PutsCloses
<1> QED
  BY <1>1, <1>2, <1>5, <1>8, ResumeCloses, ClosesTwice

\* A member is taken out, with its offer.
LEMMA DroppedCloses ==
  ASSUME NEW w, Parting(w), NEW c \in Conversations, NEW a
  PROVE  Closes(Dropped(w, c, a), w)
<1> DEFINE x == expel(w, c, a, TRUE)
<1>1. Closes(x, w) /\ Parting(x)
  BY OutCloses DEF Closes
<1> HIDE DEF x
<1> QED
  BY <1>1, TimersClose, ClosesTwice DEF Dropped, x

\* An agent leaves a conversation that goes on.
LEMMA LeaveCloses ==
  ASSUME NEW w, Parting(w), NEW c \in Conversations, NEW a
  PROVE  Closes(leaveConversation(w, c, a), w)
<1> DEFINE x == closeWindow(w, a)
           y == Dropped(x, c, a)
<1>1. leaveConversation(w, c, a) = concludeOrContinueAfterLeave(y, c)
  BY DEF leaveConversation, Dropped
<1>2. Closes(x, w) /\ Parting(x)
  BY TimersClose DEF Closes
<1> HIDE DEF x
<1>3. Closes(y, x) /\ Parting(y)
  BY <1>2, DroppedCloses DEF Closes
<1> HIDE DEF y
<1> QED
  BY <1>1, <1>2, <1>3, ConcludeCloses, ClosesTwice

\* The members that did not answer are taken out one after the other.
LEMMA SilentCloses ==
  ASSUME NEW w, Sound(w, {}), Parting(w), NEW timer,
         timer.about.conversation \in Conversations
  PROVE  Closes(handleInactiveCheckTimeout(w, timer), w)
<1> DEFINE c == timer.about.conversation
           fired == cancel(w, timer)
           v == fired.conversations[c]
           list == Kept(v.participants, v.inactive)
           F == CHOOSE f : DropsUpTo(f, fired, c, list, Len(list))
           u == handleInactiveCheckTimeout(w, timer)
<1>1. Closes(fired, w) /\ Parting(fired)
  BY TimersClose DEF Closes
<1>2. u = IF v.status # "active" THEN fired
          ELSE concludeOrContinueAfterLeave(F[Len(list)], c)
  BY Zenon DEF handleInactiveCheckTimeout, DropsUpTo, Dropped
<1>3. Len(list) \in Nat
  <2>1. v = w.conversations[c]
    BY DEF cancel, Sound, Shape
  <2>2. v.participants \in Seq(Agents)
    BY <2>1 DEF Sound, Shape, IsConversation
  <2> HIDE DEF v
  <2>3. list \in Seq(Agents)
    BY <2>2, KeptFacts
  <2> HIDE DEF list
  <2> QED
    BY <2>3
<1> HIDE DEF fired, list, u
<1>4. DropsUpTo(F, fired, c, list, Len(list))
  BY <1>3, DropsDefined, Zenon
<1>5. c \in Conversations
  OBVIOUS
<1> HIDE DEF F, c
<1> DEFINE bad == {n \in 0 .. Len(list) : ~Closes(F[n], fired)}
<1>6. bad = {}
  <2> SUFFICES ASSUME bad # {} PROVE FALSE
    OBVIOUS
  <2>1. PICK n \in bad : \A k \in bad : n <= k
    <3>1. bad \in SUBSET Nat
      OBVIOUS
    <3> HIDE DEF bad
    <3> QED
      BY <3>1, LeastOf
  <2>2. n \in Nat /\ n <= Len(list) /\ n \in 0 .. Len(list) /\ ~Closes(F[n], fired)
    BY <1>3
  <2>3. F[n] = IF n = 0 THEN fired ELSE Dropped(F[n - 1], c, list[n])
    BY <1>4, <2>2, Zenon DEF DropsUpTo
  <2>4. CASE n = 0
    BY <1>1, <2>2, <2>3, <2>4, ClosesSelf
  <2>5. CASE n # 0
    <3>1. n - 1 \in 0 .. Len(list) /\ n - 1 \notin bad
      BY <1>3, <2>1, <2>2, <2>5
    <3>2. Closes(F[n - 1], fired)
      BY <3>1
    <3>3. Closes(Dropped(F[n - 1], c, list[n]), F[n - 1])
      BY <1>5, <3>2, DroppedCloses DEF Closes
    <3> QED
      BY <2>2, <2>3, <2>5, <3>2, <3>3, ClosesTwice
  <2> QED
    BY <2>4, <2>5
<1> DEFINE z == F[Len(list)]
<1>7. Closes(z, fired) /\ Parting(z)
  <2>1. Len(list) \in 0 .. Len(list)
    BY <1>3
  <2>2. Closes(z, fired)
    BY <1>6, <2>1
  <2> HIDE DEF z
  <2> QED
    BY <2>2 DEF Closes
<1>8. u \in {fired, concludeOrContinueAfterLeave(z, c)}
  BY <1>2, Zenon DEF c, list, F
<1> HIDE DEF z
<1>9. Closes(concludeOrContinueAfterLeave(z, c), z)
  BY <1>5, <1>7, ConcludeCloses
<1>10. Closes(u, w)
  BY <1>1, <1>7, <1>8, <1>9, ClosesTwice
<1> QED
  BY <1>10 DEF u

\* A farewell in a conversation that closes.
LEMMA FarewellCloses ==
  ASSUME NEW w, Parting(w), NEW c \in Conversations, NEW speaker, NEW next
  PROVE  Closes(closeAfterSpeech(w, c, speaker, next), w)
<1> DEFINE x == IF speaker \in Members(w.conversations[c])
                THEN expel(w, c, speaker, TRUE) ELSE w
           v == x.conversations[c]
           s == IF next \in Members(v) THEN next ELSE resolveResumeSpeaker(v)
<1>1. closeAfterSpeech(w, c, speaker, next)
        = IF Len(v.participants) <= 1 THEN endConversation(x, c)
          ELSE scheduleTurnTimer(x, c, s)
  BY DEF closeAfterSpeech
<1>2. Closes(x, w) /\ Parting(x)
  BY OutCloses, ClosesSelf DEF Closes
<1> HIDE DEF x, v, s
<1>3. Closes(endConversation(x, c), x) /\ Closes(scheduleTurnTimer(x, c, s), x)
  BY <1>2, EndCloses, TurnsClose
<1> QED
  BY <1>1, <1>2, <1>3, ClosesTwice

\* A conversation that admitted its joiners begins to close.
LEMMA MaxTurnsCloses ==
  ASSUME NEW w, Parting(w), NEW c \in Conversations, NEW next,
         w.conversations[c].joiners = <<>>, w.conversations[c].status # "absent"
  PROVE  Closes(closeForMaxTurns(w, c, next), w)
<1> DEFINE x == clearInactiveCheckState(w, c)
           C == [[x.conversations EXCEPT ![c].status = "closing"]
                   EXCEPT ![c].closing_reason = "max_turns"]
           y == [x EXCEPT !.conversations = C]
           v == x.conversations[c]
           p == [[v EXCEPT !.status = "closing"] EXCEPT !.closing_reason = "max_turns"]
<1>1. closeForMaxTurns(w, c, next) = scheduleTurnTimer(y, c, next)
  BY DEF closeForMaxTurns
<1>2. /\ Closes(x, w) /\ Parting(x)
      /\ v.status # "absent" /\ v.joiners = <<>> /\ v.inactive = {}
  BY CheckCloses DEF Closes
<1> HIDE DEF x
<1>3. Settled(p) /\ Onward(p, v)
  BY <1>2 DEF Parting, Settled, Onward
<1>4. Puts(y, x, c, p)
  BY <1>2 DEF Puts, Parting
<1> HIDE DEF y, p, C, v
<1>5. Closes(y, x) /\ Parting(y)
  BY <1>2, <1>3, <1>4, PutsCloses DEF v
<1> QED
  BY <1>1, <1>2, <1>5, TurnsClose, ClosesTwice

\* The end of an interval.
LEMMA IntervalCloses ==
  ASSUME NEW w, Sound(w, {}), Parting(w), NEW timer \in w.timers,
         timer.type = "conversation_interval",
         timer.about.conversation \in Conversations
  PROVE  Closes(handleConversationInterval(w, timer), w)
<1> DEFINE c == timer.about.conversation
           fired == cancel(w, timer)
           x == IF w.conversations[c].status = "active"
                THEN applyPendingJoiners(fired, c) ELSE fired
           v == x.conversations[c]
           next == IF timer.about.next \in Members(v) THEN timer.about.next
                   ELSE resolveResumeSpeaker(v)
           between == IF /\ v.closing_reason = "ended_by_agent" /\ v.current_speaker = next
                      THEN scheduleTurnTimer(x, c, next) ELSE endConversation(x, c)
           u == handleConversationInterval(w, timer)
<1>0. c \in Conversations /\ IsRunning(w, c)
  BY TimedRuns DEF TalkTypes
<1>1. /\ Closes(fired, w) /\ Parting(fired)
      /\ fired.conversations[c] = w.conversations[c]
  <2>1. Closes(fired, w)
    BY TimersClose
  <2>2. Apart(fired, w)
    BY TimersApart DEF Parting
  <2> QED
    BY <2>1, <2>2 DEF Closes, Apart
<1>2. u = IF v.status = "absent" THEN fired
          ELSE IF next = None THEN endConversation(x, c)
          ELSE IF v.status = "closing"
          THEN IF Len(v.participants) <= 2 THEN between
               ELSE closeAfterSpeech(x, c, timer.about.speaker, next)
          ELSE IF timer.about.turn >= MaxTurns THEN closeForMaxTurns(x, c, next)
          ELSE IF InactiveMembers(v) # {} THEN startInactiveCheck(x, c, next)
          ELSE scheduleTurnTimer(x, c, next)
  BY DEF handleConversationInterval, closeBetweenTwo
<1> HIDE DEF fired, u, c
<1>3. /\ Closes(x, fired) /\ Parting(x) /\ v.status = w.conversations[c].status
      /\ v.status = "active" => v.joiners = <<>>
  <2> DEFINE y == applyPendingJoiners(fired, c)
  <2>1. /\ Closes(y, fired) /\ Parting(y) /\ y.conversations[c].joiners = <<>>
        /\ y.conversations[c].status = w.conversations[c].status
    <3>1. c \in Conversations /\ Parting(fired)
      BY <1>0, <1>1
    <3> HIDE DEF x
    <3>2. /\ Closes(y, fired) /\ y.conversations[c].joiners = <<>>
          /\ y.conversations[c].status = fired.conversations[c].status
      BY <3>1, ListsClose
    <3> HIDE DEF y
    <3> QED
      BY <1>1, <3>2 DEF Closes
  <2>2. Closes(fired, fired)
    BY <1>1, ClosesSelf
  <2> HIDE DEF y
  <2>3. x = IF w.conversations[c].status = "active" THEN y ELSE fired
    BY DEF y
  <2> HIDE DEF x
  <2>4. CASE w.conversations[c].status = "active"
    BY <2>1, <2>3, <2>4
  <2>5. CASE w.conversations[c].status # "active"
    BY <1>1, <2>2, <2>3, <2>5
  <2> QED
    BY <2>4, <2>5
<1>4. v.status \in {"active", "closing"}
  BY <1>0, <1>3 DEF IsRunning
<1> HIDE DEF x, next
<1>5. Closes(between, x)
  BY <1>0, <1>3, EndCloses, TurnsClose
<1>6. Closes(closeAfterSpeech(x, c, timer.about.speaker, next), x)
  BY <1>0, <1>3, FarewellCloses
<1>7. ASSUME v.status # "closing" PROVE Closes(closeForMaxTurns(x, c, next), x)
  BY <1>0, <1>3, <1>4, <1>7, MaxTurnsCloses
<1>8. ASSUME v.status # "closing" PROVE Closes(startInactiveCheck(x, c, next), x)
  BY <1>0, <1>3, <1>8, CheckCloses
<1>9. Closes(scheduleTurnTimer(x, c, next), x) /\ Closes(endConversation(x, c), x)
  BY <1>0, <1>3, EndCloses, TurnsClose
<1> HIDE DEF between, v
<1>10. u = fired \/ Closes(u, x)
  BY <1>2, <1>5, <1>6, <1>7, <1>8, <1>9
<1>11. Closes(u, w)
  BY <1>1, <1>3, <1>10, ClosesTwice
<1> QED
  BY <1>11 DEF u

\* A turn nobody took.
LEMMA TurnCloses ==
  ASSUME NEW w, Parting(w), NEW timer, timer.about.conversation \in Conversations
  PROVE  Closes(handleTurnTimeout(w, timer), w)
<1> DEFINE c == timer.about.conversation
           x == cancel(w, timer)
<1>1. handleTurnTimeout(w, timer) \in {x, endConversation(x, c)}
  BY DEF handleTurnTimeout
<1>2. Closes(x, w) /\ Parting(x)
  BY TimersClose DEF Closes
<1> HIDE DEF x
<1> QED
  BY <1>1, <1>2, EndCloses, ClosesTwice

\* A member speaks.
LEMMA SpeechCloses ==
  ASSUME NEW w, Parting(w), NEW c \in Conversations, NEW a, NEW next
  PROVE  Closes(speak(w, c, a, next), w)
<1> DEFINE x == closeWindow(w, a)
           y == cancel(x, TurnTimerOf(w, c, a))
           v == updateLastSpokenTurns(w.conversations[c], a, next,
                                      w.conversations[c].current_turn + 1)
           z == [y EXCEPT !.conversations[c] = v]
<1>1. speak(w, c, a, next) = createIntervalTimer(z, c, a, next)
  BY DEF speak
<1>2. Apart(x, w) /\ "conversations" \in DOMAIN x
  BY WindowApart DEF Parting, Apart
<1> HIDE DEF x
<1>3. Apart(y, x)
  BY <1>2, TimersApart
<1>4. Apart(y, w)
  BY <1>2, <1>3, ApartTwice
<1> HIDE DEF y
<1>5. Closes(y, w) /\ Parting(y) /\ y.conversations[c] = w.conversations[c]
  BY <1>4, ApartCloses DEF Apart
<1>6. Settled(v) /\ v.status = w.conversations[c].status
  BY DEF Parting, Settled, updateLastSpokenTurns
<1> HIDE DEF v
<1>7. Onward(v, y.conversations[c])
  BY <1>5, <1>6 DEF Onward
<1>8. Closes(z, y) /\ Parting(z)
  BY <1>5, <1>6, <1>7, PutCloses
<1> HIDE DEF z
<1> QED
  BY <1>1, <1>5, <1>8, TurnsClose, ClosesTwice

\* Of two, one says good-bye: the conversation begins to close, and those that
\* wait to join it are sent away.
LEMMA GoodbyeCloses ==
  ASSUME NEW w, Parting(w), NEW c \in Conversations, NEW a, NEW other,
         w.conversations[c].status # "absent"
  PROVE  Closes(sayGoodbye(w, c, a, other), w)
<1> DEFINE x == cancel(w, TurnTimerOf(w, c, a))
           y == clearInactiveCheckState(x, c)
           z == discardPendingJoiners(y, c)
           v == z.conversations[c]
           t == updateLastSpokenTurns(v, a, other, v.current_turn + 1)
           p == [t EXCEPT !.status = "closing", !.closing_reason = "ended_by_agent",
                          !.current_speaker = other]
           u == [z EXCEPT !.conversations[c] = p]
<1>1. sayGoodbye(w, c, a, other) = createIntervalTimer(u, c, a, other)
  BY DEF sayGoodbye
<1>2. Closes(x, w) /\ Parting(x) /\ x.conversations = w.conversations
  <2>1. Apart(x, w)
    BY TimersApart DEF Parting
  <2> QED
    BY <2>1, ApartCloses DEF Apart
<1> HIDE DEF x
<1>3. /\ Closes(y, x) /\ Parting(y)
      /\ y.conversations[c].status # "absent" /\ y.conversations[c].inactive = {}
  BY <1>2, CheckCloses DEF Closes
<1> HIDE DEF y
<1>4. /\ Closes(z, y) /\ Parting(z)
      /\ v.status # "absent" /\ v.inactive = {} /\ v.joiners = <<>>
  BY <1>3, ListsClose DEF Closes
<1> HIDE DEF z
<1>5. Settled(v)
  BY <1>4 DEF Parting
<1> HIDE DEF v
<1>6. /\ {"status", "joiners", "inactive"} \subseteq DOMAIN t
      /\ t.inactive = {} /\ t.joiners = <<>>
  BY <1>4, <1>5 DEF Settled, updateLastSpokenTurns
<1> HIDE DEF t
<1>7. Settled(p) /\ Onward(p, v)
  BY <1>4, <1>6 DEF Settled, Onward
<1> HIDE DEF p
<1>8. Closes(u, z) /\ Parting(u)
  BY <1>4, <1>7, PutCloses DEF v
<1> HIDE DEF u
<1> QED
  BY <1>1, <1>2, <1>3, <1>4, <1>8, TurnsClose, ClosesTwice

\* Of more, the speaker leaves and the others go on.
LEMMA FloorCloses ==
  ASSUME NEW w, Parting(w), NEW c \in Conversations, NEW a, NEW next
  PROVE  Closes(leaveTheFloor(w, c, a, next), w)
<1> DEFINE x == cancel(w, TurnTimerOf(w, c, a))
           C == [x.conversations EXCEPT ![c].current_turn = @ + 1]
           y == [x EXCEPT !.conversations = C]
           p == [x.conversations[c] EXCEPT !.current_turn = @ + 1]
           z == expel(y, c, a, TRUE)
           D == [z.conversations EXCEPT
                   ![c].last_spoken_turns[next] = w.conversations[c].current_turn + 1]
           u == [z EXCEPT !.conversations = D]
           q == [z.conversations[c] EXCEPT
                   !.last_spoken_turns[next] = w.conversations[c].current_turn + 1]
<1>1. leaveTheFloor(w, c, a, next) = createIntervalTimer(u, c, a, next)
  BY DEF leaveTheFloor
<1>2. Closes(x, w) /\ Parting(x)
  BY TimersClose DEF Closes
<1> HIDE DEF x
<1>3. Settled(p) /\ Onward(p, x.conversations[c])
  BY <1>2 DEF Parting, Settled, Onward
<1>4. Puts(y, x, c, p)
  BY <1>2 DEF Puts, Parting
<1> HIDE DEF y, p, C
<1>5. Closes(y, x) /\ Parting(y)
  BY <1>2, <1>3, <1>4, PutsCloses
<1>6. Closes(z, y) /\ Parting(z)
  BY <1>5, OutCloses DEF Closes
<1> HIDE DEF z
<1>7. Settled(q) /\ Onward(q, z.conversations[c])
  BY <1>6 DEF Parting, Settled, Onward
<1>8. Puts(u, z, c, q)
  BY <1>6 DEF Puts, Parting
<1> HIDE DEF u, q, D
<1>9. Closes(u, z) /\ Parting(u)
  BY <1>6, <1>7, <1>8, PutsCloses
<1> QED
  BY <1>1, <1>2, <1>5, <1>6, <1>9, TurnsClose, ClosesTwice

\* A good-bye, with the answer to an offer.
LEMMA EndByAgentCloses ==
  ASSUME NEW w, Parting(w), NEW c \in Conversations, NEW a, NEW next, NEW response,
         w.conversations[c].status = "active"
  PROVE  Closes(endConversationByAgent(w, c, a, next, response), w)
<1> DEFINE x == IF response = None THEN w
                ELSE resolveConversationTransferResponse(w, a, response)
           y == closeWindow(x, a)
           v == w.conversations[c]
           other == CHOOSE b \in Others(v, a) : TRUE
           parted == IF Len(v.participants) <= 2 THEN sayGoodbye(y, c, a, other)
                     ELSE leaveTheFloor(y, c, a, next)
           u == endConversationByAgent(w, c, a, next, response)
<1>1. u \in {y, cancelPendingTransfersForAgent(parted, a, NoFaults)}
  BY DEF endConversationByAgent
<1>2. Apart(x, w) /\ "conversations" \in DOMAIN x
  <2>1. Apart(x, w)
    BY OfferApart, StoresApart DEF Parting
  <2> QED
    BY <2>1 DEF Apart
<1> HIDE DEF x, u
<1>3. Apart(y, x)
  BY <1>2, WindowApart
<1>4. Closes(y, w) /\ Parting(y) /\ y.conversations[c].status = "active"
  <2>1. Apart(y, w)
    BY <1>2, <1>3, ApartTwice
  <2> QED
    BY <2>1, ApartCloses DEF Apart
<1> HIDE DEF y, other, v
<1>5. Closes(parted, y) /\ Parting(parted)
  <2>1. Closes(sayGoodbye(y, c, a, other), y) /\ Closes(leaveTheFloor(y, c, a, next), y)
    BY <1>4, GoodbyeCloses, FloorCloses
  <2> QED
    BY <2>1 DEF Closes
<1> HIDE DEF parted
<1>6. Closes(cancelPendingTransfersForAgent(parted, a, NoFaults), parted)
  BY <1>5, TimersClose
<1>7. Closes(u, w)
  BY <1>1, <1>4, <1>5, <1>6, ClosesTwice
<1> QED
  BY <1>7 DEF u

\* An active conversation is joined.
LEMMA JoinCloses ==
  ASSUME NEW w, Parting(w), NEW c \in Conversations, NEW a,
         w.conversations[c].status = "active"
  PROVE  Closes(joinConversation(w, c, a), w)
<1> DEFINE x == interruptActivityOf(w, a)
           C == [x.conversations EXCEPT ![c].joiners = Append(@, a)]
           y == [x EXCEPT !.conversations = C]
           p == [x.conversations[c] EXCEPT !.joiners = Append(@, a)]
<1>1. joinConversation(w, c, a) = enterConversation(y, c, a)
  BY DEF joinConversation
<1>2. Closes(x, w) /\ Parting(x) /\ x.conversations = w.conversations
  <2>1. Apart(x, w)
    BY ActivityApart DEF Parting
  <2> QED
    BY <2>1, ApartCloses DEF Apart
<1> HIDE DEF x
<1>3. Settled(p) /\ Onward(p, x.conversations[c])
  BY <1>2 DEF Parting, Settled, Onward
<1>4. Puts(y, x, c, p)
  BY <1>2 DEF Puts, Parting
<1> HIDE DEF y, p, C
<1>5. Closes(y, x) /\ Parting(y)
  BY <1>2, <1>3, <1>4, PutsCloses
<1>6. Apart(enterConversation(y, c, a), y)
  BY <1>5, EnterApart DEF Parting
<1>7. Closes(enterConversation(y, c, a), y)
  BY <1>5, <1>6, ApartCloses
<1> QED
  BY <1>1, <1>2, <1>5, <1>7, ClosesTwice

\* An invitation is withdrawn.
LEMMA WithdrawCloses ==
  ASSUME NEW w, Parting(w), NEW c \in Conversations
  PROVE  /\ Closes(withdraw(w, c), w)
         /\ Closes([cancelConversationTimers(w, c)
                     EXCEPT !.conversations[c] = NoConversation], w)
<1> DEFINE x == cancelConversationTimers(w, c)
           u == [x EXCEPT !.conversations[c] = NoConversation]
           v == withdraw(w, c)
<1>1. Settled(NoConversation) /\ \A y : Onward(NoConversation, y)
  BY DEF Settled, Onward, NoConversation
<1>2. Closes(x, w) /\ Parting(x)
  BY TimersClose DEF Closes
<1>3. Puts(v, x, c, NoConversation)
  BY DEF Puts, withdraw, Parting, cancelConversationTimers, cancelTimersOf
<1> HIDE DEF x, v
<1>4. Closes(u, x)
  BY <1>1, <1>2, PutCloses
<1>5. Closes(v, x)
  BY <1>1, <1>2, <1>3, PutsCloses
<1> HIDE DEF u
<1>6. Closes(u, w) /\ Closes(v, w)
  BY <1>2, <1>4, <1>5, ClosesTwice
<1> QED
  BY <1>6 DEF u, v, x

\* An invitation is accepted.
LEMMA AcceptCloses ==
  ASSUME NEW w, Parting(w), NEW c \in Conversations, NEW a,
         w.conversations[c].status = "pending"
  PROVE  Closes(acceptConversation(w, c, a), w)
<1> DEFINE v == w.conversations[c]
           i == v.initiator
           w1 == cancelConversationTimers(w, c)
           w2 == interruptActivityOf(w1, a)
           w3 == enterConversation(w2, c, i)
           w4 == enterConversation(w3, c, a)
           t == updateLastSpokenTurns(v, a, i, 2)
           p == [t EXCEPT !.status = "active"]
           w5 == [w4 EXCEPT !.conversations[c] = p]
           u == acceptConversation(w, c, a)
<1>1. u \in {createIntervalTimer(w5, c, a, i), withdraw(w, c)}
  BY DEF acceptConversation
<1>2. Apart(w1, w) /\ "conversations" \in DOMAIN w1
  BY TimersApart DEF Parting, Apart
<1> HIDE DEF w1, i, u
<1>3. Apart(w2, w1) /\ "conversations" \in DOMAIN w2
  <2>1. Apart(w2, w1)
    BY <1>2, ActivityApart
  <2> QED
    BY <2>1 DEF Apart
<1> HIDE DEF w2
<1>4. Apart(w3, w2) /\ "conversations" \in DOMAIN w3
  BY <1>3, EnterApart DEF Apart
<1> HIDE DEF w3
<1>5. Apart(w4, w3)
  BY <1>4, EnterApart
<1> HIDE DEF w4
<1>6. Apart(w4, w)
  BY <1>2, <1>3, <1>4, <1>5, ApartTwice
<1>7. Closes(w4, w) /\ Parting(w4) /\ w4.conversations[c] = v
  BY <1>6, ApartCloses DEF Apart
<1>8. Settled(v)
  BY DEF Parting
<1>9. {"status", "joiners", "inactive"} \subseteq DOMAIN t
  BY <1>8 DEF Settled, updateLastSpokenTurns
<1> HIDE DEF t
<1>10. Settled(p) /\ Onward(p, v)
  BY <1>9 DEF Settled, Onward
<1> HIDE DEF p, v
<1>11. Closes(w5, w4) /\ Parting(w5)
  BY <1>7, <1>10, PutCloses
<1> HIDE DEF w5
<1>12. Closes(createIntervalTimer(w5, c, a, i), w5) /\ Closes(withdraw(w, c), w)
  BY <1>11, TurnsClose, WithdrawCloses
<1>13. Closes(u, w)
  BY <1>1, <1>7, <1>11, <1>12, ClosesTwice
<1> QED
  BY <1>13 DEF u

\* An invitation is declined, or nobody answers it.
LEMMA RejectCloses ==
  ASSUME NEW w, Parting(w), NEW c \in Conversations
  PROVE  \A a : Closes(rejectConversation(w, c, a), w)
<1> SUFFICES ASSUME NEW a PROVE Closes(rejectConversation(w, c, a), w)
  OBVIOUS
<1> DEFINE i == w.conversations[c].initiator
           x == withdraw(w, c)
           y == closeWindow(x, i)
           z == closeWindow(y, a)
<1>1. Closes(x, w) /\ Parting(x)
  BY WithdrawCloses DEF Closes
<1> HIDE DEF x, i
<1>2. Closes(y, x) /\ Parting(y)
  BY <1>1, TimersClose DEF Closes
<1> HIDE DEF y
<1>3. Closes(z, y) /\ Parting(z)
  BY <1>2, TimersClose DEF Closes
<1> HIDE DEF z
<1>4. Apart(remind(z, i), z)
  BY <1>3, WindowApart DEF Parting
<1>5. Closes(remind(z, i), w)
  BY <1>1, <1>2, <1>3, <1>4, ApartCloses, ClosesTwice
<1> QED
  BY <1>5 DEF rejectConversation, z, y, x, i

\* An invitation nobody answers runs out.
LEMMA AcceptTimeoutCloses ==
  ASSUME NEW w, Parting(w), NEW timer, timer.about.conversation \in Conversations
  PROVE  Closes(handleAcceptTimeout(w, timer), w)
<1> DEFINE c == timer.about.conversation
           x == cancel(w, timer)
           a == w.conversations[c].participants[2]
<1>1. handleAcceptTimeout(w, timer) \in {x, rejectConversation(x, c, a)}
  BY DEF handleAcceptTimeout
<1>2. Closes(x, w) /\ Parting(x)
  BY TimersClose DEF Closes
<1> HIDE DEF x, a
<1>3. Closes(rejectConversation(x, c, a), x)
  BY <1>2, RejectCloses
<1> QED
  BY <1>1, <1>2, <1>3, ClosesTwice

\* An invitation whose host or guest goes elsewhere is dissolved.
LEMMA DissolveCloses ==
  ASSUME NEW w, Parting(w), NEW a
  PROVE  /\ Closes(cancelPendingConversation(w, a), w)
         /\ Closes(cancelPendingConversationForServerAnnouncement(w, a), w)
<1> DEFINE c == findConversationByAgent(w, a, {"pending"})
           v == w.conversations[c]
           x == withdraw(w, c)
           y == [x EXCEPT !.agents = [b \in Agents |->
                   IF b \in Members(v) THEN [x.agents[b] EXCEPT !.excluded = {}]
                   ELSE x.agents[b]]]
           z == [cancelConversationTimers(w, c) EXCEPT !.conversations[c] = NoConversation]
           idle == {b \in Members(v) : w.agents[b].state = "idle"}
           U == cancelPendingConversation(w, a)
           V == cancelPendingConversationForServerAnnouncement(w, a)
<1>1. /\ U \in {w, z, remind(y, v.initiator), y}
      /\ c = None => U = w
  BY DEF cancelPendingConversation
<1>2. /\ V \in {w, z, startIdleReminders(x, idle)}
      /\ c = None => V = w
  BY DEF cancelPendingConversationForServerAnnouncement
<1>3. c # None => c \in Conversations
  BY Found
<1> HIDE DEF c, v, U, V, idle
<1>4. CASE c = None
  BY <1>1, <1>2, <1>4, ClosesSelf DEF U, V
<1>5. CASE c \in Conversations
  <2>1. Closes(x, w) /\ Parting(x) /\ Closes(z, w)
    BY <1>5, WithdrawCloses DEF Closes
  <2> HIDE DEF x, z
  <2>2. Apart(y, x)
    BY <2>1, StoresApart DEF Parting
  <2>3. Closes(y, x) /\ Parting(y)
    BY <2>1, <2>2, ApartCloses
  <2> HIDE DEF y
  <2>4. Apart(remind(y, v.initiator), y) /\ Apart(startIdleReminders(x, idle), x)
    BY <2>1, <2>3, WindowApart, TimersApart DEF Parting
  <2>5. Closes(remind(y, v.initiator), y) /\ Closes(startIdleReminders(x, idle), x)
    BY <2>1, <2>3, <2>4, ApartCloses
  <2>6. Closes(U, w)
    BY <1>1, <2>1, <2>3, <2>5, ClosesTwice, ClosesSelf
  <2>7. Closes(V, w)
    BY <1>2, <2>1, <2>5, ClosesTwice, ClosesSelf
  <2> QED
    BY <2>6, <2>7 DEF U, V
<1> QED
  BY <1>3, <1>4, <1>5

\* An announcement calls a member away from a conversation, which begins to close.
LEMMA BeginClosingCloses ==
  ASSUME NEW w, Parting(w), NEW c \in Conversations, NEW speaker, NEW departing,
         w.conversations[c].status # "absent"
  PROVE  Closes(beginClosingConversation(w, c, speaker, departing), w)
<1> DEFINE x1 == cancelConversationTimers(w, c)
           x2 == cancelInConversationTransfersForConversation(x1, c)
           x3 == clearInactiveCheckState(x2, c)
           x4 == discardPendingJoiners(x3, c)
           C == [x4.conversations EXCEPT ![c].status = "closing"]
           x5 == [x4 EXCEPT !.conversations = C]
           D == [x5.conversations EXCEPT ![c].closing_reason = "server_announcement"]
           x6 == [x5 EXCEPT !.conversations = D]
           x7 == expel(x6, c, departing, FALSE)
           y == x7.conversations[c]
           next == IF speaker \in Members(y) THEN speaker ELSE FirstOf(y)
           u == beginClosingConversation(w, c, speaker, departing)
<1>1. u \in {endConversation(x7, c), scheduleTurnTimer(x7, c, next)}
  BY DEF beginClosingConversation
<1> HIDE DEF u, next, y
<1>2. Apart(x1, w) /\ "conversations" \in DOMAIN x1
  BY TimersApart DEF Parting, Apart
<1> HIDE DEF x1
<1>3. Apart(x2, x1)
  BY <1>2, OffersApart
<1> HIDE DEF x2
<1>4. Closes(x2, w) /\ Parting(x2) /\ x2.conversations[c].status # "absent"
  <2>1. Apart(x2, w)
    BY <1>2, <1>3, ApartTwice
  <2> QED
    BY <2>1, ApartCloses DEF Apart
<1>5. /\ Closes(x3, x2) /\ Parting(x3)
      /\ x3.conversations[c].status # "absent" /\ x3.conversations[c].inactive = {}
  BY <1>4, CheckCloses DEF Closes
<1> HIDE DEF x3
<1>6. /\ Closes(x4, x3) /\ Parting(x4)
      /\ x4.conversations[c].status # "absent"
      /\ x4.conversations[c].joiners = <<>> /\ x4.conversations[c].inactive = {}
  BY <1>5, ListsClose DEF Closes
<1> HIDE DEF x4
<1>7. Closes(x5, x4) /\ Parting(x5)
  <2> DEFINE v == x4.conversations[c]
             p == [v EXCEPT !.status = "closing"]
  <2>1. Settled(p) /\ Onward(p, v)
    BY <1>6 DEF Parting, Settled, Onward
  <2>2. Puts(x5, x4, c, p)
    BY <1>6 DEF Puts, Parting
  <2> HIDE DEF p, C, x5
  <2> QED
    BY <1>6, <2>1, <2>2, PutsCloses
<1> HIDE DEF x5, C
<1>8. Closes(x6, x5) /\ Parting(x6)
  <2> DEFINE v == x5.conversations[c]
             p == [v EXCEPT !.closing_reason = "server_announcement"]
  <2>1. Settled(p) /\ Onward(p, v)
    BY <1>7 DEF Parting, Settled, Onward
  <2>2. Puts(x6, x5, c, p)
    BY <1>7 DEF Puts, Parting
  <2> HIDE DEF p, D, x6
  <2> QED
    BY <1>7, <2>1, <2>2, PutsCloses
<1> HIDE DEF x6, D
<1>10. Closes(x7, x6) /\ Parting(x7)
  BY <1>8, OutCloses DEF Closes
<1> HIDE DEF x7
<1>11. Closes(endConversation(x7, c), x7) /\ Closes(scheduleTurnTimer(x7, c, next), x7)
  BY <1>10, EndCloses, TurnsClose
<1>12. Closes(x4, w) /\ Closes(u, x6)
  BY <1>1, <1>4, <1>5, <1>6, <1>10, <1>11, ClosesTwice
<1>13. Closes(u, w)
  BY <1>7, <1>8, <1>12, ClosesTwice
<1> QED
  BY <1>13 DEF u

\* An agent is taken out of a conversation that closes.
LEMMA DetachCloses ==
  ASSUME NEW w, Parting(w), NEW c \in Conversations, NEW a
  PROVE  Closes(detachParticipantFromClosingConversation(w, c, a), w)
<1> DEFINE x == cancelPendingTransfersForAgent(w, a, NoFaults)
           y == expel(x, c, a, FALSE)
           z == cancelConversationTimers(y, c)
           s == resolveResumeSpeaker(y.conversations[c])
<1>1. detachParticipantFromClosingConversation(w, c, a)
        \in {endConversation(y, c), y, scheduleTurnTimer(z, c, s)}
  BY DEF detachParticipantFromClosingConversation
<1>2. Closes(x, w) /\ Parting(x)
  BY TimersClose DEF Closes
<1> HIDE DEF x, s
<1>3. Closes(y, x) /\ Parting(y)
  BY <1>2, OutCloses DEF Closes
<1> HIDE DEF y
<1>4. Closes(z, y) /\ Parting(z)
  BY <1>3, TimersClose DEF Closes
<1> HIDE DEF z
<1>5. Closes(endConversation(y, c), y) /\ Closes(scheduleTurnTimer(z, c, s), z)
  BY <1>3, <1>4, EndCloses, TurnsClose
<1> QED
  BY <1>1, <1>2, <1>3, <1>4, <1>5, ClosesTwice

\* An agent leaves its conversation for an announcement.
LEMMA LeaveForCloses ==
  ASSUME NEW w, Parting(w), NEW a
  PROVE  Closes(leaveForAnnouncement(w, a), w)
<1> DEFINE c == findConversationByAgent(w, a, {"active", "closing"})
           v == w.conversations[c]
           s == getConversationActionableSpeaker(v)
           others == Without(v.participants, a)
           partner == IF s \notin {None, a} THEN s
                      ELSE IF others # <<>> THEN Head(others) ELSE v.current_speaker
           u == leaveForAnnouncement(w, a)
<1>1. /\ u \in {w, detachPendingJoiner(w, c, a, FALSE),
                detachParticipantFromClosingConversation(w, c, a),
                beginClosingConversation(w, c, partner, a)}
      /\ c = None => u = w
  BY DEF leaveForAnnouncement
<1>2. c # None => c \in Conversations /\ v.status \in {"active", "closing"}
  BY Found
<1> HIDE DEF c, u, partner
<1>3. ASSUME c # None PROVE Closes(u, w)
  <2>1. c \in Conversations /\ w.conversations[c].status # "absent"
    BY <1>2, <1>3
  <2>2. Closes(detachPendingJoiner(w, c, a, FALSE), w)
    BY <2>1, OutCloses
  <2>3. Closes(detachParticipantFromClosingConversation(w, c, a), w)
    BY <2>1, DetachCloses
  <2>4. Closes(beginClosingConversation(w, c, partner, a), w)
    BY <2>1, BeginClosingCloses
  <2> QED
    BY <1>1, <2>2, <2>3, <2>4, ClosesSelf
<1>4. Closes(u, w)
  BY <1>1, <1>3, ClosesSelf
<1> QED
  BY <1>4 DEF u

\* What an agent was doing in its window is interrupted.
LEMMA InterruptionCloses ==
  ASSUME NEW w, Parting(w), NEW a
  PROVE  Closes(handleInterruption(w, a), w)
<1> DEFINE x == leaveForAnnouncement(w, a)
           y == setState(x, a, "idle")
           z == cancelPendingConversationForServerAnnouncement(w, a)
           u == handleInterruption(w, a)
<1>1. u \in {w, clearActiveServerAnnouncement(y, a),
              handleServerAnnouncementInterruption(z, a, NoFaults)}
  BY DEF handleInterruption
<1>2. Closes(x, w) /\ Parting(x)
  BY LeaveForCloses DEF Closes
<1> HIDE DEF x, u
<1>3. Closes(y, x) /\ Parting(y)
  <2>1. Apart(y, x)
    BY <1>2, RecordsApart DEF Parting
  <2> QED
    BY <1>2, <2>1, ApartCloses
<1> HIDE DEF y
<1>4. Closes(clearActiveServerAnnouncement(y, a), y)
  <2>1. Apart(clearActiveServerAnnouncement(y, a), y)
    BY <1>3, RecordsApart DEF Parting
  <2> QED
    BY <1>3, <2>1, ApartCloses
<1>5. Closes(z, w) /\ Parting(z)
  BY DissolveCloses DEF Closes
<1> HIDE DEF z
<1>6. Closes(handleServerAnnouncementInterruption(z, a, NoFaults), z)
  <2>1. Apart(handleServerAnnouncementInterruption(z, a, NoFaults), z)
    BY <1>5, AnnouncedApart DEF Parting
  <2> QED
    BY <1>5, <2>1, ApartCloses
<1>7. Closes(u, w)
  BY <1>1, <1>2, <1>3, <1>4, <1>5, <1>6, ClosesTwice, ClosesSelf
<1> QED
  BY <1>7 DEF u

\* A member that logs out is taken out of its conversation, which goes on or ends.
LEMMA ForceEndCloses ==
  ASSUME NEW w, Parting(w), NEW a
  PROVE  Closes(forceEndConversation(w, a), w)
<1> DEFINE c == findConversationByAgent(w, a, {"active", "closing"})
           x == cancelPendingTransfersForAgent(w, a, NoFaults)
           y == cancelConversationTimers(x, c)
           p == removeParticipant(y.conversations[c], a)
           z == [y EXCEPT !.conversations[c] = p]
           s == SpeakerWithout(w, c, a, z.conversations[c])
           u == forceEndConversation(w, a)
<1>1. /\ u \in {w, detachPendingJoiner(w, c, a, TRUE), endConversation(z, c),
                createInactiveCheckTimer(z, c), scheduleTurnTimer(z, c, s)}
      /\ c = None => u = w
  BY DEF forceEndConversation
<1>2. c # None => c \in Conversations
  BY Found
<1> HIDE DEF c, u, s
<1>3. ASSUME c # None PROVE Closes(u, w)
  <2>0. c \in Conversations
    BY <1>2, <1>3
  <2>1. Closes(x, w) /\ Parting(x)
    BY TimersClose DEF Closes
  <2> HIDE DEF x
  <2>2. Closes(y, x) /\ Parting(y)
    BY <2>1, TimersClose DEF Closes
  <2> HIDE DEF y
  <2>3. Settled(p) /\ Onward(p, y.conversations[c])
    BY <2>0, <2>2, RemovedSettled DEF Parting, Onward
  <2> HIDE DEF p
  <2>4. Closes(z, y) /\ Parting(z)
    BY <2>0, <2>2, <2>3, PutCloses
  <2> HIDE DEF z
  <2>5. /\ Closes(endConversation(z, c), z) /\ Closes(scheduleTurnTimer(z, c, s), z)
        /\ Closes(createInactiveCheckTimer(z, c), z)
    BY <2>0, <2>4, EndCloses, TurnsClose
  <2>6. Closes(detachPendingJoiner(w, c, a, TRUE), w)
    BY <2>0, OutCloses
  <2> QED
    BY <1>1, <2>1, <2>2, <2>4, <2>5, <2>6, ClosesTwice, ClosesSelf
<1>4. Closes(u, w)
  BY <1>1, <1>3, ClosesSelf
<1> QED
  BY <1>4 DEF u

\* A logout takes the agent out of what it takes part in, and forgets it.
LEMMA LogoutCloses ==
  ASSUME NEW w, Parting(w), NEW a
  PROVE  Closes(logout(cleanupServerAnnouncementsForAgent(
                  cancelByAgent(
                    persistLoggedInAgentState(
                      cancelPendingTransfersForAgent(
                        forceEndConversation(cancelPendingConversation(w, a), a),
                        a, NoFaults), a), a), a), a), w)
<1> DEFINE x1 == cancelPendingConversation(w, a)
           x2 == forceEndConversation(x1, a)
           x3 == cancelPendingTransfersForAgent(x2, a, NoFaults)
           x4 == persistLoggedInAgentState(x3, a)
           x5 == cancelByAgent(x4, a)
           x6 == cleanupServerAnnouncementsForAgent(x5, a)
           x7 == logout(x6, a)
<1>1. Closes(x1, w) /\ Parting(x1)
  BY DissolveCloses DEF Closes
<1> HIDE DEF x1
<1>2. Closes(x2, x1) /\ Parting(x2) /\ "conversations" \in DOMAIN x2
  BY <1>1, ForceEndCloses DEF Closes, Parting
<1> HIDE DEF x2
<1>3. Apart(x3, x2) /\ "conversations" \in DOMAIN x3
  BY <1>2, OfferApart DEF Apart
<1> HIDE DEF x3
<1>4. Apart(x4, x3) /\ "conversations" \in DOMAIN x4
  BY <1>3, RecordsApart DEF Apart
<1> HIDE DEF x4
<1>5. Apart(x5, x4) /\ "conversations" \in DOMAIN x5
  BY <1>4, TimersApart DEF Apart
<1> HIDE DEF x5
<1>6. Apart(x6, x5) /\ "conversations" \in DOMAIN x6
  BY <1>5, AnnouncedApart DEF Apart
<1> HIDE DEF x6
<1>7. Apart(x7, x6)
  BY <1>6, RecordsApart
<1> HIDE DEF x7
<1>8. Apart(x7, x2)
  BY <1>3, <1>4, <1>5, <1>6, <1>7, ApartTwice
<1>9. Closes(x7, w)
  BY <1>1, <1>2, <1>8, ApartCloses, ClosesTwice
<1> QED
  BY <1>9 DEF x7, x6, x5, x4, x3, x2, x1

\* An invitation opens a conversation that was not there.
LEMMA InviteConcludes ==
  ASSUME NEW w, Parting(w), NEW c \in Conversations, NEW a, NEW target,
         w.conversations[c].status = "absent"
  PROVE  Concludes(startConversation(w, c, a, target), w)
<1> DEFINE v == [NoConversation EXCEPT
                   !.status = "pending", !.initiator = a,
                   !.participants = <<a, target>>, !.current_turn = 1,
                   !.current_speaker = target]
           x1 == cancelIdleReminder(w, a)
           x2 == clearExcludedInfoCommands(x1, a)
           x3 == clearActiveServerAnnouncement(x2, a)
           C == [x3.conversations EXCEPT ![c] = v]
           x4 == [x3 EXCEPT !.conversations = C]
           A == [x4.agents EXCEPT ![a].pending_conversation_id = c]
           x5 == [x4 EXCEPT !.agents = A]
           B == [x5.agents EXCEPT ![target].pending_conversation_id = c]
           x6 == [x5 EXCEPT !.agents = B]
           timer == Timer("conversation_accept", {a, target}, About(c, None, None, 0))
           u == startConversation(w, c, a, target)
<1>1. u = create(x6, timer)
  BY DEF startConversation
<1>2. Settled(v) /\ v.status = "pending"
  BY DEF Settled, NoConversation
<1> HIDE DEF u, v, timer
<1>3. Apart(x1, w) /\ "conversations" \in DOMAIN x1
  BY TimersApart DEF Parting, Apart
<1> HIDE DEF x1
<1>4. Apart(x2, x1) /\ "conversations" \in DOMAIN x2
  BY <1>3, RecordsApart DEF Apart
<1> HIDE DEF x2
<1>5. Apart(x3, x2)
  BY <1>4, RecordsApart
<1> HIDE DEF x3
<1>6. x3.conversations = w.conversations /\ Parting(x3)
  <2>1. Apart(x3, w)
    BY <1>3, <1>4, <1>5, ApartTwice
  <2> QED
    BY <2>1, ApartCloses DEF Apart
<1>7. x4.conversations = C /\ "conversations" \in DOMAIN x4
  BY <1>6 DEF Parting
<1>8. /\ C = [d \in Conversations |-> C[d]] /\ C[c] = v
      /\ \A d \in Conversations \ {c} : C[d] = w.conversations[d]
  BY <1>6 DEF Parting
<1> HIDE DEF x4, C
<1>9. Parting(x4)
  BY <1>2, <1>7, <1>8 DEF Parting
<1>10. Concludes(x4, w)
  BY <1>7, <1>8, <1>9 DEF Concludes, Parting
<1>11. Apart(x5, x4) /\ "conversations" \in DOMAIN x5
  BY <1>9, StoresApart DEF Parting, Apart
<1> HIDE DEF x5, A
<1>12. Apart(x6, x5) /\ "conversations" \in DOMAIN x6
  BY <1>11, StoresApart DEF Apart
<1> HIDE DEF x6, B
<1>13. Apart(u, x6)
  BY <1>1, <1>12, TimersApart
<1>14. Closes(u, x4)
  <2>1. Apart(u, x4)
    BY <1>11, <1>12, <1>13, ApartTwice
  <2> QED
    BY <1>9, <2>1, ApartCloses
<1>15. Concludes(u, w)
  BY <1>10, <1>14 DEF Concludes, Closes, Onward
<1> QED
  BY <1>15 DEF u

\* What closes conversations concludes them.
LEMMA ClosesConcludes ==
  ASSUME NEW w, NEW u, Closes(u, w)
  PROVE  Concludes(u, w)
BY DEF Closes, Concludes, Onward

\* A handler that concludes conversations is a step that does.
LEMMA BecomeConcluded ==
  ASSUME NEW v, Concludes(v, world), Become(v)
  PROVE  Concludes(world', world)
<1>1. world'.conversations = v.conversations /\ "conversations" \in DOMAIN world'
  BY DEF Become, world
<1> QED
  BY <1>1 DEF Concludes, Parting

\* What changes nothing concludes what it concludes.
LEMMA UnchangedConcludes ==
  ASSUME Parting(world), UNCHANGED vars
  PROVE  Concludes(world', world)
<1>1. world' = world
  BY DEF vars, world
<1> QED
  BY <1>1, ClosesSelf, ClosesConcludes

\* At first there is no conversation.
LEMMA InitParting == Init => Parting(world)
<1> SUFFICES ASSUME Init PROVE Parting(world)
  OBVIOUS
<1>1. world.conversations = [c \in Conversations |-> NoConversation]
      /\ "conversations" \in DOMAIN world
  BY DEF Init, world
<1>2. Settled(NoConversation)
  BY DEF Settled, NoConversation
<1> QED
  BY <1>1, <1>2 DEF Parting

\* What one agent does alone.
LEMMA AgentConcludes ==
  ASSUME Parting(world), AgentNext
  PROVE  Concludes(world', world)
<1>0. "conversations" \in DOMAIN world
  BY DEF Parting
<1>1. ASSUME NEW v, Closes(v, world), Become(v) PROVE Concludes(world', world)
  BY <1>1, ClosesConcludes, BecomeConcluded
<1>2. ASSUME NEW a \in Agents, loginAgent(a) PROVE Concludes(world', world)
  <2> DEFINE u == login(world, a)
             v == startIdleReminder(u, a)
  <2>1. Become(v)
    BY <1>2 DEF loginAgent
  <2>2. Apart(u, world) /\ "conversations" \in DOMAIN u
    BY <1>0, RecordsApart DEF Apart
  <2> HIDE DEF u
  <2>3. Apart(v, u)
    BY <2>2, WindowApart
  <2> HIDE DEF v
  <2>4. Closes(v, world)
    BY <2>2, <2>3, ApartTwice, ApartCloses
  <2> QED
    BY <1>1, <2>1, <2>4
<1>3. ASSUME NEW a \in Agents, logoutAgent(a) PROVE Concludes(world', world)
  <2> DEFINE v == logout(cleanupServerAnnouncementsForAgent(
                     cancelByAgent(LeftEverything(a), a), a), a)
  <2>1. Closes(v, world)
    BY LogoutCloses DEF LeftEverything
  <2>2. Become(v)
    BY <1>3 DEF logoutAgent
  <2> HIDE DEF v
  <2> QED
    BY <1>1, <2>1, <2>2
<1>4. ASSUME NEW a \in Agents, executeWait(a) PROVE Concludes(world', world)
  <2> DEFINE u == handleInterruption(world, a)
             v == executeValidatedWait(u, a)
  <2>1. Become(v)
    BY <1>4 DEF executeWait
  <2>2. Closes(u, world) /\ Parting(u)
    BY InterruptionCloses DEF Closes
  <2> HIDE DEF u
  <2>3. Apart(v, u)
    BY <2>2, ActivityApart DEF Parting
  <2> HIDE DEF v
  <2>4. Closes(v, world)
    BY <2>2, <2>3, ApartCloses, ClosesTwice
  <2> QED
    BY <1>1, <2>1, <2>4
<1>5. ASSUME NEW a \in Agents, waitCompleted(a) PROVE Concludes(world', world)
  <2>1. PICK timer \in Pending("wait") : Become(handleWaitCompleted(world, timer, a))
    BY <1>5 DEF waitCompleted
  <2>2. Apart(handleWaitCompleted(world, timer, a), world)
    BY <1>0, ActivityApart
  <2>3. Closes(handleWaitCompleted(world, timer, a), world)
    BY <2>2, ApartCloses
  <2> QED
    BY <1>1, <2>1, <2>3
<1> QED
  BY <1>2, <1>3, <1>4, <1>5 DEF AgentNext

\* Inviting, and answering an invitation.
LEMMA InvitationConcludes ==
  ASSUME Parting(world), InvitationNext
  PROVE  Concludes(world', world)
<1>1. ASSUME NEW v, Closes(v, world), Become(v) PROVE Concludes(world', world)
  BY <1>1, ClosesConcludes, BecomeConcluded
<1>2. ASSUME NEW a \in Agents, NEW target \in Agents, NEW c \in Conversations,
             startConversationRequest(a, target, c)
      PROVE  Concludes(world', world)
  <2> DEFINE v == startConversation(world, c, a, target)
  <2>1. world.conversations[c].status = "absent" /\ Become(v)
    BY <1>2, WorldNow DEF startConversationRequest
  <2>2. Concludes(v, world)
    BY <2>1, InviteConcludes
  <2> HIDE DEF v
  <2> QED
    BY <2>1, <2>2, BecomeConcluded
<1>3. ASSUME NEW a \in Agents, acceptConversationRequest(a)
      PROVE  Concludes(world', world)
  <2> DEFINE c == findConversationByAgent(world, a, {"pending"})
             v == acceptConversation(world, c, a)
  <2>1. c # None /\ Become(v)
    BY <1>3, WorldNow DEF acceptConversationRequest
  <2>2. c \in Conversations /\ world.conversations[c].status = "pending"
    BY <2>1, Found
  <2> HIDE DEF c
  <2>3. Closes(v, world)
    BY <2>2, AcceptCloses
  <2> HIDE DEF v
  <2> QED
    BY <1>1, <2>1, <2>3
<1>4. ASSUME NEW a \in Agents, rejectConversationRequest(a)
      PROVE  Concludes(world', world)
  <2> DEFINE c == findConversationByAgent(world, a, {"pending"})
             v == rejectConversation(world, c, a)
  <2>1. c # None /\ Become(v)
    BY <1>4, WorldNow DEF rejectConversationRequest
  <2>2. c \in Conversations
    BY <2>1, Found
  <2> HIDE DEF c
  <2>3. Closes(v, world)
    BY <2>2, RejectCloses
  <2> HIDE DEF v
  <2> QED
    BY <1>1, <2>1, <2>3
<1> QED
  BY <1>2, <1>3, <1>4 DEF InvitationNext

\* A speech, with the answer to an offer or with an offer of its own.
LEMMA SpokenConcludes ==
  ASSUME Parting(world), NEW a \in Agents, NEW named \in Agents,
         speakInConversation(a, named)
  PROVE  Concludes(world', world)
<1>1. ASSUME NEW v, Closes(v, world), Become(v) PROVE Concludes(world', world)
  BY <1>1, ClosesConcludes, BecomeConcluded
<1> DEFINE c == findConversationByAgent(world, a, {"active", "closing"})
           next == IF conversations[c].status = "closing"
                   THEN resolveClosingNextSpeaker(conversations[c], a, named)
                   ELSE named
<1>2. /\ c # None
      /\ \/ \E response \in Responses(a) : Become(Spoken(a, c, next, response))
         \/ \E t \in Transfers, payload \in Payloads :
              Become(startConversationTransfer(
                       Spoken(a, c, next, None), c, t, a, next, payload))
  BY DEF speakInConversation
<1>3. c \in Conversations
  BY <1>2, Found
<1> HIDE DEF c, next
<1>4. ASSUME NEW response
      PROVE  Closes(Spoken(a, c, next, response), world)
  <2> DEFINE u == speak(world, c, a, next)
             v == resolveConversationTransferResponse(u, a, response)
  <2>1. Closes(u, world) /\ Parting(u)
    BY <1>3, SpeechCloses DEF Closes
  <2> HIDE DEF u
  <2>2. Apart(v, u)
    BY <2>1, OfferApart DEF Parting
  <2> HIDE DEF v
  <2>3. Closes(v, world)
    BY <2>1, <2>2, ApartCloses, ClosesTwice
  <2> QED
    BY <2>3 DEF Spoken, u, v
<1>5. CASE \E response \in Responses(a) : Become(Spoken(a, c, next, response))
  BY <1>1, <1>4, <1>5
<1>6. CASE \E t \in Transfers, payload \in Payloads :
             Become(startConversationTransfer(
                      Spoken(a, c, next, None), c, t, a, next, payload))
  <2>1. PICK t \in Transfers, payload \in Payloads :
          Become(startConversationTransfer(
                   Spoken(a, c, next, None), c, t, a, next, payload))
    BY <1>6
  <2> DEFINE u == Spoken(a, c, next, None)
             v == startConversationTransfer(u, c, t, a, next, payload)
  <2>2. Closes(u, world) /\ Parting(u)
    BY <1>4 DEF Closes
  <2>3. Become(v)
    BY <2>1
  <2> HIDE DEF u
  <2>4. Apart(v, u)
    BY <2>2, ProposalApart DEF Parting
  <2> HIDE DEF v
  <2>5. Closes(v, world)
    BY <2>2, <2>4, ApartCloses, ClosesTwice
  <2> QED
    BY <1>1, <2>3, <2>5
<1> QED
  BY <1>2, <1>5, <1>6

\* What the members of a conversation do.
LEMMA MemberConcludes ==
  ASSUME Parting(world), MemberNext
  PROVE  Concludes(world', world)
<1>1. ASSUME NEW v, Closes(v, world), Become(v) PROVE Concludes(world', world)
  BY <1>1, ClosesConcludes, BecomeConcluded
<1>2. ASSUME NEW a \in Agents, NEW c \in Conversations, joinConversationRequest(a, c)
      PROVE  Concludes(world', world)
  <2> DEFINE v == joinConversation(world, c, a)
  <2>1. world.conversations[c].status = "active" /\ Become(v)
    BY <1>2 DEF joinConversationRequest, canJoin
  <2>2. Closes(v, world)
    BY <2>1, JoinCloses
  <2> HIDE DEF v
  <2> QED
    BY <1>1, <2>1, <2>2
<1>3. ASSUME NEW a \in Agents, NEW named \in Agents, endConversationRequest(a, named)
      PROVE  Concludes(world', world)
  <2> DEFINE c == findConversationByAgent(world, a, {"active"})
  <2>1. /\ c # None
        /\ \E response \in Responses(a) :
             Become(endConversationByAgent(world, c, a, named, response))
    BY <1>3 DEF endConversationRequest
  <2>2. c \in Conversations /\ world.conversations[c].status = "active"
    BY <2>1, Found
  <2> HIDE DEF c
  <2>3. \A response : Closes(endConversationByAgent(world, c, a, named, response), world)
    BY <2>2, EndByAgentCloses
  <2> QED
    BY <1>1, <2>1, <2>3
<1>4. ASSUME NEW a \in Agents, stayInConversationRequest(a)
      PROVE  Concludes(world', world)
  <2> DEFINE c == findConversationByAgent(world, a, {"active"})
             v == stayInConversation(world, c, a)
  <2>1. c # None /\ Become(v)
    BY <1>4 DEF stayInConversationRequest
  <2>2. c \in Conversations
    BY <2>1, Found
  <2> HIDE DEF c
  <2>3. Closes(v, world)
    BY <2>2, StayCloses
  <2> HIDE DEF v
  <2> QED
    BY <1>1, <2>1, <2>3
<1>5. ASSUME NEW a \in Agents, leaveConversationRequest(a)
      PROVE  Concludes(world', world)
  <2> DEFINE c == findConversationByAgent(world, a, {"active"})
             v == leaveConversation(world, c, a)
  <2>1. c # None /\ Become(v)
    BY <1>5 DEF leaveConversationRequest
  <2>2. c \in Conversations
    BY <2>1, Found
  <2> HIDE DEF c
  <2>3. Closes(v, world)
    BY <2>2, LeaveCloses
  <2> HIDE DEF v
  <2> QED
    BY <1>1, <2>1, <2>3
<1> QED
  BY <1>2, <1>3, <1>4, <1>5, SpokenConcludes DEF MemberNext

\* The timers of conversations and of the offers made in them.
LEMMA TimerConcludes ==
  ASSUME IInv, Parting(world), TimerNext
  PROVE  Concludes(world', world)
<1>0. Sound(world, {})
  BY DEF IInv
<1>1. ASSUME NEW v, Closes(v, world), Become(v) PROVE Concludes(world', world)
  BY <1>1, ClosesConcludes, BecomeConcluded
<1>2. ASSUME NEW c, NEW types, NEW timer \in ConversationTimers(world, c, types)
      PROVE  /\ timer \in world.timers /\ timer.about.conversation = c
             /\ timer.type \in types
  BY DEF ConversationTimers
<1>3. ASSUME NEW c \in Conversations, acceptTimeout(c) PROVE Concludes(world', world)
  <2>1. PICK timer \in ConversationTimers(world, c, {"conversation_accept"}) :
          Become(handleAcceptTimeout(world, timer))
    BY <1>3 DEF acceptTimeout
  <2>2. timer.about.conversation \in Conversations
    BY <1>2
  <2>3. Closes(handleAcceptTimeout(world, timer), world)
    BY <2>2, AcceptTimeoutCloses
  <2> QED
    BY <1>1, <2>1, <2>3
<1>4. ASSUME NEW c \in Conversations, intervalElapsed(c) PROVE Concludes(world', world)
  <2>1. PICK timer \in ConversationTimers(world, c, {"conversation_interval"}) :
          Become(handleConversationInterval(world, timer))
    BY <1>4 DEF intervalElapsed
  <2>2. /\ timer.about.conversation \in Conversations /\ timer \in world.timers
        /\ timer.type = "conversation_interval"
    BY <1>2
  <2>3. Closes(handleConversationInterval(world, timer), world)
    BY <1>0, <2>2, IntervalCloses
  <2> QED
    BY <1>1, <2>1, <2>3
<1>5. ASSUME NEW c \in Conversations, inactiveCheckTimeout(c)
      PROVE  Concludes(world', world)
  <2>1. PICK timer \in ConversationTimers(world, c, {"conversation_inactive_check"}) :
          Become(handleInactiveCheckTimeout(world, timer))
    BY <1>5 DEF inactiveCheckTimeout
  <2>2. timer.about.conversation \in Conversations
    BY <1>2
  <2>3. Closes(handleInactiveCheckTimeout(world, timer), world)
    BY <1>0, <2>2, SilentCloses
  <2> QED
    BY <1>1, <2>1, <2>3
<1>6. ASSUME NEW c \in Conversations, turnTimeout(c) PROVE Concludes(world', world)
  <2>1. PICK timer \in ConversationTimers(world, c, {"conversation_turn"}) :
          Become(handleTurnTimeout(world, timer))
    BY <1>6 DEF turnTimeout
  <2>2. timer.about.conversation \in Conversations
    BY <1>2
  <2>3. Closes(handleTurnTimeout(world, timer), world)
    BY <2>2, TurnCloses
  <2> QED
    BY <1>1, <2>1, <2>3
<1>7. ASSUME NEW t \in Transfers, transferTimeout(t) PROVE Concludes(world', world)
  <2>1. PICK timer : Become(handleTransferTimeout(world, timer, NoFaults))
    BY <1>7 DEF transferTimeout
  <2>2. Apart(handleTransferTimeout(world, timer, NoFaults), world)
    BY OfferApart DEF Parting
  <2>3. Closes(handleTransferTimeout(world, timer, NoFaults), world)
    BY <2>2, ApartCloses
  <2> QED
    BY <1>1, <2>1, <2>3
<1> QED
  BY <1>3, <1>4, <1>5, <1>6, <1>7 DEF TimerNext

\* Announcements, and the notifications that close their windows.
LEMMA AnnouncementConcludes ==
  ASSUME Parting(world), AnnouncementNext
  PROVE  Concludes(world', world)
<1>0. "conversations" \in DOMAIN world
  BY DEF Parting
<1>1. ASSUME NEW v, Apart(v, world), Become(v) PROVE Concludes(world', world)
  BY <1>1, ApartCloses, ClosesConcludes, BecomeConcluded
<1>2. ASSUME NEW n, announce(n) PROVE Concludes(world', world)
  <2>1. Apart(fireServerAnnouncement(world, n), world)
    BY <1>0, AnnouncedApart
  <2> QED
    BY <1>1, <1>2, <2>1 DEF announce
<1>3. ASSUME NEW a, deliverNotification(a) PROVE Concludes(world', world)
  <2>1. Apart(clearActiveServerAnnouncement(world, a), world)
    BY <1>0, RecordsApart
  <2> QED
    BY <1>1, <1>3, <2>1 DEF deliverNotification
<1> QED
  BY <1>2, <1>3 DEF AnnouncementNext

\* A conversation that closes has nobody waiting to join and nobody asked to
\* stay, whatever the order of speeches, joins, checks, announcements and
\* logouts, and the only way on from there is its end.
THEOREM ClosingAlwaysFinal == Spec => ClosingIsFinal
<1>1. Init => Parting(world)
  BY InitParting
<1>2. IInv /\ Parting(world) /\ [Next]_vars => Concludes(world', world)
  <2> SUFFICES ASSUME IInv, Parting(world), [Next]_vars
               PROVE  Concludes(world', world)
    OBVIOUS
  <2> QED
    BY AgentConcludes, InvitationConcludes, MemberConcludes, TimerConcludes,
       AnnouncementConcludes, UnchangedConcludes DEF Next
<1>3. IInv /\ Parting(world) /\ [Next]_vars => Parting(world)'
  BY <1>2 DEF Concludes
<1>4. IInv /\ Parting(world) /\ [Next]_vars => ClosingStep
  <2> SUFFICES ASSUME IInv, Parting(world), [Next]_vars, NEW c \in Conversations,
                      conversations[c].status = "closing"
               PROVE  /\ conversations[c].joiners = <<>>
                      /\ conversations[c].inactive = {}
                      /\ conversations'[c].status \in {"closing", "absent"}
    BY DEF ClosingStep
  <2>1. world.conversations = conversations /\ world'.conversations = conversations'
    BY DEF world
  <2> QED
    BY <1>2, <2>1 DEF Concludes, Parting, Settled
<1> QED
  BY <1>1, <1>3, <1>4, ConversationIsSound, PTL DEF Spec, ClosingIsFinal

===============================================================================
