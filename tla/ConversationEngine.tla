------------------------- MODULE ConversationEngine -------------------------
(***************************************************************************)
(* engine/world-engine.ts as agents in conversation use it: logins and     *)
(* logouts, invitations, turns, joins, inactive checks, offers between the *)
(* members and announcements that call them away.  Waiting stands for the  *)
(* activities an invitation or a join interrupts.                          *)
(*                                                                         *)
(* Every agent is registered, and a login is one step: WorldEngine is about*)
(* registrations, logins that are awaited and the other commands.          *)
(***************************************************************************)
EXTENDS Conversation

CONSTANT Payloads   \* what one offer may hand over

ASSUME PayloadAssumption == Payloads \subseteq Purse \ {Nothing}

VARIABLES
  agents,         \* AgentStateStore: the logged-in agents
  purses,         \* their money and items
  transfers,      \* TransferStateStore
  announcements,  \* ServerAnnouncementStateStore
  timers,         \* TimerManager: the pending timers
  registrations,  \* the registered agents, as on disk
  conversations   \* ConversationStateStore

vars == <<agents, purses, transfers, announcements, timers, registrations,
          conversations>>

world == [ agents |-> agents, purses |-> purses, transfers |-> transfers,
           announcements |-> announcements, timers |-> timers,
           registrations |-> registrations, conversations |-> conversations ]

Become(next) ==
  /\ agents' = next.agents
  /\ purses' = next.purses
  /\ transfers' = next.transfers
  /\ announcements' = next.announcements
  /\ timers' = next.timers
  /\ registrations' = next.registrations
  /\ conversations' = next.conversations

Init ==
  /\ agents = EmptyWorld.agents
  /\ purses = EmptyWorld.purses
  /\ transfers = EmptyWorld.transfers
  /\ announcements = EmptyWorld.announcements
  /\ timers = EmptyWorld.timers
  /\ registrations = [a \in Agents |-> [money |-> InitialMoney, items |-> 0]]
  /\ conversations = [c \in Conversations |-> NoConversation]

(***************************************************************************)
(* Agent lifecycle.                                                        *)
(***************************************************************************)
loginAgent(a) ==
  /\ ~LoggedIn(world, a)
  /\ Become(startIdleReminder(login(world, a), a))

LeftEverything(a) ==
  persistLoggedInAgentState(
    cancelPendingTransfersForAgent(
      forceEndConversation(cancelPendingConversation(world, a), a),
      a, NoFaults), a)

logoutAgent(a) ==
  /\ LoggedIn(world, a)
  /\ Become(logout(cleanupServerAnnouncementsForAgent(
                     cancelByAgent(LeftEverything(a), a), a), a))

(***************************************************************************)
(* Waiting.  In a window it is a way out of a conversation.                *)
(***************************************************************************)
executeWait(a) ==
  /\ requireActionableAgent(world, a)
  /\ Become(executeValidatedWait(handleInterruption(world, a), a))

Pending(type) == {timer \in timers : timer.type = type}

waitCompleted(a) ==
  \E timer \in Pending("wait") :
    /\ a \in timer.agent_ids
    /\ Become(handleWaitCompleted(world, timer, a))

(***************************************************************************)
(* Conversation commands.                                                  *)
(***************************************************************************)
startConversationRequest(a, target, c) ==
  /\ conversations[c].status = "absent"
  /\ validateConversationStart(world, a, target)
  /\ Become(startConversation(world, c, a, target))

acceptConversationRequest(a) ==
  LET c == findConversationByAgent(world, a, {"pending"})
  IN  /\ c # None /\ isTarget(conversations[c], a)
      /\ Become(acceptConversation(world, c, a))

rejectConversationRequest(a) ==
  LET c == findConversationByAgent(world, a, {"pending"})
  IN  /\ c # None /\ isTarget(conversations[c], a)
      /\ Become(rejectConversation(world, c, a))

joinConversationRequest(a, c) ==
  /\ canJoin(world, c, a)
  /\ Become(joinConversation(world, c, a))

Responses(a) ==
  IF agents[a].pending_transfer_id = None THEN {None}
  ELSE {None, "accept", "reject"}

Spoken(a, c, next, response) ==
  LET w    == speak(world, c, a, next)
  IN  resolveConversationTransferResponse(w, a, response)

\* named is the next_speaker_agent_id of the request.
speakInConversation(a, named) ==
  LET c    == findConversationByAgent(world, a, {"active", "closing"})
      v    == conversations[c]
      next == IF v.status = "closing"
              THEN resolveClosingNextSpeaker(v, a, named) ELSE named
  IN  /\ c # None /\ isMyTurn(world, c, a)
      /\ next = named \/ Cardinality(Others(v, a)) <= 1
      /\ v.status = "active" \/ Cardinality(Others(v, a)) > 1
           => canNominate(v, a, named)
      /\ \/ \E response \in Responses(a) :
              Become(Spoken(a, c, next, response))
         \/ \E t \in Transfers, payload \in Payloads :
              /\ next = named /\ transfers[t].status = "absent"
              /\ Become(startConversationTransfer(
                          Spoken(a, c, next, None), c, t, a, next, payload))

endConversationRequest(a, named) ==
  LET c == findConversationByAgent(world, a, {"active"})
  IN  /\ c # None /\ isMyTurn(world, c, a)
      /\ \E response \in Responses(a) :
           Become(endConversationByAgent(world, c, a, named, response))

stayInConversationRequest(a) ==
  LET c == findConversationByAgent(world, a, {"active"})
  IN  /\ c # None /\ isAskedToStay(world, c, a)
      /\ Become(stayInConversation(world, c, a))

leaveConversationRequest(a) ==
  LET c == findConversationByAgent(world, a, {"active"})
  IN  /\ c # None /\ isAskedToStay(world, c, a)
      /\ Become(leaveConversation(world, c, a))

(***************************************************************************)
(* Timers.                                                                 *)
(***************************************************************************)
acceptTimeout(c) ==
  \E timer \in ConversationTimers(world, c, {"conversation_accept"}) :
    Become(handleAcceptTimeout(world, timer))

intervalElapsed(c) ==
  \E timer \in ConversationTimers(world, c, {"conversation_interval"}) :
    Become(handleConversationInterval(world, timer))

inactiveCheckTimeout(c) ==
  \E timer \in ConversationTimers(world, c, {"conversation_inactive_check"}) :
    Become(handleInactiveCheckTimeout(world, timer))

turnTimeout(c) ==
  \E timer \in ConversationTimers(world, c, {"conversation_turn"}) :
    Become(handleTurnTimeout(world, timer))

transferTimeout(t) ==
  \E timer \in Pending("transfer") :
    /\ timer.about = t
    /\ Become(handleTransferTimeout(world, timer, NoFaults))

(***************************************************************************)
(* Announcements.                                                          *)
(***************************************************************************)
announce(n) ==
  /\ unusedAnnouncement(world, n)
  /\ Become(fireServerAnnouncement(world, n))

\* The next notification to the agent closes its window.
deliverNotification(a) ==
  /\ agents[a].announced
  /\ Become(clearActiveServerAnnouncement(world, a))

AgentNext ==
  \E a \in Agents :
    \/ loginAgent(a) \/ logoutAgent(a) \/ executeWait(a) \/ waitCompleted(a)

InvitationNext ==
  \/ \E a, target \in Agents, c \in Conversations :
       startConversationRequest(a, target, c)
  \/ \E a \in Agents :
       acceptConversationRequest(a) \/ rejectConversationRequest(a)

MemberNext ==
  \E a \in Agents :
    \/ \E c \in Conversations : joinConversationRequest(a, c)
    \/ \E named \in Agents :
         speakInConversation(a, named) \/ endConversationRequest(a, named)
    \/ stayInConversationRequest(a) \/ leaveConversationRequest(a)

TimerNext ==
  \/ \E c \in Conversations :
       \/ acceptTimeout(c) \/ intervalElapsed(c)
       \/ inactiveCheckTimeout(c) \/ turnTimeout(c)
  \/ \E t \in Transfers : transferTimeout(t)

AnnouncementNext ==
  \/ \E n \in Announcements : announce(n)
  \/ \E a \in Agents : deliverNotification(a)

Next ==
  \/ AgentNext \/ InvitationNext \/ MemberNext \/ TimerNext \/ AnnouncementNext

Spec == Init /\ [][Next]_vars

(***************************************************************************)
(* Safety.                                                                 *)
(***************************************************************************)
Running(c) == conversations[c].status \in {"active", "closing"}

\* The three places that say who talks to whom agree, whatever interrupts a
\* join, a leave or an end half-way: an agent is in_conversation exactly when
\* it is a member or a joiner of the one running conversation its record names,
\* nobody is counted twice and no conversation is over-full.
MembershipAgrees ==
  /\ \A a \in Agents :
       LET c == agents[a].current_conversation_id
       IN  /\ agents[a].state = "in_conversation" <=> c # None
           /\ c # None =>
                /\ Running(c)
                /\ a \in Members(conversations[c])
                          \cup ToSet(conversations[c].joiners)
  /\ \A c \in Conversations :
       LET v        == conversations[c]
           everyone == v.participants \o v.joiners
       IN  Running(c) =>
             /\ Len(everyone) = Cardinality(ToSet(everyone))
             /\ Len(everyone) <= MaxParticipants
             /\ \A a \in ToSet(everyone) :
                  agents[a].current_conversation_id = c

\* An invitation is marked at both its agents, and no mark outlives it: else
\* the agent could neither act nor be invited again.
InvitationsAgree ==
  \A a \in Agents, c \in Conversations :
    agents[a].pending_conversation_id = c
      <=> conversations[c].status = "pending" /\ a \in Members(conversations[c])

TimedBy(v, timer) ==
  CASE v.status = "pending" ->
         timer.type = "conversation_accept" /\ timer.agent_ids = Members(v)
    [] v.status # "pending" /\ v.inactive # {} ->
         /\ timer.type = "conversation_inactive_check"
         /\ v.inactive \subseteq timer.agent_ids
    [] OTHER ->
         /\ timer.agent_ids = Members(v)
         /\ \/ /\ timer.type = "conversation_turn"
               /\ timer.about.speaker = v.current_speaker
               /\ v.current_speaker \in Members(v)
            \/ /\ timer.type = "conversation_interval"
               /\ timer.about.turn = v.current_turn

\* A conversation always waits for exactly one thing, and the one timer that
\* ends the wait is about that: the answer, the check, the turn of a member
\* that may take it, or the interval of the last speech.
ConversationsAreTimed ==
  \A c \in Conversations :
    LET own == ConversationTimers(world, c, ConversationTimerTypes)
    IN  IF conversations[c].status = "absent" THEN own = {}
        ELSE \E timer \in own :
               own = {timer} /\ TimedBy(conversations[c], timer)

\* What an invitation, a join or an announcement interrupts is interrupted for
\* good: no timer of an activity goes on beneath a conversation, to make its
\* agent idle in the middle of it, and only idle agents are reminded.
TimersMatchState ==
  \A a \in Agents :
    /\ agents[a].state = "in_action" <=> TimersOf(world, a, {"wait"}) # {}
    /\ TimersOf(world, a, {"idle_reminder"}) # {} => agents[a].state = "idle"

\* An open offer is held by two members of the conversation it was made in,
\* with its timer, and nobody is tied to an offer that is no more: whoever
\* leaves, and however the conversation ends, its offers are settled first.
OffersStayBetweenMembers ==
  /\ \A t \in Transfers : Live(world, t) =>
       LET offer == transfers[t]
           c     == offer.conversation_id
       IN  /\ Running(c)
           /\ {offer.from_agent_id, offer.to_agent_id}
                \subseteq Members(conversations[c])
           /\ agents[offer.from_agent_id].active_transfer_id = t
           /\ agents[offer.to_agent_id].pending_transfer_id = t
           /\ TransferTimer(t, offer) \in timers
  /\ \A a \in Agents :
       {agents[a].active_transfer_id, agents[a].pending_transfer_id}
         \subseteq {None} \cup {t \in Transfers : Live(world, t)}

Owned(a) == IF LoggedIn(world, a) THEN purses[a].money ELSE registrations[a].money

\* An offer moves money and makes none: whether it is answered with a speech, a
\* good-bye or not at all, and whoever leaves, logs out or is called away
\* meanwhile, the agents own together what they began with.
MoneyIsConserved ==
  SumOver(Agents, [a \in Agents |-> Owned(a)])
    + SumOver(Transfers, [t \in Transfers |-> transfers[t].escrow.money])
      = Cardinality(Agents) * InitialMoney

(***************************************************************************)
(* Steps.                                                                  *)
(***************************************************************************)
TurnTimers(c) == ConversationTimers(world, c, {"conversation_turn"})

Gone(c)  == Members(conversations[c]) \ Members(conversations'[c])
Newly(c) == Members(conversations'[c]) \ Members(conversations[c])

\* docs/design/detailed/06-conversation.md: joins take effect at the next turn
\* boundary.  And nobody is shown out of a conversation that goes on: a member
\* goes by logging out, by speaking last, by having fallen silent, or when an
\* announcement calls it away.
MembershipStep ==
  \A c \in Conversations :
    Running(c) /\ conversations'[c].status # "absent" =>
      /\ Newly(c) # {} => /\ conversations[c].status = "active"
                          /\ Newly(c) \subseteq ToSet(conversations[c].joiners)
                          /\ TurnTimers(c) = {}
      /\ \A a \in Gone(c) :
           \/ ~LoggedIn(world, a)' \/ agents[a].announced
           \/ a = conversations[c].current_speaker
           \/ a \in conversations[c].inactive

MembersComeAndGoInTurn == [][MembershipStep]_vars

\* Closing is one-way: a conversation that closes admits nobody, asks nobody
\* to stay and ends.
ClosingStep ==
  \A c \in Conversations :
    conversations[c].status = "closing" =>
      /\ conversations[c].joiners = <<>> /\ conversations[c].inactive = {}
      /\ conversations'[c].status \in {"closing", "absent"}

ClosingIsFinal == [][ClosingStep]_vars

(***************************************************************************)
(* Liveness.  A pending timer fires as long as the process runs: this is   *)
(* weak fairness of the four timer actions, with their guard, that such a  *)
(* timer is pending, in the place of ENABLED, which costs TLC too much.    *)
(***************************************************************************)
Silent(c, type) == ConversationTimers(world, c, {type}) = {}

TimersFire(c) ==
  /\ []<>Silent(c, "conversation_accept") \/ []<><<acceptTimeout(c)>>_vars
  /\ []<>Silent(c, "conversation_interval") \/ []<><<intervalElapsed(c)>>_vars
  /\ []<>Silent(c, "conversation_inactive_check")
       \/ []<><<inactiveCheckTimeout(c)>>_vars
  /\ []<>Silent(c, "conversation_turn") \/ []<><<turnTimeout(c)>>_vars

FairSpec == Spec /\ \A c \in Conversations : TimersFire(c)

\* Every conversation ends, though its members may talk, join, stay, fall
\* silent or log out and in again as they like.
ConversationsEnd ==
  \A c \in Conversations :
    conversations[c].status # "absent" ~> conversations[c].status = "absent"

(***************************************************************************)
(* What the documentation says of conversations.                           *)
(***************************************************************************)

\* docs/design/detailed/06-conversation.md: an announcement's interruption
\* dissolves a pending conversation.
InterruptionDissolvesInvitations ==
  \A a \in Agents :
    agents[a].pending_conversation_id # None =>
      conversations[agents[a].pending_conversation_id].status = "pending"

\* docs/design/detailed/06-conversation.md: a check that is not answered times
\* out, and the members that did not answer have left.
InactiveChecksTimeOut ==
  \A c \in Conversations :
    conversations[c].inactive # {} =>
      ConversationTimers(world, c, {"conversation_inactive_check"}) # {}
=============================================================================
