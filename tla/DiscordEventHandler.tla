------------------------ MODULE DiscordEventHandler ------------------------
(***************************************************************************)
(* discord/event-handler: what the handler of each event sends.            *)
(*                                                                         *)
(* A handler is an async function; what it still has to do is a sequence   *)
(* of steps, kept with the call it awaits.  Notifications of an agent wait *)
(* for one another in its queue, posts about a conversation in its log;    *)
(* a step is taken, up to the call it awaits, by perform(desk, world,      *)
(* steps).  World-log posts that end a handler change nothing and are left *)
(* out, as are the texts.  One conversation is followed; last_used_item_id *)
(* is treated as last_rejected_action_id is, and left out.                 *)
(***************************************************************************)
EXTENDS Null, Sequences, SequencesExt, FiniteSets

CONSTANTS
  NotifiedAgents,      \* agents with a channel
  RejectedActions      \* actions the server may reject

ASSUME DiscordAssumption == None \notin NotifiedAgents \cup RejectedActions

(***************************************************************************)
(* The world the handlers read: who is logged in, has an announcement's    *)
(* window open, had which action rejected last; and the conversation.      *)
(***************************************************************************)
emptyWorld ==
  [people |-> [a \in NotifiedAgents |-> [in |-> FALSE, window |-> FALSE, rejected |-> None]],
   phase |-> "none", members |-> <<>>]

\* conversationThreads has an entry (known) and its promise is pending
\* (creating), fulfilled (made) or stands for no thread (failed).
newDesk ==
  [queues |-> [a \in NotifiedAgents |-> <<>>], log |-> <<>>, sends |-> {},
   thread |-> "none", known |-> FALSE, forced |-> <<>>, annotations |-> {}]

(***************************************************************************)
(* Steps.  A notification is sent as it is (built), closes the window      *)
(* (clearing), or does so when the window is open as it is queued          *)
(* (followUp).  prompt: it lists choices; caught: its failure is.          *)
(***************************************************************************)
Notify(a, style, prompt) ==
  [do |-> "notify", to |-> a, style |-> style, prompt |-> prompt, caught |-> FALSE]

Step(do, a) == [Notify(a, "followUp", FALSE) EXCEPT !.do = do]
Caught(step) == [step EXCEPT !.caught = TRUE]
sendConversationFollowUp(a) == Notify(a, "followUp", FALSE)
ForEach(agents, Op(_)) == [i \in DOMAIN agents |-> Op(agents[i])]
\* The others of some agents that are all different.
Others(agents, a) == RemoveFirst(agents, a)

(***************************************************************************)
(* The queues and the log.                                                 *)
(***************************************************************************)
captureChoicesPromptSuppressions(w, step) ==
  IF step.prompt THEN w.people[step.to].rejected ELSE None

enqueueAgentMessageDelivery(d, w, step, rest) ==
  [d EXCEPT !.queues[step.to] = Append(@,
    [clears |-> \/ step.style \in {"clearing", "reminder"}
                \/ step.style = "followUp" /\ w.people[step.to].window,
     optional |-> step.style = "reminder",
     hides |-> captureChoicesPromptSuppressions(w, step),
     caught |-> step.caught, rest |-> rest])]

enqueueConversationLog(d, what) ==
  [d EXCEPT !.log = Append(@, [what |-> what, known |-> d.known, archiving |-> FALSE])]

sendLogoutWorldLog(d) == enqueueConversationLog(d, "logout")
postConversationSystemMessage(d) == enqueueConversationLog(d, "leave")

\* Slip: the conversation keeps its thread.
finalizeKeepingThread(d) == enqueueConversationLog(d, "end")

finalizeConversationThread(d) ==
  [enqueueConversationLog(d, "end") EXCEPT !.known = FALSE]

consumeInConversationTransferAnnotation(d, a) == [d EXCEPT !.annotations = @ \ {a}]

\* What a handler does next; a turn prompt goes to a member only.
performed(d, w, steps) ==
  LET step == Head(steps)
      notified(desk) == enqueueAgentMessageDelivery(desk, w, step, Tail(steps))
      told == notified(consumeInConversationTransferAnnotation(d, step.to))
  IN  CASE steps = <<>> -> d
        [] steps # <<>> /\ step.do = "notify" -> notified(d)
        [] steps # <<>> /\ step.do = "message" -> told
        [] steps # <<>> /\ step.do = "turn" -> IF step.to \in ToSet(w.members) THEN told ELSE d
        [] steps # <<>> /\ step.do = "leave" -> postConversationSystemMessage(d)
        [] steps # <<>> /\ step.do = "finalize" -> finalizeConversationThread(d)
        [] steps # <<>> /\ step.do = "logout" -> sendLogoutWorldLog(d)

\* The partners of a conversation the logout of agent a has ended.
consumeForcedConversationPartners(d, a) ==
  IF a \in ToSet(d.forced) THEN Others(d.forced, a) ELSE <<>>

\* handleAgentLoggedOut goes on when the goodbye was sent or failed.
afterGoodbye(d, w, a) ==
  IF a \in ToSet(d.forced)
  THEN performed([d EXCEPT !.forced = <<>>], w,
         ForEach(consumeForcedConversationPartners(d, a), LAMBDA b : Notify(b, "followUp", TRUE))
           \o <<Step("logout", a)>>)
  ELSE d

(***************************************************************************)
(* What the handlers send.                                                 *)
(***************************************************************************)
handleAgentLoggedIn(a) == <<Notify(a, "built", TRUE)>>
handleMovementCompleted(a) == <<Notify(a, "clearing", TRUE)>>
handleActionCompleted(a) == <<Notify(a, "clearing", TRUE)>>
handleActionRejected(a) == <<Notify(a, "clearing", TRUE)>>
handleWaitCompleted(a) == <<Notify(a, "clearing", TRUE)>>
handleItemUseCompleted(a) == <<Notify(a, "clearing", TRUE)>>
handleItemUseVenueRejected(a) == <<Notify(a, "clearing", TRUE)>>
handleIdleReminder(a) == <<Notify(a, "reminder", TRUE)>>
handleConversationClosing(a) == <<Notify(a, "clearing", FALSE)>>
handleConversationRequested(a) == <<sendConversationFollowUp(a)>>
handleConversationRejected(a) == <<Notify(a, "followUp", TRUE)>>
handleConversationPendingJoinCancelled(a) == <<Notify(a, "followUp", TRUE)>>
handleConversationInactiveCheck(targets) == ForEach(targets, sendConversationFollowUp)
handleServerAnnouncementFired(agents) == ForEach(agents, LAMBDA a : Notify(a, "built", TRUE))
handleMapInfoRequested(a) == <<Notify(a, "built", TRUE)>>
handleWorldAgentsInfoRequested(a) == <<Notify(a, "built", TRUE)>>
handleStatusInfoRequested(a) == <<Notify(a, "built", TRUE)>>
handleNearbyAgentsInfoRequested(a) == <<Notify(a, "built", TRUE)>>
handleActiveConversationsInfoRequested(a) == <<Notify(a, "built", TRUE)>>
handleServerEventsInfoRequested(a) == <<Notify(a, "built", TRUE)>>
handlePerceptionRequested(a) == <<Notify(a, "built", TRUE)>>
handleAvailableActionsRequested(a) == <<Notify(a, "built", TRUE)>>

\* Transfers outside a conversation; inside one they are told with its messages.
handleTransferRequested(from, to) ==
  <<Caught(sendConversationFollowUp(from)), Caught(sendConversationFollowUp(to))>>
sendStandaloneTransferSettlementPrompt(a) == Caught(Notify(a, "clearing", TRUE))
SettlementPrompts(from, to) ==
  <<sendStandaloneTransferSettlementPrompt(from), sendStandaloneTransferSettlementPrompt(to)>>
handleTransferAccepted(from, to) == SettlementPrompts(from, to)
handleTransferRejected(from, to) == SettlementPrompts(from, to)
handleTransferTimeout(from, to) == SettlementPrompts(from, to)
handleTransferCancelled(from, to) == SettlementPrompts(from, to)
handleTransferEscrowLost(from) == <<Caught(sendConversationFollowUp(from))>>

(***************************************************************************)
(* The conversation.                                                       *)
(***************************************************************************)
handleConversationAccepted(d, w, initiator) ==
  performed([d EXCEPT !.sends = @ \cup {[call |-> "thread", rest |-> <<>>, of |-> initiator]},
                      !.thread = "creating", !.known = TRUE],
            w, <<sendConversationFollowUp(initiator)>>)

\* A closing message was answered already: it is delivered as it is.
handleConversationInterval(d, w, speaker, delivered) ==
  performed(d, w, ForEach(Others(w.members, speaker), LAMBDA a :
                    IF delivered THEN sendConversationFollowUp(a) ELSE Step("message", a)))

\* The next speaker first.
handleConversationIntervalInterrupted(d, w, listeners, next) ==
  performed(d, w, (IF next \in ToSet(listeners) THEN <<sendConversationFollowUp(next)>> ELSE <<>>)
                    \o ForEach(Others(listeners, next), LAMBDA a : Step("message", a)))

\* Yields first, for the message of the speaker before to be queued.
handleConversationTurnStarted(d, a) ==
  [d EXCEPT !.sends = @ \cup {[call |-> "yield", rest |-> <<Step("turn", a)>>, of |-> a]}]

\* Awaits the thread and the renaming, if there is one to do, but not the log.
renameConversationThread(d, w, a, rest) ==
  [d EXCEPT !.sends = @ \cup
     {[call |-> IF Len(w.members) < 2 \/ ~d.known THEN "yield" ELSE "rename",
       rest |-> rest, of |-> a]}]

handleConversationJoin(d, w, a) == renameConversationThread(d, w, a, <<>>)
handleConversationLeave(d, w, a) == renameConversationThread(d, w, a, <<Step("leave", a)>>)

FinalMessages(members, speaker) ==
  IF speaker = None THEN <<>> ELSE ForEach(Others(members, speaker), sendConversationFollowUp)

handleConversationEnded(d, w, members, speaker, forced) ==
  performed(IF forced THEN [d EXCEPT !.forced = members] ELSE d, w,
    FinalMessages(members, speaker)
      \o (IF forced THEN <<>> ELSE ForEach(members, LAMBDA a : Notify(a, "followUp", TRUE)))
      \o <<Step("finalize", None)>>)

handleAgentLoggedOut(d, a) ==
  [d EXCEPT !.sends = @ \cup {[call |-> "goodbye", rest |-> <<>>, of |-> a]}]

(***************************************************************************)
(* Deliveries.                                                             *)
(***************************************************************************)
\* Slip: whatever was rejected last is forgotten.
clearAnyRejectedAction(person, hidden) == [person EXCEPT !.rejected = None]

clearChoicesPromptSuppressionsIfCurrent(person, hidden) ==
  IF person.rejected = hidden THEN [person EXCEPT !.rejected = None] ELSE person

\* The choices left out the captured action only if they would have listed it.
\* The window closes also when the delivery failed.
sent(person, task, delivered, listed) ==
  LET closed == IF task.clears THEN [person EXCEPT !.window = FALSE] ELSE person
  IN  IF delivered /\ listed /\ task.hides # None
      THEN clearChoicesPromptSuppressionsIfCurrent(closed, task.hides) ELSE closed

\* The next delivery goes ahead whatever became of this one; the handler that
\* awaits it throws, unless it catches the failure.
delivered(d, w, a, ok) ==
  LET task == Head(d.queues[a])
      freed == [d EXCEPT !.queues[a] = Tail(@)]
  IN  IF ok \/ task.caught THEN performed(freed, w, task.rest) ELSE freed

\* Slip: a goodbye that fails ends the handler of the logout.
goodbyeThrows(d, w, a, ok) ==
  LET gone == [d EXCEPT !.sends = {s \in @ : s.call # "goodbye" \/ s.of # a}]
  IN  IF ok THEN afterGoodbye(gone, w, a) ELSE gone

goodbyeEnds(d, w, a, ok) ==
  afterGoodbye([d EXCEPT !.sends = {s \in @ : s.call # "goodbye" \/ s.of # a}], w, a)
============================================================================
