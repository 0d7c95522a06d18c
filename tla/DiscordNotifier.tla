-------------------------- MODULE DiscordNotifier --------------------------
(***************************************************************************)
(* The event handler between the engine, whose events come one after the   *)
(* other, and Discord, whose calls end in any order and may fail.          *)
(***************************************************************************)
EXTENDS DiscordEventHandler

CONSTANT
  DiscordBudgets       \* bounds, of which a behaviour has one: events of single
                       \* agents, events of the conversation, calls and writes
                       \* that fail

VARIABLES
  world,               \* what the handlers read of the engine
  desk,                \* the handler's maps and the calls that are under way
  posts,               \* what was posted about the conversation, and where
  unsaved,             \* agents whose logout ended the conversation and could not
                       \* be written back, and that have not logged out since
  discordLeft          \* what is left of the budget

notifierVars == <<world, desk, posts, unsaved, discordLeft>>

\* Agents have logged in and were told so; nothing is under way.
InitNotifier ==
  /\ world = [emptyWorld EXCEPT !.people = [a \in NotifiedAgents |-> [@[a] EXCEPT !.in = TRUE]]]
  /\ desk = newDesk
  /\ posts = <<>>
  /\ unsaved = {}
  /\ discordLeft \in DiscordBudgets

Present == {a \in NotifiedAgents : world.people[a].in}
Members == ToSet(world.members)
Pairs == {p \in Present \X Present : p[1] # p[2]}

(***************************************************************************)
(* Events of the engine.                                                   *)
(***************************************************************************)
Handled(w, d) == world' = w /\ desk' = d /\ UNCHANGED <<posts, unsaved>>

\* An event of single agents; the engine has changed the world before.
Noticed(w, steps) ==
  /\ discordLeft.notices > 0
  /\ discordLeft' = [discordLeft EXCEPT !.notices = @ - 1]
  /\ Handled(w, performed(desk, w, steps))

AgentLogsIn ==
  \E a \in NotifiedAgents \ Present :
    LET w == [world EXCEPT !.people[a] = [in |-> TRUE, window |-> FALSE, rejected |-> None]]
    IN  Noticed(w, handleAgentLoggedIn(a))

AgentIsTold ==
  \E a \in Present :
    \E steps \in
      { handleMovementCompleted(a), handleActionCompleted(a), handleWaitCompleted(a),
        handleItemUseCompleted(a), handleItemUseVenueRejected(a), handleIdleReminder(a),
        handleConversationRequested(a), handleConversationRejected(a),
        handleConversationPendingJoinCancelled(a), handleTransferEscrowLost(a),
        handleMapInfoRequested(a), handleWorldAgentsInfoRequested(a),
        handleStatusInfoRequested(a), handleNearbyAgentsInfoRequested(a),
        handleActiveConversationsInfoRequested(a), handleServerEventsInfoRequested(a),
        handlePerceptionRequested(a), handleAvailableActionsRequested(a) } :
      Noticed(world, steps)

\* A rejected request uses the window up, after its event.
ActionIsRejected ==
  \E a \in Present, x \in RejectedActions :
    LET w == [world EXCEPT !.people[a].rejected = x]
    IN  Noticed([w EXCEPT !.people[a].window = FALSE], handleActionRejected(a))

AnnouncementFires ==
  \E p \in Pairs \cup {<<a>> : a \in Present} :
    LET opened == [a \in NotifiedAgents |->
                     [world.people[a] EXCEPT !.window = @ \/ a \in ToSet(p)]]
    IN  Noticed([world EXCEPT !.people = opened], handleServerAnnouncementFired(p))

TransferIsTold ==
  \E p \in Pairs :
    \E steps \in
      { handleTransferRequested(p[1], p[2]), handleTransferAccepted(p[1], p[2]),
        handleTransferRejected(p[1], p[2]), handleTransferTimeout(p[1], p[2]),
        handleTransferCancelled(p[1], p[2]) } :
      Noticed(world, steps)

(***************************************************************************)
(* Events of the conversation.                                             *)
(***************************************************************************)
Talks(w, d) ==
  /\ discordLeft.talks > 0
  /\ discordLeft' = [discordLeft EXCEPT !.talks = @ - 1]
  /\ Handled(w, d)

ConversationIsAccepted ==
  /\ world.phase = "none"
  /\ \E p \in Pairs :
       LET w == [world EXCEPT !.phase = "open", !.members = p]
       IN  Talks(w, handleConversationAccepted(desk, w, p[1]))

Open == world.phase = "open"

ParticipantSpeaks == Open /\ Talks(world, enqueueConversationLog(desk, "message"))

\* The handler that schedules the next turn may have told of it just before.
IntervalIsOver ==
  /\ Open
  /\ \E speaker \in Members :
       \/ Talks(world, handleConversationInterval(desk, world, speaker, FALSE))
       \/ /\ Len(world.members) = 2
          /\ \E next \in Members \ {speaker} :
               Talks(world, handleConversationInterval(
                 handleConversationTurnStarted(desk, next), world, speaker, TRUE))

TurnStarts ==
  Open /\ \E a \in Members : Talks(world, handleConversationTurnStarted(desk, a))

MembersAreAsked ==
  /\ Open
  /\ \/ Talks(world, performed(desk, world, handleConversationInactiveCheck(world.members)))
     \/ \E a \in Members : Talks(world, performed(desk, world, handleConversationClosing(a)))

\* A transfer settled in the conversation; a cancelled one is told to both.
OutcomeIsCached ==
  /\ Open
  /\ \E told \in (SUBSET Members) \ {{}} :
       /\ Cardinality(told) <= 2 /\ ~(told \subseteq desk.annotations)
       /\ Talks(world, [desk EXCEPT !.annotations = @ \cup told])

AgentJoins ==
  /\ Open
  /\ \E a \in Present \ Members :
       LET w == [world EXCEPT !.members = Append(@, a)]
       IN  Talks(w, handleConversationJoin(desk, w, a))

\* When nobody is left to talk to, the conversation ends with the last leave.
AgentLeaves ==
  /\ Open
  /\ \E a \in Members :
       LET rest == Others(world.members, a)
           w == [world EXCEPT !.members = rest]
           left == handleConversationLeave(desk, w, a)
       IN  IF Len(rest) > 1 THEN Talks(w, left)
           ELSE Talks([world EXCEPT !.members = <<>>, !.phase = "closed"],
                      handleConversationEnded(left, w, rest, None, FALSE))

ConversationEnds ==
  /\ Open
  /\ \E speaker \in Members \cup {None} :
       LET w == [world EXCEPT !.members = <<>>, !.phase = "closed"]
       IN  Talks(w, handleConversationEnded(desk, w, world.members, speaker, FALSE))

\* The next speaker has the turn, or says good-bye as an announcement ends it.
floorPasses(d, w, next) ==
  {handleConversationTurnStarted(d, next), performed(d, w, handleConversationClosing(next))}

\* A logout leaves the conversation, or ends it when only one would remain; a
\* message that waits for its interval is delivered first, and the floor passes
\* on unless an inactive check goes on.  The agent is still logged in.
forceEndConversation(a) ==
  LET rest == Others(world.members, a)
      w == [world EXCEPT !.members = rest]
      closed == [world EXCEPT !.members = <<>>, !.phase = "closed"]
      left == handleConversationLeave(desk, w, a)
      told(next) == handleConversationIntervalInterrupted(left, w, rest, next)
      goesOn(next) == floorPasses(left, w, next) \cup floorPasses(told(next), w, next)
  IN  IF a \notin Members THEN {[world |-> world, desk |-> desk, ended |-> FALSE]}
      ELSE IF Len(rest) > 1
      THEN {[world |-> w, desk |-> d, ended |-> FALSE] :
              d \in {left} \cup UNION {goesOn(next) : next \in ToSet(rest)}}
      ELSE {[world |-> closed, ended |-> TRUE,
             desk |-> handleConversationEnded(desk, closed, world.members, speaker, TRUE)] :
              speaker \in Members \cup {None}}

\* Between the events of the conversation and that of the logout the agent is
\* written back: when that throws, it stays logged in and says no goodbye.
AgentLogsOut ==
  /\ discordLeft.talks > 0
  /\ \E a \in Present : \E left \in forceEndConversation(a) :
       \/ /\ world' = [left.world EXCEPT !.people[a] =
                        [in |-> FALSE, window |-> FALSE, rejected |-> None]]
          /\ desk' = handleAgentLoggedOut(left.desk, a)
          /\ unsaved' = unsaved \ {a}
          /\ discordLeft' = [discordLeft EXCEPT !.talks = @ - 1]
       \/ /\ discordLeft.faults > 0
          /\ world' = left.world
          /\ desk' = left.desk
          /\ unsaved' = IF left.ended THEN unsaved \cup {a} ELSE unsaved
          /\ discordLeft' = [discordLeft EXCEPT !.talks = @ - 1, !.faults = @ - 1]
  /\ UNCHANGED posts

(***************************************************************************)
(* Discord answers.                                                        *)
(***************************************************************************)
Answered(ok) ==
  discordLeft' = IF ok THEN discordLeft ELSE [discordLeft EXCEPT !.faults = @ - 1]

Outcomes == IF discordLeft.faults > 0 THEN BOOLEAN ELSE {TRUE}

DeliveryEnds ==
  \E a \in NotifiedAgents, ok \in Outcomes, listed \in BOOLEAN :
    /\ desk.queues[a] # <<>> /\ a \in Present
    /\ world' = [world EXCEPT !.people[a] = sent(@, Head(desk.queues[a]), ok, listed)]
    /\ desk' = delivered(desk, world', a, ok)
    /\ Answered(ok)
    /\ UNCHANGED <<posts, unsaved>>

\* Nobody to deliver to, or an invitation the reminder would interfere with.
DeliveryIsSkipped ==
  \E a \in NotifiedAgents :
    /\ desk.queues[a] # <<>>
    /\ a \notin Present \/ Head(desk.queues[a]).optional
    /\ Handled(world, delivered(desk, world, a, TRUE))
    /\ UNCHANGED discordLeft

\* A thread that could not be made: the start is posted without one.
ThreadIsMade ==
  /\ \E s \in desk.sends, ok \in Outcomes :
       /\ s.call = "thread"
       /\ Handled(world, [desk EXCEPT !.sends = @ \ {s},
                                      !.thread = IF ok THEN "made" ELSE "failed"])
       /\ Answered(ok)

GoodbyeEnds ==
  \E s \in desk.sends, ok \in Outcomes :
    /\ s.call = "goodbye"
    /\ Handled(world, goodbyeEnds(desk, world, s.of, ok))
    /\ Answered(ok)

\* A failed renaming is only warned of.
HandlerGoesOn ==
  \E s \in desk.sends :
    /\ s.call = "yield" \/ (s.call = "rename" /\ desk.thread # "creating")
    /\ Handled(world, performed([desk EXCEPT !.sends = @ \ {s}], world, s.rest))
    /\ UNCHANGED discordLeft

Posting == desk.log # <<>> /\ (Head(desk.log).known => desk.thread # "creating")
ToThread == Head(desk.log).known /\ Head(desk.log).what # "logout" /\ desk.thread = "made"

\* The first of the log is posted to its thread, where the end is followed by
\* the archive; to the world log when there is none, or the thread fails; or
\* nowhere.
LogIsPosted ==
  /\ Posting /\ ~Head(desk.log).archiving
  /\ LET what == Head(desk.log).what
     IN  \/ /\ ToThread
            /\ posts' = Append(posts, [what |-> what, where |-> "thread"])
            /\ desk' = IF what = "end" THEN [desk EXCEPT !.log[1].archiving = TRUE]
                       ELSE [desk EXCEPT !.log = Tail(@)]
            /\ UNCHANGED discordLeft
         \/ /\ desk' = [desk EXCEPT !.log = Tail(@)]
            /\ \/ ToThread /\ FALSE \in Outcomes /\ Answered(FALSE)
               \/ ~ToThread /\ UNCHANGED discordLeft
            /\ posts' = Append(posts, [what |-> what, where |-> "world-log"])
         \/ /\ desk' = [desk EXCEPT !.log = Tail(@)]
            /\ FALSE \in Outcomes /\ Answered(FALSE)
            /\ UNCHANGED posts
  /\ UNCHANGED <<world, unsaved>>

ThreadIsArchived ==
  /\ desk.log # <<>> /\ Head(desk.log).archiving
  /\ \E ok \in Outcomes :
       /\ Answered(ok)
       /\ posts' = IF ok THEN Append(posts, [what |-> "archive", where |-> "thread"]) ELSE posts
  /\ desk' = [desk EXCEPT !.log = Tail(@)]
  /\ UNCHANGED <<world, unsaved>>

NotifierNext ==
  \/ AgentLogsIn \/ AgentIsTold \/ ActionIsRejected \/ AnnouncementFires \/ TransferIsTold
  \/ ConversationIsAccepted \/ ParticipantSpeaks \/ IntervalIsOver \/ TurnStarts
  \/ MembersAreAsked \/ OutcomeIsCached \/ AgentJoins \/ AgentLeaves \/ ConversationEnds
  \/ AgentLogsOut
  \/ DeliveryEnds \/ DeliveryIsSkipped \/ ThreadIsMade \/ GoodbyeEnds \/ HandlerGoesOn
  \/ LogIsPosted \/ ThreadIsArchived

NotifierSpec == InitNotifier /\ [][NotifierNext]_notifierVars

(***************************************************************************)
(* Safety.                                                                 *)
(***************************************************************************)
\* Whatever handlers are still awaiting, nothing is posted to the thread once
\* it is archived, and no message of the conversation after its end.
LogEndsWithTheEnd ==
  \A i, j \in DOMAIN posts : i < j =>
    /\ posts[i].what = "archive" => posts[j].where = "world-log"
    /\ posts[i].what = "end" => posts[j].what # "message"

\* A conversation that a logout ended is remembered while the handler of a
\* member's logout is still to take it, so that a later logout is not told of it;
\* or because that logout could not be written back and has not been repeated.
ForcedEndsAreConsumed ==
  desk.forced # <<>> =>
    \/ \E s \in desk.sends : s.call = "goodbye" /\ s.of \in ToSet(desk.forced)
    \/ ToSet(desk.forced) \cap unsaved # {}

\* The choices go on without the action rejected last until a message without
\* it was delivered, also when another was rejected while one was on its way.
RejectionIsKeptUntilShown ==
  [][\A a \in NotifiedAgents :
       LET then == world.people[a].rejected
       IN  then # None /\ world'.people[a].in /\ world'.people[a].rejected = None =>
             desk.queues[a] # <<>> /\ Head(desk.queues[a]).hides = then]_notifierVars
============================================================================
