---------------------------- MODULE ServerEvents ----------------------------
(***************************************************************************)
(* Server events: what the administrator declares to be going on.  The     *)
(* store is in memory; its active events are kept in a file, which is      *)
(* written before anybody is told.  An agent that asks for them is not     *)
(* offered the command again, until they change; its answer is made when   *)
(* it asks and delivered later, in the agent's queue.                      *)
(***************************************************************************)
EXTENDS Null, FiniteSets, Sequences, SequencesExt

CONSTANTS
  ServerEventIds,      \* ids of events, each given once
  AskingAgents,        \* agents that may ask for the events
  MaxRestarts,         \* bound: restarts of the server
  MaxDeliveries        \* bound: answers under way to an agent

ASSUME EventStatesAssumption ==
  None \notin {"active", "cleared"} /\ MaxDeliveries \in Nat

VARIABLES
  events,              \* the store: "active" or "cleared", or None
  eventsFile,          \* server-events.json: the ids in it
  asked,               \* the agents whose get_event is excluded
  deliveries,          \* agentMessageDeliveries: the answers under way
  toldEvents,          \* history: the events an agent was told of last
  missed,              \* history: the agents whose last answer was not delivered
  restarts

answerVars == <<deliveries, toldEvents, missed>>
serverEventVars == <<events, eventsFile, asked, answerVars, restarts>>

InitServerEvents ==
  /\ events = [e \in ServerEventIds |-> None]
  /\ eventsFile = {}
  /\ asked = {}
  /\ deliveries = [a \in AskingAgents |-> <<>>]
  /\ toldEvents = [a \in AskingAgents |-> {}]
  /\ missed = {}
  /\ restarts = 0

listActive(stored) == {e \in ServerEventIds : stored[e] = "active"}
serializeForPersistence(stored) == listActive(stored)
createdIn(stored, e) == [stored EXCEPT ![e] = "active"]
clearedIn(stored, e) == [stored EXCEPT ![e] = "cleared"]

\* The store may be gone when its file is: it holds what is in the file.
restoreFromSnapshot(ids) == [e \in ServerEventIds |-> IF e \in ids THEN "active" ELSE None]

\* Slip: agents that know the events before are not offered the command.
clearingNobodysCommand(stored) ==
  \/ /\ events' = stored
     /\ eventsFile' = serializeForPersistence(stored)
     /\ UNCHANGED asked
  \/ UNCHANGED <<events, eventsFile, asked>>

\* Written to another file first, which then takes its place; when that fails
\* the events are as before, and nobody is told.
persisted(stored) ==
  \/ /\ events' = stored
     /\ eventsFile' = serializeForPersistence(stored)
     /\ asked' = {}
  \/ UNCHANGED <<events, eventsFile, asked>>

createServerEvent(e) ==
  /\ events[e] = None
  /\ persisted(createdIn(events, e))
  /\ UNCHANGED <<answerVars, restarts>>

clearServerEvent(e) ==
  /\ events[e] = "active"
  /\ persisted(clearedIn(events, e))
  /\ UNCHANGED <<answerVars, restarts>>

\* emitInfoRequest('get_event'): the handler of its event makes the text at once
\* and leaves it to the agent's queue.
requestServerEvents(a) ==
  /\ a \notin asked /\ Len(deliveries[a]) < MaxDeliveries
  /\ asked' = asked \cup {a}
  /\ deliveries' = [deliveries EXCEPT ![a] = Append(@, listActive(events))]
  /\ UNCHANGED <<events, eventsFile, toldEvents, missed, restarts>>

answerIsDelivered(a) ==
  /\ deliveries[a] # <<>>
  /\ deliveries' = [deliveries EXCEPT ![a] = Tail(@)]
  /\ toldEvents' = [toldEvents EXCEPT ![a] = Head(deliveries[a])]
  /\ missed' = missed \ {a}
  /\ UNCHANGED <<events, eventsFile, asked, restarts>>

\* Discord's call fails, or the agent is gone by then: the next answer goes
\* ahead, and the command stays excluded.
answerIsLost(a) ==
  /\ deliveries[a] # <<>>
  /\ deliveries' = [deliveries EXCEPT ![a] = Tail(@)]
  /\ missed' = missed \cup {a}
  /\ UNCHANGED <<events, eventsFile, asked, toldEvents, restarts>>

\* An activity that begins or ends offers all commands again, as a login does.
commandsAreOfferedAgain(a) ==
  /\ a \in asked
  /\ asked' = asked \ {a}
  /\ UNCHANGED <<events, eventsFile, answerVars, restarts>>

\* The process may end between any two steps, and no agent is logged in then.
ServerRestarts ==
  /\ restarts < MaxRestarts
  /\ restarts' = restarts + 1
  /\ events' = restoreFromSnapshot(eventsFile)
  /\ asked' = {} /\ missed' = {}
  /\ deliveries' = [a \in AskingAgents |-> <<>>]
  /\ UNCHANGED <<eventsFile, toldEvents>>

ServerEventsNext ==
  \/ \E e \in ServerEventIds : createServerEvent(e) \/ clearServerEvent(e)
  \/ \E a \in AskingAgents :
       \/ requestServerEvents(a) \/ answerIsDelivered(a) \/ answerIsLost(a)
       \/ commandsAreOfferedAgain(a)
  \/ ServerRestarts

ServerEventsSpec == InitServerEvents /\ [][ServerEventsNext]_serverEventVars

(***************************************************************************)
(* Safety.                                                                 *)
(***************************************************************************)
\* What goes on survives the process: the file holds the active events, no more
\* and no less, whatever writes failed and however often it was restarted.
FileHoldsTheActive == eventsFile = listActive(events)

\* An agent is not offered get_event only as long as the last answer on its way
\* to it, or the last one it was given, tells it what goes on; or that answer
\* was lost on the way, after which it is told nothing and may not ask again.
AskedAgentsAreUpToDate ==
  \A a \in asked :
    IF deliveries[a] # <<>> THEN Last(deliveries[a]) = listActive(events)
    ELSE a \in missed \/ toldEvents[a] = listActive(events)
============================================================================
