---------------------------- MODULE WorldEngine ----------------------------
(***************************************************************************)
(* engine/world-engine.ts: the commands, timers and agent lifecycle of the *)
(* world, composed from the domain modules.  One action per WorldEngine    *)
(* method, timer handler or step of an asynchronous method.                *)
(*                                                                         *)
(* A command first validates, then runs the announcement interruption,     *)
(* then executes.  Any disk write whose kind is in FailingWrites may throw.*)
(***************************************************************************)
EXTENDS ServerAnnouncements

CONSTANTS
  Payloads,       \* what one offer may hand over
  FailingWrites   \* the kinds of disk write that may throw

WriteKinds ==
  {"debit", "credit", "refund", "recover", "writeback", "activity"}

ASSUME EngineAssumption ==
  /\ Payloads \subseteq Purse \ {Nothing}
  /\ FailingWrites \subseteq WriteKinds

VARIABLES
  agents,         \* AgentStateStore: the logged-in agents
  purses,         \* their money and items
  transfers,      \* TransferStateStore
  announcements,  \* ServerAnnouncementStateStore: the agents still waited for
  timers,         \* TimerManager: the pending timers
  registrations,  \* the registered agents, as on disk
  loggingIn       \* loggingInAgentIds

vars == <<agents, purses, transfers, announcements, timers, registrations,
          loggingIn>>

world == [ agents |-> agents, purses |-> purses, transfers |-> transfers,
       announcements |-> announcements, timers |-> timers,
       registrations |-> registrations ]

Become(next) ==
  /\ agents' = next.agents
  /\ purses' = next.purses
  /\ transfers' = next.transfers
  /\ announcements' = next.announcements
  /\ timers' = next.timers
  /\ registrations' = next.registrations

\* The sets of writes that may throw in a call that makes the writes in Points.
FaultSets(Points) == SUBSET {p \in Points : p[1] \in FailingWrites}

\* The writes of an interruption: the refund of the offer it cancels.
InterruptionWrites(a) == {"refund"} \X ({OwnTransfer(world, a)} \ {None})

Interrupted(a, faults) == handleServerAnnouncementInterruption(world, a, faults)

Init ==
  /\ agents = EmptyWorld.agents
  /\ purses = EmptyWorld.purses
  /\ transfers = EmptyWorld.transfers
  /\ announcements = EmptyWorld.announcements
  /\ timers = EmptyWorld.timers
  /\ registrations = EmptyWorld.registrations
  /\ loggingIn = {}

(***************************************************************************)
(* Agent lifecycle.                                                        *)
(***************************************************************************)
registerAgent(a) ==
  /\ ~Registered(world, a)
  /\ registrations' =
       [registrations EXCEPT ![a] = [money |-> InitialMoney, items |-> 0]]
  /\ UNCHANGED <<agents, purses, transfers, announcements, timers, loggingIn>>

\* Slip: an agent is deleted while it logs in.
deleteAgentLoggingIn(a) ==
  /\ Registered(world, a) /\ ~LoggedIn(world, a)
  /\ registrations' = [registrations EXCEPT ![a] = None]
  /\ UNCHANGED <<agents, purses, transfers, announcements, timers, loggingIn>>

deleteAgent(a) ==
  /\ Registered(world, a) /\ a \notin loggingIn /\ ~LoggedIn(world, a)
  /\ registrations' = [registrations EXCEPT ![a] = None]
  /\ UNCHANGED <<agents, purses, transfers, announcements, timers, loggingIn>>

\* loginAgent up to the await of the agent's Discord channel.
loginAgent(a) ==
  /\ Registered(world, a) /\ a \notin loggingIn /\ ~LoggedIn(world, a)
  /\ loggingIn' = loggingIn \cup {a}
  /\ UNCHANGED <<agents, purses, transfers, announcements, timers,
                 registrations>>

\* loginAgent from there on, with the registration as it is by then.
completeLogin(a) ==
  /\ a \in loggingIn
  /\ Become(startIdleReminder(login(world, a), a))
  /\ loggingIn' = loggingIn \ {a}

\* The Discord channel cannot be had.
failLogin(a) ==
  /\ a \in loggingIn
  /\ loggingIn' = loggingIn \ {a}
  /\ UNCHANGED <<agents, purses, transfers, announcements, timers,
                 registrations>>

LogoutWrites(a) ==
  {<<"writeback", a>>} \cup InterruptionWrites(a) \cup
    {<<"recover", t>> : t \in {u \in Transfers : transfers[u].from_agent_id = a}}

\* A writeback that throws leaves the agent logged in, its offer settled.
logoutAgent(a) ==
  /\ LoggedIn(world, a) /\ a \notin loggingIn
  /\ \E faults \in FaultSets(LogoutWrites(a)) :
       LET settled   == cancelPendingTransfersForAgent(world, a, faults)
           recovered == recoverRefundFailedTransfersForAgent(
                          persistLoggedInAgentState(settled, a), a, faults)
       IN  Become(IF <<"writeback", a>> \in faults THEN settled
                  ELSE logout(cleanupServerAnnouncementsForAgent(
                                cancelByAgent(recovered, a), a), a))
  /\ UNCHANGED loggingIn

\* The process ends, by a crash or by dispose, and starts again: what is in
\* memory only is lost, the open offers included.
restart ==
  /\ Become([EmptyWorld EXCEPT !.registrations = registrations])
  /\ loggingIn' = {}

(***************************************************************************)
(* Commands of a logged-in agent.                                          *)
(***************************************************************************)
move(a) ==
  /\ requireActionableAgent(world, a)
  /\ \E faults \in FaultSets(InterruptionWrites(a)) :
       Become(executeValidatedMove(Interrupted(a, faults), a))
  /\ UNCHANGED loggingIn

executeWait(a) ==
  /\ requireActionableAgent(world, a)
  /\ \E faults \in FaultSets(InterruptionWrites(a)) :
       Become(executeValidatedWait(Interrupted(a, faults), a))
  /\ UNCHANGED loggingIn

executeAction(a, x) ==
  /\ requireActionableAgent(world, a) /\ isActionAvailable(world, a, x)
  /\ canAfford(world, a, x)
  /\ \E faults \in FaultSets(InterruptionWrites(a) \cup {<<"activity", a>>}) :
       Become(executeValidatedAction(Interrupted(a, faults), a, x, faults))
  /\ UNCHANGED loggingIn

\* Accepted as a command, refused in a notification.
rejectAction(a, x) ==
  /\ requireActionableAgent(world, a) /\ isActionAvailable(world, a, x)
  /\ ~canAfford(world, a, x)
  /\ \E faults \in FaultSets(InterruptionWrites(a)) :
       Become(handleServerAnnouncementInterruption(
                clearExcludedInfoCommands(world, a), a, faults))
  /\ UNCHANGED loggingIn

useItem(a, item_type) ==
  /\ requireActionableAgent(world, a) /\ purses[a].items > 0
  /\ \E faults \in FaultSets(InterruptionWrites(a)) :
       Become(executeValidatedUseItem(Interrupted(a, faults), a, item_type))
  /\ UNCHANGED loggingIn

\* emitInfoRequest: any of the /agents/info commands.
requestInfo(a, command) ==
  /\ requireActionableAgent(world, a) /\ ~isInTransfer(world, a)
  /\ command \notin agents[a].excluded
  /\ agents' = [agents EXCEPT ![a].excluded = @ \cup {command}]
  /\ UNCHANGED <<purses, transfers, announcements, timers, registrations,
                 loggingIn>>

(***************************************************************************)
(* Transfers.  Validation follows the interruption, so a command that is   *)
(* refused has interrupted its agent all the same.                         *)
(***************************************************************************)
startTransferRequest(a, to, payload, t) ==
  /\ LoggedIn(world, a) /\ transfers[t].status = "absent"
  /\ \E faults \in FaultSets(InterruptionWrites(a) \cup {<<"debit", t>>}) :
       LET ready == Interrupted(a, faults)
       IN  Become(IF validateTransfer(ready, a, to, payload)
                  THEN startTransfer(ready, t, a, to, payload, faults)
                  ELSE ready)
  /\ UNCHANGED loggingIn

AnswerWrites(a) == {"refund", "credit"} \X {agents[a].pending_transfer_id}

acceptTransferRequest(a) ==
  /\ LoggedIn(world, a) /\ agents[a].pending_transfer_id # None
  /\ \E faults \in FaultSets(AnswerWrites(a)) :
       LET t     == agents[a].pending_transfer_id
           ready == Interrupted(a, faults)
       IN  Become(IF canAcceptTransfer(ready, t, a)
                  THEN acceptTransfer(ready, t, a, faults) ELSE ready)
  /\ UNCHANGED loggingIn

rejectTransferRequest(a) ==
  /\ LoggedIn(world, a) /\ agents[a].pending_transfer_id # None
  /\ \E faults \in FaultSets(AnswerWrites(a)) :
       LET t     == agents[a].pending_transfer_id
           ready == Interrupted(a, faults)
       IN  Become(IF canRejectTransfer(ready, t, a)
                  THEN rejectTransfer(ready, t, a, faults) ELSE ready)
  /\ UNCHANGED loggingIn

(***************************************************************************)
(* Timers.                                                                 *)
(***************************************************************************)
Pending(type) == {timer \in timers : timer.type = type}

idleReminderFired(a) ==
  /\ \E timer \in Pending("idle_reminder") :
       /\ a \in timer.agent_ids
       /\ Become(handleIdleReminderFired(world, timer, a))
  /\ UNCHANGED loggingIn

waitCompleted(a) ==
  /\ \E timer \in Pending("wait") :
       /\ a \in timer.agent_ids
       /\ Become(handleWaitCompleted(world, timer, a))
  /\ UNCHANGED loggingIn

movementCompleted(a) ==
  /\ \E timer \in Pending("movement") :
       /\ a \in timer.agent_ids
       /\ Become(handleMovementCompleted(world, timer, a))
  /\ UNCHANGED loggingIn

actionCompleted(a) ==
  /\ \E timer \in Pending("action"), faults \in FaultSets({<<"activity", a>>}) :
       /\ a \in timer.agent_ids
       /\ Become(handleActionCompleted(world, timer, a, faults))
  /\ UNCHANGED loggingIn

itemUseCompleted(a) ==
  /\ \E timer \in Pending("item_use"),
        faults \in FaultSets({<<"activity", a>>}) :
       /\ a \in timer.agent_ids
       /\ Become(handleItemUseCompleted(world, timer, a, faults))
  /\ UNCHANGED loggingIn

transferTimeout(t) ==
  /\ \E timer \in Pending("transfer"), faults \in FaultSets({<<"refund", t>>}) :
       /\ timer.about = t
       /\ Become(handleTransferTimeout(world, timer, faults))
  /\ UNCHANGED loggingIn

(***************************************************************************)
(* Announcements.                                                          *)
(***************************************************************************)
announce(n) ==
  /\ unusedAnnouncement(world, n)
  /\ Become(fireServerAnnouncement(world, n))
  /\ UNCHANGED loggingIn

\* The next Discord notification to the agent is out, or failed: it closes
\* the window, with no other trace in the world.
deliverNotification(a) ==
  /\ agents[a].announced
  /\ Become(clearActiveServerAnnouncement(world, a))
  /\ UNCHANGED loggingIn

LifecycleNext ==
  \/ \E a \in Agents : \/ registerAgent(a) \/ deleteAgent(a)
                       \/ loginAgent(a) \/ completeLogin(a) \/ failLogin(a)
                       \/ logoutAgent(a)
  \/ restart

CommandNext ==
  \E a \in Agents :
    \/ move(a) \/ executeWait(a)
    \/ \E x \in Actions : executeAction(a, x) \/ rejectAction(a, x)
    \/ \E item_type \in {"general", "venue"} : useItem(a, item_type)
    \/ \E command \in InfoCommands : requestInfo(a, command)

TransferNext ==
  \/ \E a, to \in Agents, payload \in Payloads, t \in Transfers :
       startTransferRequest(a, to, payload, t)
  \/ \E a \in Agents : acceptTransferRequest(a) \/ rejectTransferRequest(a)

TimerNext ==
  \/ \E a \in Agents :
       \/ idleReminderFired(a) \/ waitCompleted(a) \/ movementCompleted(a)
       \/ actionCompleted(a) \/ itemUseCompleted(a)
  \/ \E t \in Transfers : transferTimeout(t)

AnnouncementNext ==
  \/ \E n \in Announcements : announce(n)
  \/ \E a \in Agents : deliverNotification(a)

Next ==
  \/ LifecycleNext \/ CommandNext \/ TransferNext \/ TimerNext
  \/ AnnouncementNext

Spec == Init /\ [][Next]_vars

(***************************************************************************)
(* Type invariant.                                                         *)
(***************************************************************************)
AgentRecord ==
  [ state : AgentStates,
    pending_conversation_id : {None}, current_conversation_id : {None},
    active_transfer_id : Transfers \cup {None},
    pending_transfer_id : Transfers \cup {None},
    announced : BOOLEAN, pending_announcements : SUBSET Announcements,
    last_action_id : Actions \cup {None}, excluded : SUBSET InfoCommands ]

OfferRecord ==
  [ status : {"absent", "open", "refund_failed"},
    from_agent_id : Agents \cup {None}, to_agent_id : Agents \cup {None},
    escrow : Purse ]

TimerRecord ==
  [ type : ActivityTypes \cup {"idle_reminder", "movement", "transfer"},
    agent_ids : SUBSET Agents, about : Transfers \cup Actions \cup {None},
    twin : BOOLEAN ]

\* Every store of the engine holds the records its TypeScript type declares,
\* and nobody ever owns a negative amount.
TypeOK ==
  /\ agents \in [Agents -> AgentRecord]
  /\ purses \in [Agents -> Purse]
  /\ transfers \in [Transfers -> OfferRecord]
  /\ announcements \in [Announcements -> SUBSET Agents]
  /\ timers \subseteq TimerRecord
  /\ registrations \in [Agents -> Purse \cup {None}]
  /\ loggingIn \subseteq Agents

(***************************************************************************)
(* Safety.                                                                 *)
(***************************************************************************)

\* An open offer, the roles of its two agents and its timer exist together:
\* whatever ends an offer, in whatever order, leaves no agent tied to it, no
\* offer without a deadline and no deadline without an offer.
OpenOfferIsHeld(t) ==
  LET offer == transfers[t]
      from  == offer.from_agent_id
      to    == offer.to_agent_id
  IN  /\ from \in Agents /\ to \in Agents /\ from # to
      /\ agents[from].active_transfer_id = t
      /\ agents[to].pending_transfer_id = t
      /\ TransferTimer(t, offer) \in timers

RolesAreBacked(a) ==
  LET active  == agents[a].active_transfer_id
      pending == agents[a].pending_transfer_id
  IN  /\ active # None => Live(world, active) /\ transfers[active].from_agent_id = a
      /\ pending # None => Live(world, pending) /\ transfers[pending].to_agent_id = a
      /\ active = None \/ pending = None
      /\ agents[a].state = "in_transfer" <=> isInTransfer(world, a)

TransferRoles ==
  /\ \A t \in Transfers : Live(world, t) => OpenOfferIsHeld(t)
  /\ \A a \in Agents : RolesAreBacked(a)
  /\ \A timer \in Pending("transfer") :
       /\ timer.about \in Transfers /\ Live(world, timer.about)
       /\ timer = TransferTimer(timer.about, transfers[timer.about])

\* The state of an agent and its timers agree: an agent that is busy has the
\* one timer that will free it, a timer never outlives what it times, and a
\* reminder runs for an idle agent only.
TimersMatchState ==
  \A a \in Agents :
    LET Own(types) == TimersOf(world, a, types)
    IN  /\ IF agents[a].state = "in_action"
           THEN \E timer \in timers : Own(ActivityTypes) = {timer}
           ELSE Own(ActivityTypes) = {}
        /\ IF agents[a].state = "moving"
           THEN Own({"movement"}) = {Timer("movement", {a}, None)}
           ELSE Own({"movement"}) = {}
        /\ Own({"idle_reminder"}) # {} =>
             /\ agents[a].state = "idle"
             /\ Own({"idle_reminder"}) = {Timer("idle_reminder", {a}, None)}

\* An announcement waits for exactly the agents that wait for it, only moving
\* agents wait, and no window opens before the agent has arrived.
AnnouncementsAwaitMovers ==
  \A a \in Agents :
    /\ \A n \in Announcements :
         n \in agents[a].pending_announcements <=> a \in announcements[n]
    /\ agents[a].pending_announcements # {} => agents[a].state = "moving"
    /\ agents[a].announced => agents[a].state # "moving"

\* As long as the reported activity writes succeed, what a logged-in agent
\* owns is what a restart would give back to it: every other write that
\* throws has been undone in memory.
MemoryMatchesDisk ==
  "activity" \notin FailingWrites =>
    \A a \in Agents : LoggedIn(world, a) => registrations[a] = purses[a]

(***************************************************************************)
(* Conservation.                                                           *)
(***************************************************************************)
Owned(a) ==
  IF LoggedIn(world, a) THEN purses[a]
  ELSE IF Registered(world, a) THEN registrations[a] ELSE Nothing

TotalMoney ==
  SumOver(Agents, [a \in Agents |-> Owned(a).money])
    + SumOver(Transfers, [t \in Transfers |-> transfers[t].escrow.money])

TotalItems ==
  SumOver(Agents, [a \in Agents |-> Owned(a).items])
    + SumOver(Transfers, [t \in Transfers |-> transfers[t].escrow.items])

\* The steps by which value enters or leaves the world.
Exchange ==
  \/ restart
  \/ \E a \in Agents :
       \/ registerAgent(a) \/ deleteAgent(a)
       \/ actionCompleted(a) \/ itemUseCompleted(a)
       \/ \E x \in Actions : executeAction(a, x)

\* Offers, answers, timeouts, interruptions, logins and logouts move value and
\* neither create nor lose any, whichever writes throw on the way.  Items may
\* be lost after a refund could not be written: recovered on logout, they can
\* overfill an inventory, which the next refund then does not fit.
ConserveStep ==
  \/ /\ TotalMoney' = TotalMoney
     /\ \/ TotalItems' = TotalItems
        \/ TotalItems' < TotalItems /\ "refund" \in FailingWrites
  \/ Exchange

ValueConserved == [][ConserveStep]_vars

\* The economy as its agents see it: what an agent owns, with what its offers,
\* open or failed, hold for it.
Escrowed(a, field) ==
  LET own == {t \in Transfers : transfers[t].from_agent_id = a}
  IN  SumOver(own, [t \in own |-> transfers[t].escrow[field]])

Balance ==
  [a \in Agents |-> [ money |-> Owned(a).money + Escrowed(a, "money"),
                      items |-> Owned(a).items + Escrowed(a, "items") ]]

Economy == INSTANCE Ledger WITH balance <- Balance

\* The engine implements the ledger: the two-phase hand-over, its refunds, its
\* timeouts, interruptions and failed writes amount to payments that happen
\* at once or not at all.
ImplementsLedger == Economy!Spec

(***************************************************************************)
(* Announcements.                                                          *)
(***************************************************************************)

\* No step takes an announcement away from an agent that still has to hear it
\* other than by opening the agent's window or logging the agent out, and a
\* journey ends by arriving.
ArrivalStep ==
  \A a \in Agents :
    agents[a].state = "moving" /\ agents'[a].state \notin {"moving", "logged_out"}
      => /\ agents'[a].state = "idle"
         /\ agents[a].pending_announcements # {} => agents'[a].announced

MoversHearAnnouncements == [][ArrivalStep]_vars

\* The timer of what the agent is doing fires.
Completion(a) ==
  waitCompleted(a) \/ movementCompleted(a) \/ actionCompleted(a) \/ itemUseCompleted(a)

\* A transfer makes its agents leave what they do before its debit is written.
PulledIn(a) ==
  /\ "debit" \in FailingWrites
  /\ \E from, to \in Agents, payload \in Payloads, t \in Transfers :
       a \in {from, to} /\ startTransferRequest(from, to, payload, t)

\* Outside its window an agent that is busy is made idle by the timer of what it
\* does, whatever it or others send, announce or cancel meanwhile, and by
\* nothing else but a transfer that pulls it in and then cannot be written.
BusyStep ==
  \A a \in Agents :
    /\ agents[a].state \in {"moving", "in_action"} /\ ~agents[a].announced
    /\ agents'[a].state = "idle"
    => Completion(a) \/ PulledIn(a)

OnlyWindowsInterrupt == [][BusyStep]_vars

(***************************************************************************)
(* Liveness.  A pending timer fires as long as the process runs.           *)
(***************************************************************************)
FairSpec ==
  /\ Spec
  /\ \A a \in Agents : WF_vars(movementCompleted(a))
  /\ \A t \in Transfers : WF_vars(transferTimeout(t))

\* No value stays in escrow for ever: every open offer is settled one day.
OfferSettles == \A t \in Transfers : Live(world, t) ~> ~Live(world, t)

\* An agent that has to hear an announcement stops having to.
AwaitedAnnouncementArrives ==
  \A a \in Agents, n \in Announcements :
    n \in agents[a].pending_announcements ~> n \notin agents[a].pending_announcements

(***************************************************************************)
(* What the documentation says of the engine.                              *)
(***************************************************************************)

\* docs/design/detailed/01-data-model.md: with idle_reminder configured an
\* idle agent is reminded every interval_ms.
IdleAgentsAreReminded ==
  \A a \in Agents :
    agents[a].state = "idle" => TimersOf(world, a, {"idle_reminder"}) # {}

\* docs/design/detailed/07-server-announcements.md: in a window, use_item of a
\* venue item only answers with a notification, without a state transition.
VenueStep ==
  \A a \in Agents : useItem(a, "venue") => agents'[a].state = agents[a].state

VenueItemChangesNoState == [][VenueStep]_vars
============================================================================
