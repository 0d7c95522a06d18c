----------------------------- MODULE Activities -----------------------------
(***************************************************************************)
(* What one agent does alone: waiting, executing an action, using an item, *)
(* moving, being reminded that it is idle (domain/wait, actions, use-item, *)
(* movement and idle-reminder) and receiving the announcements it missed   *)
(* while it moved.  Durations are abstracted: a pending timer may fire.    *)
(***************************************************************************)
EXTENDS World

ActivityTypes == {"action", "wait", "item_use"}

\* The guard of every command that starts an activity.
requireActionableAgent(w, a) ==
  /\ LoggedIn(w, a)
  /\ \/ w.agents[a].announced
     \/ /\ w.agents[a].state = "idle"
        /\ w.agents[a].pending_conversation_id = None
        /\ ~isInTransfer(w, a)

cancelIdleReminder(w, a) == cancelByType(w, a, "idle_reminder")

startIdleReminder(w, a) ==
  create(cancelIdleReminder(w, a), Timer("idle_reminder", {a}, None))

\* Back to idle with a reminder, as every completion handler ends.
becomeIdle(w, a) == startIdleReminder(setState(w, a, "idle"), a)

\* The timer found first is cancelled; only the state in_action becomes idle.
cancelActive(w, a, type) ==
  LET found == TimersOf(w, a, {type})
      w1    == cancel(w, CHOOSE x \in found : TRUE)
  IN  IF found = {} THEN w
      ELSE IF w.agents[a].state = "in_action" THEN setState(w1, a, "idle")
      ELSE w1

cancelActiveActivities(w, a) ==
  cancelActive(cancelActive(cancelActive(w, a, "wait"), a, "action"),
               a, "item_use")

\* The common end of executeValidatedMove, -Action, -Wait and -UseItem.
startActivity(w, a, state, type, about) ==
  clearExcludedInfoCommands(
    create(setState(cancelByType(cancelIdleReminder(w, a), a, type), a, state),
           Timer(type, {a}, about)), a)

executeValidatedMove(w, a) == startActivity(w, a, "moving", "movement", None)

executeValidatedWait(w, a) == startActivity(w, a, "in_action", "wait", None)

\* A venue item is refused with no other effect; the use itself consumes later.
executeValidatedUseItem(w, a, item_type) ==
  IF item_type = "venue" THEN clearExcludedInfoCommands(w, a)
  ELSE startActivity(w, a, "in_action", "item_use", None)

\* The action an agent executed last is not offered again.
isActionAvailable(w, a, x) == w.agents[a].last_action_id # x

canAfford(w, a, x) == Covers(w.purses[a], Catalogue[x].cost)

\* A failed write is reported and the activity goes on, memory ahead of disk.
settleActivity(w, a, purse, faults) ==
  LET w1 == [w EXCEPT !.purses[a] = purse]
  IN  IF <<"activity", a>> \in faults THEN w1
      ELSE persistLoggedInAgentState(w1, a)

payForAction(w, a, x, faults) ==
  IF Catalogue[x].cost = Nothing THEN w
  ELSE settleActivity(w, a, debit(w.purses[a], Catalogue[x].cost), faults)

executeValidatedAction(w, a, x, faults) ==
  [startActivity(payForAction(w, a, x, faults), a, "in_action", "action", x)
     EXCEPT !.agents[a].last_action_id = x]

rewardAction(w, a, x, faults) ==
  IF Catalogue[x].reward = Nothing THEN w
  ELSE settleActivity(w, a, credit(w.purses[a], Catalogue[x].reward), faults)

(***************************************************************************)
(* Timer handlers.  TimerManager.fire removes the timer first.             *)
(***************************************************************************)
handleIdleReminderFired(w, timer, a) ==
  IF LoggedIn(w, a)
  THEN create(cancel(w, timer), Timer("idle_reminder", {a}, None))
  ELSE cancel(w, timer)

handleWaitCompleted(w, timer, a) ==
  IF LoggedIn(w, a) THEN becomeIdle(cancel(w, timer), a) ELSE cancel(w, timer)

handleActionCompleted(w, timer, a, faults) ==
  IF LoggedIn(w, a)
  THEN becomeIdle(rewardAction(cancel(w, timer), a, timer.about, faults), a)
  ELSE cancel(w, timer)

\* Out of in_action the item is kept and the handler gives up.
handleItemUseCompleted(w, timer, a, faults) ==
  LET used == debit(w.purses[a], [money |-> 0, items |-> 1])
  IN  IF w.agents[a].state = "in_action"
      THEN becomeIdle(settleActivity(cancel(w, timer), a, used, faults), a)
      ELSE cancel(w, timer)

\* Slip: the store is read after the agent has been removed from it.
handlePendingStale(w, a) ==
  LET pending == w.agents[a].pending_announcements
      w1      == [w EXCEPT
                   !.agents[a].pending_announcements = {},
                   !.announcements = [n \in Announcements |->
                      IF n \in pending THEN @[n] \ {a} ELSE @[n]]]
  IN  IF \A n \in pending : w1.announcements[n] = {} THEN w1
      ELSE [w1 EXCEPT !.agents[a].announced = TRUE]

\* Deliver what was fired while the agent moved: that opens the window.
\* An id the store no longer has is just dropped.
handlePendingServerAnnouncements(w, a) ==
  LET pending == w.agents[a].pending_announcements
      w1      == [w EXCEPT
                   !.agents[a].pending_announcements = {},
                   !.announcements = [n \in Announcements |->
                      IF n \in pending THEN @[n] \ {a} ELSE @[n]]]
  IN  IF \A n \in pending : w.announcements[n] = {} THEN w1
      ELSE clearExcludedInfoCommands(
             [w1 EXCEPT !.agents[a].announced = TRUE], a)

\* Slip: an arrival forgets what was fired on the way.
handleMovementUndelivered(w, timer, a) ==
  IF LoggedIn(w, a) THEN becomeIdle(cancel(w, timer), a) ELSE cancel(w, timer)

handleMovementCompleted(w, timer, a) ==
  IF LoggedIn(w, a)
  THEN handlePendingServerAnnouncements(becomeIdle(cancel(w, timer), a), a)
  ELSE cancel(w, timer)
============================================================================
