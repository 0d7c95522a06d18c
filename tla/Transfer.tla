------------------------------ MODULE Transfer ------------------------------
(***************************************************************************)
(* domain/transfer: the two-phase hand-over of money or items between two  *)
(* agents.  The sender is debited, in memory and on disk, when the offer   *)
(* opens; the offer holds the value in escrow until it is credited to the  *)
(* receiver or refunded to the sender.  Offers live in memory only.        *)
(*                                                                         *)
(* faults is the set of disk writes that throw during the call:            *)
(* <<"debit", t>>, <<"credit", t>>, <<"refund", t>> and <<"recover", t>>.  *)
(* The statuses settling_accept and settling_refund last only inside a     *)
(* call, so a world between two calls knows "open" and "refund_failed".    *)
(***************************************************************************)
EXTENDS Activities

Live(w, t) == w.transfers[t].status = "open"

validateTransferState(w, a) ==
  /\ w.agents[a].state \in {"idle", "in_action"}
  /\ w.agents[a].pending_conversation_id = None

\* Positions are abstracted: any two agents may stand within reach.
validateTransfer(w, from, to, payload) ==
  /\ LoggedIn(w, from) /\ ~isInTransfer(w, from)
  /\ validateTransferState(w, from)
  /\ from # to
  /\ LoggedIn(w, to) /\ ~isInTransfer(w, to)
  /\ validateTransferState(w, to)
  /\ Covers(w.purses[from], payload)
  /\ payload.money > 0 => w.purses[to].money + payload.money <= MaxMoney

\* Slip: an activity goes on beneath the transfer.
enterTransferBusy(w, a) == cancelIdleReminder(setState(w, a, "in_transfer"), a)

enterTransfer(w, a) ==
  cancelActiveActivities(cancelIdleReminder(setState(w, a, "in_transfer"), a), a)

acquireTransferRolesPair(w, from, to, t) ==
  enterTransfer(
    enterTransfer([w EXCEPT !.agents[from].active_transfer_id = t,
                            !.agents[to].pending_transfer_id = t], from), to)

leaveTransfer(w, a) ==
  IF w.agents[a].state = "in_transfer" THEN becomeIdle(w, a) ELSE w

releaseSender(w, t, a) ==
  IF w.agents[a].active_transfer_id = t
  THEN leaveTransfer([w EXCEPT !.agents[a].active_transfer_id = None], a)
  ELSE w

releaseReceiver(w, t, a) ==
  IF w.agents[a].pending_transfer_id = t
  THEN leaveTransfer([w EXCEPT !.agents[a].pending_transfer_id = None], a)
  ELSE w

\* Slip: the receiver is not released.
clearSenderState(w, t, offer) == releaseSender(w, t, offer.from_agent_id)

\* The roles of offer t, whose record may already be out of the store.
clearTransferState(w, t, offer) ==
  releaseReceiver(releaseSender(w, t, offer.from_agent_id),
                  t, offer.to_agent_id)

TransferTimer(t, offer) ==
  Timer("transfer", {offer.from_agent_id, offer.to_agent_id}, t)

cancelTransferTimer(w, t) ==
  [w EXCEPT !.timers = {x \in @ : ~(x.type = "transfer" /\ x.about = t)}]

\* Slip: a debit that cannot be written stays in memory.
startTransferKeepingDebit(w, t, from, to, payload, faults) ==
  LET offer == [status |-> "open", from_agent_id |-> from, to_agent_id |-> to,
                escrow |-> payload]
      w1    == [acquireTransferRolesPair(w, from, to, t)
                  EXCEPT !.purses[from] = debit(@, payload)]
  IN  IF <<"debit", t>> \in faults THEN clearTransferState(w1, t, offer)
      ELSE create(persistLoggedInAgentState([w1 EXCEPT !.transfers[t] = offer],
                                            from), TransferTimer(t, offer))

\* Slip: the offer has no deadline.
startTransferUntimed(w, t, from, to, payload, faults) ==
  LET w1 == acquireTransferRolesPair(w, from, to, t)
  IN  persistLoggedInAgentState(
        [w1 EXCEPT !.transfers[t] =
                     [status |-> "open", from_agent_id |-> from,
                      to_agent_id |-> to, escrow |-> payload],
                   !.purses[from] = debit(@, payload)], from)

\* A debit that cannot be written is undone, roles and all, and reported.
startTransfer(w, t, from, to, payload, faults) ==
  LET offer == [status |-> "open", from_agent_id |-> from, to_agent_id |-> to,
                escrow |-> payload]
      w1    == acquireTransferRolesPair(w, from, to, t)
      w2    == [w1 EXCEPT !.transfers[t] = offer,
                          !.purses[from] = debit(@, payload)]
  IN  IF <<"debit", t>> \in faults THEN clearTransferState(w1, t, offer)
      ELSE clearExcludedInfoCommands(
             create(persistLoggedInAgentState(w2, from),
                    TransferTimer(t, offer)), from)

\* Slip: the credit is not written.
creditAgentUnsaved(w, a, escrow) == [w EXCEPT !.purses[a] = credit(@, escrow)]

creditAgent(w, a, escrow) ==
  persistLoggedInAgentState([w EXCEPT !.purses[a] = credit(@, escrow)], a)

\* A sender that is no longer logged in is refunded in its registration.
refundEscrow(w, offer) ==
  IF LoggedIn(w, offer.from_agent_id)
  THEN creditAgent(w, offer.from_agent_id, offer.escrow)
  ELSE mergePersistedAgentInventory(w, offer.from_agent_id, offer.escrow)

refundThrows(w, t, faults) ==
  LET from == w.transfers[t].from_agent_id
  IN  <<"refund", t>> \in faults \/ ~(LoggedIn(w, from) \/ Registered(w, from))

\* The way out of a rejected, cancelled or expired offer.
finalizeRefund(w, t, faults) ==
  LET offer    == w.transfers[t]
      released == clearTransferState(cancelTransferTimer(w, t), t, offer)
  IN  IF refundThrows(w, t, faults)
      THEN [released EXCEPT !.transfers[t].status = "refund_failed"]
      ELSE [refundEscrow(released, offer) EXCEPT !.transfers[t] = NoOffer]

cancelTransfer(w, t, faults) ==
  CASE w.transfers[t].status = "open" -> finalizeRefund(w, t, faults)
    [] w.transfers[t].status = "refund_failed" ->
         clearTransferState(w, t, w.transfers[t])
    [] OTHER -> w

canRejectTransfer(w, t, a) == Live(w, t) /\ w.transfers[t].to_agent_id = a

rejectTransfer(w, t, a, faults) ==
  clearExcludedInfoCommands(finalizeRefund(w, t, faults), a)

canAcceptTransfer(w, t, a) ==
  canRejectTransfer(w, t, a) /\ w.agents[a].pending_transfer_id = t

\* The receiver cannot take the value; only in_transfer may it be asked to.
cannotReceive(w, t, a, faults) ==
  \/ w.agents[a].state # "in_transfer"
  \/ w.purses[a].money + w.transfers[t].escrow.money > MaxMoney
  \/ /\ ~drops(w.purses[a], w.transfers[t].escrow)
     /\ <<"credit", t>> \in faults

settleAccept(w, t, a) ==
  LET offer == w.transfers[t]
      w1    == creditAgent(w, a, offer.escrow)
  IN  clearExcludedInfoCommands(
        [clearTransferState(cancelTransferTimer(w1, t), t, offer)
           EXCEPT !.transfers[t] = NoOffer], a)

\* Whatever keeps the receiver from being credited ends in a refund.
acceptTransfer(w, t, a, faults) ==
  IF cannotReceive(w, t, a, faults) THEN cancelTransfer(w, t, faults)
  ELSE IF drops(w.purses[a], w.transfers[t].escrow)
  THEN rejectTransfer(w, t, a, faults)
  ELSE settleAccept(w, t, a)

handleTransferTimeout(w, timer, faults) ==
  IF Live(w, timer.about)
  THEN finalizeRefund(cancel(w, timer), timer.about, faults)
  ELSE cancel(w, timer)

\* An agent takes part in one open offer at most (TransferRoles), and a failed
\* one holds no role: the loop over the agent's offers settles the open one.
cancelPendingTransfersForAgent(w, a, faults) ==
  LET open == {t \in Transfers :
                 Live(w, t) /\ a \in {w.transfers[t].from_agent_id,
                                      w.transfers[t].to_agent_id}}
  IN  IF open = {} THEN w
      ELSE cancelTransfer(w, CHOOSE t \in open : TRUE, faults)

\* Slip: a recovered offer stays in the store, to be recovered again.
recoverAgain(w, a, faults) ==
  LET failed   == {t \in Transfers :
                     /\ w.transfers[t].status = "refund_failed"
                     /\ w.transfers[t].from_agent_id = a
                     /\ <<"recover", t>> \notin faults}
      money(S) == SumOver(S, [t \in S |-> w.transfers[t].escrow.money])
      items(S) == SumOver(S, [t \in S |-> w.transfers[t].escrow.items])
  IN  mergePersistedAgentInventory(
        w, a, [money |-> money(failed), items |-> items(failed)])

\* On logout the escrow of failed refunds joins the registration just written.
recoverRefundFailedTransfersForAgent(w, a, faults) ==
  LET failed   == {t \in Transfers :
                     /\ w.transfers[t].status = "refund_failed"
                     /\ w.transfers[t].from_agent_id = a
                     /\ <<"recover", t>> \notin faults}
      money(S) == SumOver(S, [t \in S |-> w.transfers[t].escrow.money])
      items(S) == SumOver(S, [t \in S |-> w.transfers[t].escrow.items])
  IN  IF failed = {} THEN w
      ELSE [mergePersistedAgentInventory(
              w, a, [money |-> money(failed), items |-> items(failed)])
              EXCEPT !.transfers = [t \in Transfers |->
                        IF t \in failed THEN NoOffer ELSE @[t]]]
============================================================================
