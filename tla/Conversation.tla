---------------------------- MODULE Conversation ----------------------------
(***************************************************************************)
(* domain/conversation: an invitation between two agents that becomes a    *)
(* group conversation others may join.  One member holds the turn; it      *)
(* speaks and names the next speaker, who is given the turn by the timer   *)
(* of the interval.  A conversation never waits without a timer: for an    *)
(* answer, a turn, the end of an interval or the members that fell silent. *)
(*                                                                         *)
(* The operators act on a world that also has conversations.  All disk     *)
(* writes of the offers made in a conversation succeed here: Transfer and  *)
(* WorldEngine are about the ones that do not.                             *)
(***************************************************************************)
EXTENDS ServerAnnouncements, SequencesExt

CONSTANTS
  Conversations,      \* conversation ids; an id is free again once it ended
  MaxTurns,           \* config.conversation.max_turns
  MaxParticipants,    \* config.conversation.max_participants
  InactiveCheckTurns  \* config.conversation.inactive_check_turns

ASSUME ConversationAssumption ==
  /\ None \notin Conversations
  /\ MaxTurns \in Nat \ {0}
  /\ MaxParticipants \in Nat \ {0, 1}
  /\ InactiveCheckTurns \in Nat \ {0}

NoFaults == {}

(***************************************************************************)
(* ConversationStateStore: conversations[c] is NoConversation when none c  *)
(* is kept.  joiners are the agents whose join awaits the next turn, and   *)
(* inactive the ones that have to answer the inactive check.               *)
(***************************************************************************)
NoConversation ==
  [ status |-> "absent", initiator |-> None, participants |-> <<>>,
    joiners |-> <<>>, current_turn |-> 0, current_speaker |-> None,
    last_spoken_turns |-> [a \in Agents |-> 0], inactive |-> {},
    resume_speaker |-> None, closing_reason |-> None ]

\* The elements of seq that are in S, in their order: Array.filter.
Kept(seq, S) ==
  LET upTo[n \in 0 .. Len(seq)] ==
        IF n = 0 THEN <<>>
        ELSE IF seq[n] \in S THEN Append(upTo[n - 1], seq[n]) ELSE upTo[n - 1]
  IN  upTo[Len(seq)]

Without(seq, a) == Kept(seq, ToSet(seq) \ {a})

Members(v) == ToSet(v.participants)

Others(v, a) == Members(v) \ {a}

findConversationByAgent(w, a, statuses) ==
  LET current == w.agents[a].current_conversation_id
      found   == {c \in Conversations :
                    /\ w.conversations[c].status \in statuses
                    /\ a \in Members(w.conversations[c])
                               \cup ToSet(w.conversations[c].joiners)}
  IN  IF current \in found THEN current
      ELSE IF found = {} THEN None ELSE CHOOSE c \in found : TRUE

(***************************************************************************)
(* The timers of a conversation.                                           *)
(***************************************************************************)
ConversationTimerTypes ==
  {"conversation_accept", "conversation_turn", "conversation_interval",
   "conversation_inactive_check"}

About(c, speaker, next, turn) ==
  [conversation |-> c, speaker |-> speaker, next |-> next, turn |-> turn]

ConversationTimers(w, c, types) ==
  {x \in w.timers : x.type \in types /\ x.about.conversation = c}

cancelTimersOf(w, c, types) ==
  [w EXCEPT !.timers = @ \ ConversationTimers(w, c, types)]

cancelConversationTimers(w, c) == cancelTimersOf(w, c, ConversationTimerTypes)

scheduleTurnTimer(w, c, speaker) ==
  create([w EXCEPT !.conversations[c].current_speaker = speaker],
         Timer("conversation_turn", Members(w.conversations[c]),
               About(c, speaker, None, 0)))

createIntervalTimer(w, c, speaker, next) ==
  create(w, Timer("conversation_interval", Members(w.conversations[c]),
                  About(c, speaker, next, w.conversations[c].current_turn)))

createInactiveCheckTimer(w, c) ==
  create(w, Timer("conversation_inactive_check", w.conversations[c].inactive,
                  About(c, None, None, 0)))

(***************************************************************************)
(* Leaving, joining and ending.                                            *)
(***************************************************************************)

\* startIdleReminder for each of S.
startIdleReminders(w, S) ==
  [w EXCEPT !.timers =
    {x \in @ : ~(x.type = "idle_reminder" /\ x.agent_ids \cap S # {})}
      \cup {Timer("idle_reminder", {a}, None) : a \in S}]

\* Those of S that are still in c become idle, with a reminder if reminded.
cleanupParticipants(w, c, S, reminded) ==
  LET leaving == {a \in S : /\ w.agents[a].current_conversation_id = c
                            /\ w.agents[a].state = "in_conversation"}
      woken   == IF reminded THEN leaving ELSE {}
      free(id) == IF id = c THEN None ELSE id
      cleaned(a) ==
        [w.agents[a] EXCEPT
           !.pending_conversation_id = free(@),
           !.current_conversation_id = free(@),
           !.state = IF a \in leaving THEN "idle" ELSE @,
           !.last_action_id = IF a \in leaving THEN None ELSE @]
  IN  startIdleReminders(
        [w EXCEPT !.agents = [a \in Agents |->
                     IF a \in S THEN cleaned(a) ELSE w.agents[a]]], woken)

cleanupParticipant(w, c, a, reminded) == cleanupParticipants(w, c, {a}, reminded)

\* A joiner that may no longer be admitted is sent away instead.
applyPendingJoiners(w, c) ==
  LET v         == w.conversations[c]
      admitted  == {a \in Agents \ Members(v) :
                      /\ w.agents[a].current_conversation_id = c
                      /\ w.agents[a].state = "in_conversation"}
      applied   == Kept(v.joiners, admitted)
  IN  cleanupParticipants(
        [w EXCEPT !.conversations[c] =
           [v EXCEPT !.joiners = <<>>, !.participants = @ \o applied,
                     !.last_spoken_turns = [a \in Agents |->
                        IF a \in ToSet(applied) THEN v.current_turn ELSE @[a]]]],
        c, ToSet(v.joiners) \ ToSet(applied), TRUE)

discardPendingJoiners(w, c) ==
  cleanupParticipants([w EXCEPT !.conversations[c].joiners = <<>>],
                      c, ToSet(w.conversations[c].joiners), TRUE)

\* Slip: the joiner is left in the list, for applyPendingJoiners to drop.
detachPendingJoinerLater(w, c, a, reminded) == cleanupParticipant(w, c, a, reminded)

detachPendingJoiner(w, c, a, reminded) ==
  cleanupParticipant([w EXCEPT !.conversations[c].joiners = Without(@, a)],
                     c, a, reminded)

\* One offer after the other, in the order they are listed in.
cancelInConversationTransfersForConversation(w, c) ==
  LET offers == SetToSeq({t \in Transfers :
                            /\ w.transfers[t].status # "absent"
                            /\ w.transfers[t].conversation_id = c})
      upTo[n \in 0 .. Len(offers)] ==
        IF n = 0 THEN w ELSE cancelTransfer(upTo[n - 1], offers[n], NoFaults)
  IN  upTo[Len(offers)]

\* Slip: the offers made in the conversation outlive it.
endConversationWithOffers(w, c) ==
  LET w1 == cancelConversationTimers(discardPendingJoiners(w, c), c)
  IN  cleanupParticipants([w1 EXCEPT !.conversations[c] = NoConversation],
                          c, Members(w.conversations[c]), TRUE)

endConversation(w, c) ==
  LET w1 == cancelInConversationTransfersForConversation(
              cancelConversationTimers(discardPendingJoiners(w, c), c), c)
  IN  cleanupParticipants([w1 EXCEPT !.conversations[c] = NoConversation],
                          c, Members(w.conversations[c]), TRUE)

(***************************************************************************)
(* Who speaks next.                                                        *)
(***************************************************************************)

\* The first agent of S after a around the circle seq; None if there is none.
FirstAfter(seq, a, S) ==
  LET n    == Len(seq)
      from == SelectInSeq(seq, LAMBDA b : b = a)
      at(k) == seq[((from + k - 1) % n) + 1]
      hits == {k \in 1 .. n - 1 : at(k) \in S}
  IN  IF from = 0 \/ hits = {} THEN None ELSE at(Min(hits))

FirstOf(v) == IF v.participants = <<>> THEN None ELSE Head(v.participants)

resolveResumeSpeaker(v) ==
  IF v.resume_speaker \in Members(v) THEN v.resume_speaker ELSE FirstOf(v)

resolveResumeSpeakerAfterRemoval(previous, v, removed) ==
  LET following == FirstAfter(previous, removed, Others(v, v.current_speaker))
  IN  IF following # None THEN following ELSE resolveResumeSpeaker(v)

getConversationActionableSpeaker(v) ==
  IF v.inactive = {} /\ v.current_speaker \in Members(v) THEN v.current_speaker
  ELSE resolveResumeSpeaker(v)

removeParticipant(v, a) ==
  LET v1 == [v EXCEPT !.participants = Without(@, a),
                      !.joiners = Without(@, a),
                      !.last_spoken_turns[a] = 0,
                      !.inactive = @ \ {a}]
      v2 == IF v.resume_speaker # a THEN v1
            ELSE [v1 EXCEPT !.resume_speaker =
                    resolveResumeSpeakerAfterRemoval(v.participants, v1, a)]
      s  == resolveResumeSpeaker(v2)
  IN  IF v.current_speaker = a /\ s # None
      THEN [v2 EXCEPT !.current_speaker = s] ELSE v2

\* The agent is out of the conversation's record and of its own.
expel(w, c, a, reminded) ==
  cleanupParticipant(
    [w EXCEPT !.conversations[c] = removeParticipant(@, a)], c, a, reminded)

updateLastSpokenTurns(v, speaker, next, turn) ==
  [v EXCEPT !.current_turn = turn,
            !.last_spoken_turns[speaker] = turn,
            !.last_spoken_turns[next] = turn]

(***************************************************************************)
(* The inactive check.                                                     *)
(***************************************************************************)
InactiveMembers(v) ==
  {a \in Members(v) :
     v.current_turn - v.last_spoken_turns[a] >= InactiveCheckTurns}

\* Slip: the check has no timer.
startInactiveCheckUntimed(w, c, next) ==
  [w EXCEPT !.conversations[c].inactive = InactiveMembers(w.conversations[c]),
            !.conversations[c].resume_speaker = next]

startInactiveCheck(w, c, next) ==
  createInactiveCheckTimer(
    [w EXCEPT !.conversations[c].inactive = InactiveMembers(w.conversations[c]),
              !.conversations[c].resume_speaker = next], c)

clearInactiveCheckState(w, c) ==
  [cancelTimersOf(w, c, {"conversation_inactive_check"})
     EXCEPT !.conversations[c].inactive = {},
            !.conversations[c].resume_speaker = None]

resumeAfterInactiveCheck(w, c) ==
  LET w1   == applyPendingJoiners(
                cancelTimersOf(w, c, {"conversation_inactive_check"}), c)
      next == resolveResumeSpeaker(w1.conversations[c])
      w2   == [w1 EXCEPT !.conversations[c].resume_speaker = None]
  IN  IF w.conversations[c].inactive # {} THEN w
      ELSE IF next = None THEN endConversation(w2, c)
      ELSE scheduleTurnTimer(w2, c, next)

concludeOrContinueAfterLeave(w, c) ==
  LET w1 == applyPendingJoiners(w, c)
      v  == w1.conversations[c]
  IN  IF Len(v.participants) <= 1 THEN endConversation(w1, c)
      ELSE IF \/ v.inactive # {}
              \/ ConversationTimers(w1, c, {"conversation_inactive_check"}) # {}
      THEN resumeAfterInactiveCheck(w1, c)
      ELSE scheduleTurnTimer(w1, c, resolveResumeSpeaker(v))

(***************************************************************************)
(* The invitation.                                                         *)
(***************************************************************************)

\* Nothing keeps an agent from inviting itself.
validateConversationStart(w, a, target) ==
  /\ w.agents[a].state = "idle"
  /\ w.agents[a].pending_conversation_id = None
  /\ w.agents[target].state \in {"idle", "in_action"}
  /\ w.agents[target].pending_conversation_id = None

startConversation(w, c, a, target) ==
  LET v  == [NoConversation EXCEPT
               !.status = "pending", !.initiator = a,
               !.participants = <<a, target>>, !.current_turn = 1,
               !.current_speaker = target]
      w1 == clearActiveServerAnnouncement(
              clearExcludedInfoCommands(cancelIdleReminder(w, a), a), a)
  IN  create([w1 EXCEPT !.conversations[c] = v,
                        !.agents[a].pending_conversation_id = c,
                        !.agents[target].pending_conversation_id = c],
             Timer("conversation_accept", {a, target}, About(c, None, None, 0)))

isTarget(v, a) == a # v.initiator /\ a \in Members(v)

\* Slip: the invited agent stays marked.
withdrawFromInitiator(w, c) ==
  LET i == w.conversations[c].initiator
  IN  [cancelConversationTimers(w, c) EXCEPT
         !.conversations[c] = NoConversation,
         !.agents[i].pending_conversation_id = None]

\* The invitation and its two marks are gone; windows are closed if asked.
withdraw(w, c) ==
  LET pair == Members(w.conversations[c])
  IN  [cancelConversationTimers(w, c) EXCEPT
         !.conversations[c] = NoConversation,
         !.agents = [a \in Agents |->
            IF a \in pair /\ LoggedIn(w, a)
            THEN [w.agents[a] EXCEPT !.pending_conversation_id = None]
            ELSE w.agents[a]]]

enterConversation(w, c, a) ==
  clearActiveServerAnnouncement(
    clearExcludedInfoCommands(
      [cancelIdleReminder(w, a) EXCEPT
         !.agents[a].pending_conversation_id = None,
         !.agents[a].current_conversation_id = c,
         !.agents[a].state = "in_conversation"], a), a)

interruptActivityOf(w, a) ==
  IF w.agents[a].state = "in_action" THEN cancelActiveActivities(w, a) ELSE w

acceptConversation(w, c, a) ==
  LET v  == w.conversations[c]
      i  == v.initiator
      w1 == enterConversation(
              enterConversation(
                interruptActivityOf(cancelConversationTimers(w, c), a), c, i),
              c, a)
      w2 == [w1 EXCEPT !.conversations[c] =
               [updateLastSpokenTurns(v, a, i, 2) EXCEPT !.status = "active"]]
  IN  IF LoggedIn(w, i) /\ w.agents[a].state \in {"idle", "in_action"}
      THEN createIntervalTimer(w2, c, a, i)
      ELSE withdraw(w, c)

closeWindow(w, a) ==
  clearActiveServerAnnouncement(clearExcludedInfoCommands(w, a), a)

remind(w, a) == IF LoggedIn(w, a) THEN startIdleReminder(w, a) ELSE w

rejectConversation(w, c, a) ==
  LET i == w.conversations[c].initiator
  IN  remind(closeWindow(closeWindow(withdraw(w, c), i), a), i)

handleAcceptTimeout(w, timer) ==
  LET c     == timer.about.conversation
      fired == cancel(w, timer)
  IN  IF w.conversations[c].status # "pending" THEN fired
      ELSE rejectConversation(fired, c, w.conversations[c].participants[2])

\* On logout.  An invitation of oneself is deleted, its mark stays.
cancelPendingConversation(w, a) ==
  LET c  == findConversationByAgent(w, a, {"pending"})
      v  == w.conversations[c]
      w1 == withdraw(w, c)
      w2 == [w1 EXCEPT !.agents = [b \in Agents |->
               IF b \in Members(v) THEN [w1.agents[b] EXCEPT !.excluded = {}]
               ELSE w1.agents[b]]]
  IN  IF c = None THEN w
      ELSE IF Others(v, v.initiator) = {}
      THEN [cancelConversationTimers(w, c)
              EXCEPT !.conversations[c] = NoConversation]
      ELSE IF isTarget(v, a) THEN remind(w2, v.initiator) ELSE w2

cancelPendingConversationForServerAnnouncement(w, a) ==
  LET c    == findConversationByAgent(w, a, {"pending"})
      v    == w.conversations[c]
      idle == {b \in Members(v) : w.agents[b].state = "idle"}
      w1   == withdraw(w, c)
  IN  IF w.agents[a].pending_conversation_id = None \/ c = None THEN w
      ELSE IF Others(v, v.initiator) = {}
      THEN [cancelConversationTimers(w, c)
              EXCEPT !.conversations[c] = NoConversation]
      ELSE startIdleReminders(w1, idle)

(***************************************************************************)
(* The turn.  An offer goes to the next speaker, which answers it when it  *)
(* speaks; no answer is a refusal.  Whatever throws in this part of a      *)
(* speech is reported and the speech stands.                               *)
(***************************************************************************)
isMyTurn(w, c, a) ==
  /\ w.agents[a].state = "in_conversation"
  /\ w.conversations[c].current_speaker = a
  /\ \E x \in ConversationTimers(w, c, {"conversation_turn"}) :
       x.about.speaker = a

TurnTimerOf(w, c, a) ==
  CHOOSE x \in ConversationTimers(w, c, {"conversation_turn"}) :
    x.about.speaker = a

canNominate(v, a, next) == next \in Others(v, a)

\* While closing the last one left is next whoever was named.
resolveClosingNextSpeaker(v, a, next) ==
  IF Others(v, a) = {} THEN a
  ELSE IF Cardinality(Others(v, a)) = 1 THEN CHOOSE b \in Others(v, a) : TRUE
  ELSE next

isConversing(w, c, a) ==
  /\ w.agents[a].state = "in_conversation"
  /\ w.agents[a].current_conversation_id = c

\* Slip: an offer may hand over what its sender does not have.
validateConversationTransferOnCredit(w, c, from, to, payload) ==
  /\ from # to
  /\ \A a \in {from, to} : isConversing(w, c, a) /\ ~isInTransfer(w, a)
  /\ w.conversations[c].status \notin {"absent", "closing"}

validateConversationTransfer(w, c, from, to, payload) ==
  /\ from # to
  /\ \A a \in {from, to} : isConversing(w, c, a) /\ ~isInTransfer(w, a)
  /\ w.conversations[c].status \notin {"absent", "closing"}
  /\ Covers(w.purses[from], payload)
  /\ payload.money > 0 => w.purses[to].money + payload.money <= MaxMoney

startConversationTransfer(w, c, t, from, to, payload) ==
  LET offer == [status |-> "open", from_agent_id |-> from, to_agent_id |-> to,
                escrow |-> payload, conversation_id |-> c]
      w1    == [w EXCEPT !.transfers[t] = offer,
                         !.agents[from].active_transfer_id = t,
                         !.agents[to].pending_transfer_id = t,
                         !.purses[from] = debit(@, payload)]
  IN  IF validateConversationTransfer(w, c, from, to, payload)
      THEN create(persistLoggedInAgentState(w1, from), TransferTimer(t, offer))
      ELSE w

\* Only an open offer of the conversation can be answered; a full purse or
\* inventory turns an acceptance into a refund.
resolveConversationTransferResponse(w, a, response) ==
  LET t     == w.agents[a].pending_transfer_id
      offer == w.transfers[t]
  IN  IF \/ t = None \/ ~canAcceptTransfer(w, t, a)
         \/ ~isConversing(w, offer.conversation_id, a)
      THEN w
      ELSE IF /\ response = "accept"
              /\ w.purses[a].money + offer.escrow.money <= MaxMoney
              /\ ~drops(w.purses[a], offer.escrow)
      THEN settleAccept(w, t, a)
      ELSE finalizeRefund(w, t, NoFaults)

speak(w, c, a, next) ==
  LET v      == w.conversations[c]
      spoken == updateLastSpokenTurns(v, a, next, v.current_turn + 1)
  IN  createIntervalTimer(
        [cancel(closeWindow(w, a), TurnTimerOf(w, c, a))
           EXCEPT !.conversations[c] = spoken],
        c, a, next)

\* Slip: joiners may still come while the two part.
sayGoodbyeAwaitingJoiners(w, c, a, other) ==
  LET w1 == clearInactiveCheckState(cancel(w, TurnTimerOf(w, c, a)), c)
      v  == w1.conversations[c]
  IN  createIntervalTimer(
        [w1 EXCEPT !.conversations[c] =
           [updateLastSpokenTurns(v, a, other, v.current_turn + 1) EXCEPT
              !.status = "closing", !.closing_reason = "ended_by_agent",
              !.current_speaker = other]],
        c, a, other)

\* Of two, one says good-bye and the other is promised the last word.
sayGoodbye(w, c, a, other) ==
  LET w1 == discardPendingJoiners(
              clearInactiveCheckState(cancel(w, TurnTimerOf(w, c, a)), c), c)
      v  == w1.conversations[c]
  IN  createIntervalTimer(
        [w1 EXCEPT !.conversations[c] =
           [updateLastSpokenTurns(v, a, other, v.current_turn + 1) EXCEPT
              !.status = "closing", !.closing_reason = "ended_by_agent",
              !.current_speaker = other]],
        c, a, other)

\* Slip: the turn of the one that leaves is still timed.
leaveTheFloorOnTurn(w, c, a, next) ==
  LET turn == w.conversations[c].current_turn + 1
      w1   == expel([w EXCEPT !.conversations[c].current_turn = turn], c, a, TRUE)
  IN  createIntervalTimer(
        [w1 EXCEPT !.conversations[c].last_spoken_turns[next] = turn], c, a, next)

\* Of more, the speaker leaves and the others go on.
leaveTheFloor(w, c, a, next) ==
  LET v  == w.conversations[c]
      w1 == expel([cancel(w, TurnTimerOf(w, c, a))
                     EXCEPT !.conversations[c].current_turn = @ + 1], c, a, TRUE)
  IN  createIntervalTimer(
        [w1 EXCEPT !.conversations[c].last_spoken_turns[next] =
                     v.current_turn + 1], c, a, next)

\* A next speaker that cannot be named fails the call when its answer to an
\* offer has been carried out and its window is closed.
endConversationByAgent(w, c, a, next, response) ==
  LET w1     == IF response = None THEN w
                ELSE resolveConversationTransferResponse(w, a, response)
      w2     == closeWindow(w1, a)
      v      == w.conversations[c]
      parted == IF Len(v.participants) <= 2
                THEN sayGoodbye(w2, c, a, CHOOSE b \in Others(v, a) : TRUE)
                ELSE leaveTheFloor(w2, c, a, next)
  IN  IF Len(v.participants) > 2 /\ ~canNominate(v, a, next) THEN w2
      ELSE cancelPendingTransfersForAgent(parted, a, NoFaults)

(***************************************************************************)
(* Joining, and answering the inactive check.                              *)
(***************************************************************************)
canJoin(w, c, a) ==
  LET v == w.conversations[c]
  IN  /\ v.status = "active"
      /\ a \notin Members(v) \cup ToSet(v.joiners)
      /\ Len(v.participants) + Len(v.joiners) < MaxParticipants
      /\ w.agents[a].state \in {"idle", "in_action"}
      /\ w.agents[a].pending_conversation_id = None

\* Slip: the join takes effect in the middle of a turn.
joinConversationAtOnce(w, c, a) ==
  enterConversation(
    [interruptActivityOf(w, a) EXCEPT
       !.conversations[c].participants = Append(@, a)], c, a)

\* Slip: what the joiner was doing goes on.
joinConversationAlongside(w, c, a) ==
  enterConversation([w EXCEPT !.conversations[c].joiners = Append(@, a)], c, a)

joinConversation(w, c, a) ==
  enterConversation(
    [interruptActivityOf(w, a) EXCEPT !.conversations[c].joiners = Append(@, a)],
    c, a)

isAskedToStay(w, c, a) ==
  /\ w.conversations[c].status = "active"
  /\ a \in w.conversations[c].inactive

stayInConversation(w, c, a) ==
  resumeAfterInactiveCheck(
    [closeWindow(w, a) EXCEPT
       !.conversations[c].inactive = @ \ {a},
       !.conversations[c].last_spoken_turns[a] = w.conversations[c].current_turn],
    c)

leaveConversation(w, c, a) ==
  concludeOrContinueAfterLeave(
    cancelPendingTransfersForAgent(expel(closeWindow(w, a), c, a, TRUE),
                                   a, NoFaults), c)

handleInactiveCheckTimeout(w, timer) ==
  LET c       == timer.about.conversation
      fired   == cancel(w, timer)
      v       == fired.conversations[c]
      silent  == Kept(v.participants, v.inactive)
      drop(x, a) == cancelPendingTransfersForAgent(expel(x, c, a, TRUE),
                                                   a, NoFaults)
      upTo[n \in 0 .. Len(silent)] ==
        IF n = 0 THEN fired ELSE drop(upTo[n - 1], silent[n])
  IN  IF v.status # "active" THEN fired
      ELSE concludeOrContinueAfterLeave(upTo[Len(silent)], c)

(***************************************************************************)
(* The end of an interval, and of a turn nobody took.                      *)
(***************************************************************************)

\* While more than two are closing, the one that spoke departs.
closeAfterSpeech(w, c, speaker, next) ==
  LET v  == w.conversations[c]
      w1 == IF speaker \in Members(v) THEN expel(w, c, speaker, TRUE) ELSE w
      v1 == w1.conversations[c]
  IN  IF Len(v1.participants) <= 1 THEN endConversation(w1, c)
      ELSE scheduleTurnTimer(w1, c, IF next \in Members(v1) THEN next
                                    ELSE resolveResumeSpeaker(v1))

\* Between two, only the good-bye of one leaves the other a turn.
closeBetweenTwo(w, c, next) ==
  IF /\ w.conversations[c].closing_reason = "ended_by_agent"
     /\ w.conversations[c].current_speaker = next
  THEN scheduleTurnTimer(w, c, next)
  ELSE endConversation(w, c)

closeForMaxTurns(w, c, next) ==
  scheduleTurnTimer(
    [clearInactiveCheckState(w, c) EXCEPT
       !.conversations[c].status = "closing",
       !.conversations[c].closing_reason = "max_turns"], c, next)

handleConversationInterval(w, timer) ==
  LET c     == timer.about.conversation
      fired == cancel(w, timer)
      w1    == IF w.conversations[c].status = "active"
               THEN applyPendingJoiners(fired, c) ELSE fired
      v     == w1.conversations[c]
      next  == IF timer.about.next \in Members(v) THEN timer.about.next
               ELSE resolveResumeSpeaker(v)
  IN  IF v.status = "absent" THEN fired
      ELSE IF next = None THEN endConversation(w1, c)
      ELSE IF v.status = "closing"
      THEN IF Len(v.participants) <= 2 THEN closeBetweenTwo(w1, c, next)
           ELSE closeAfterSpeech(w1, c, timer.about.speaker, next)
      ELSE IF timer.about.turn >= MaxTurns THEN closeForMaxTurns(w1, c, next)
      ELSE IF InactiveMembers(v) # {} THEN startInactiveCheck(w1, c, next)
      ELSE scheduleTurnTimer(w1, c, next)

handleTurnTimeout(w, timer) ==
  LET c == timer.about.conversation
  IN  IF w.conversations[c].status = "absent" THEN cancel(w, timer)
      ELSE endConversation(cancel(w, timer), c)

(***************************************************************************)
(* A member that is called away by an announcement, or logs out.           *)
(***************************************************************************)

\* Slip: the one called away is off the list and keeps its own record.
beginClosingConversationOnPaper(w, c, speaker, departing) ==
  LET w1 == discardPendingJoiners(
              clearInactiveCheckState(cancelConversationTimers(w, c), c), c)
      w2 == [w1 EXCEPT !.conversations[c] =
               [removeParticipant(@, departing) EXCEPT
                  !.status = "closing", !.closing_reason = "server_announcement"]]
      v  == w2.conversations[c]
  IN  IF v.participants = <<>> THEN endConversation(w2, c)
      ELSE scheduleTurnTimer(w2, c, IF speaker \in Members(v) THEN speaker
                                    ELSE FirstOf(v))

beginClosingConversation(w, c, speaker, departing) ==
  LET w1   == discardPendingJoiners(
                clearInactiveCheckState(
                  cancelInConversationTransfersForConversation(
                    cancelConversationTimers(w, c), c), c), c)
      w2   == expel([w1 EXCEPT
                       !.conversations[c].status = "closing",
                       !.conversations[c].closing_reason = "server_announcement"],
                    c, departing, FALSE)
      v    == w2.conversations[c]
      next == IF speaker \in Members(v) THEN speaker ELSE FirstOf(v)
  IN  IF next = None THEN endConversation(w2, c)
      ELSE scheduleTurnTimer(w2, c, next)

\* The timers are set again only if it was the departing one's turn.
detachParticipantFromClosingConversation(w, c, a) ==
  LET w1 == expel(cancelPendingTransfersForAgent(w, a, NoFaults), c, a, FALSE)
      v  == w1.conversations[c]
  IN  IF Len(v.participants) <= 1 THEN endConversation(w1, c)
      ELSE IF w.conversations[c].current_speaker # a THEN w1
      ELSE scheduleTurnTimer(cancelConversationTimers(w1, c), c,
                             resolveResumeSpeaker(v))

leaveForAnnouncement(w, a) ==
  LET c == findConversationByAgent(w, a, {"active", "closing"})
      v == w.conversations[c]
      s == getConversationActionableSpeaker(v)
      others  == Without(v.participants, a)
      partner == IF s \notin {None, a} THEN s
                 ELSE IF others # <<>> THEN Head(others) ELSE v.current_speaker
  IN  IF c = None THEN w
      ELSE IF a \in ToSet(v.joiners) THEN detachPendingJoiner(w, c, a, FALSE)
      ELSE IF v.status = "closing"
      THEN detachParticipantFromClosingConversation(w, c, a)
      ELSE beginClosingConversation(w, c, partner, a)

\* handleServerAnnouncementInterruption of an agent that may converse.
handleInterruption(w, a) ==
  IF ~w.agents[a].announced THEN w
  ELSE IF w.agents[a].state = "in_conversation"
  THEN clearActiveServerAnnouncement(
         setState(leaveForAnnouncement(w, a), a, "idle"), a)
  ELSE handleServerAnnouncementInterruption(
         cancelPendingConversationForServerAnnouncement(w, a), a, NoFaults)

\* Who goes on when a is gone: the one an interval was for, else the one whose
\* turn it is, else the one after a.
SpeakerWithout(w, c, a, v) ==
  LET before  == w.conversations[c]
      waiting == {x \in ConversationTimers(w, c, {"conversation_interval"}) :
                    x.about.next \in Members(v)}
  IN  IF waiting # {} THEN (CHOOSE x \in waiting : TRUE).about.next
      ELSE IF before.current_speaker \in Members(v) THEN before.current_speaker
      ELSE FirstAfter(before.participants, a, Members(v))

forceEndConversation(w, a) ==
  LET c  == findConversationByAgent(w, a, {"active", "closing"})
      w1 == cancelConversationTimers(
              cancelPendingTransfersForAgent(w, a, NoFaults), c)
      w2 == [w1 EXCEPT !.conversations[c] = removeParticipant(@, a)]
      v  == w2.conversations[c]
  IN  IF c = None THEN w
      ELSE IF a \in ToSet(w.conversations[c].joiners)
      THEN detachPendingJoiner(w, c, a, TRUE)
      ELSE IF Len(v.participants) <= 1 THEN endConversation(w2, c)
      ELSE IF v.status = "active" /\ v.inactive # {}
      THEN createInactiveCheckTimer(w2, c)
      ELSE scheduleTurnTimer(w2, c, SpeakerWithout(w, c, a, v))
=============================================================================
