------------------------------ MODULE Choices ------------------------------
(***************************************************************************)
(* domain/choices.ts: the commands a notification offers to its agent.     *)
(* They are picked by conditions of their own, apart from the guards of    *)
(* the commands, and a command sent in a window first tears down what its  *)
(* agent is doing: a command offered and then refused costs the agent its  *)
(* activity or its offer for nothing.  Actions are listed by where the     *)
(* agent stands, whatever they cost, and items of all kinds in one line:   *)
(* those two may be refused.                                               *)
(*                                                                         *)
(* This is the prompt as most notifications carry it; forceShowActions,    *)
(* which an announcement sets, overrides the first condition.  Talking is  *)
(* left out: conversations are ConversationEngine's.                       *)
(***************************************************************************)
EXTENDS WorldEngine

canStartInterruptibleCommand(w, a) ==
  \/ w.agents[a].announced
  \/ /\ w.agents[a].state = "idle"
     /\ w.agents[a].pending_conversation_id = None
     /\ ~isInTransfer(w, a)

standsFree(w, a) ==
  /\ w.agents[a].state \in {"idle", "in_action"}
  /\ w.agents[a].pending_conversation_id = None
  /\ ~isInTransfer(w, a)

\* Positions are abstracted: any agent may stand within reach.
listStandaloneTransferCandidates(w, a) ==
  {b \in Agents \ {a} : LoggedIn(w, b) /\ standsFree(w, b)}

transferLine(w, a) ==
  /\ standsFree(w, a)
  /\ w.purses[a].items > 0 \/ w.purses[a].money > 0
  /\ listStandaloneTransferCandidates(w, a) # {}

\* Slip: a receiver is offered its answers in a window too.
pendingTransferLinesAnyTime(w, a) ==
  LET t == w.agents[a].pending_transfer_id
  IN  t # None /\ Live(w, t)

\* An answer sent in a window would cancel the very offer it answers.
pendingTransferLines(w, a) ==
  LET t == w.agents[a].pending_transfer_id
  IN  t # None /\ Live(w, t) /\ ~w.agents[a].announced

actionLines(w, a) ==
  {x \in Actions :
     canStartInterruptibleCommand(w, a) /\ isActionAvailable(w, a, x)}

infoLines(w, a) ==
  {command \in InfoCommands \ w.agents[a].excluded :
     canStartInterruptibleCommand(w, a) /\ ~isInTransfer(w, a)}

\* answers stands for accept_transfer and reject_transfer.
buildChoicesPrompt(w, a) ==
  [ move     |-> canStartInterruptibleCommand(w, a),
    wait     |-> canStartInterruptibleCommand(w, a),
    use_item |-> canStartInterruptibleCommand(w, a) /\ w.purses[a].items > 0,
    actions  |-> actionLines(w, a),
    transfer |-> transferLine(w, a),
    answers  |-> pendingTransferLines(w, a),
    info     |-> infoLines(w, a) ]

(***************************************************************************)
(* What becomes of a command that is sent at once: ready is the world once *)
(* it has interrupted its agent, faults the refunds that could not be      *)
(* written then.                                                           *)
(***************************************************************************)

\* The guards of the commands that are checked before the interruption.
activitiesAreValid(a, prompt) ==
  /\ prompt.move \/ prompt.wait \/ prompt.use_item => requireActionableAgent(world, a)
  /\ prompt.use_item => purses[a].items > 0
  /\ \A x \in prompt.actions :
       requireActionableAgent(world, a) /\ isActionAvailable(world, a, x)
  /\ \A command \in prompt.info :
       /\ requireActionableAgent(world, a) /\ ~isInTransfer(world, a)
       /\ command \notin agents[a].excluded

Pursuits == ActivityTypes \cup {"movement"}

\* The agent does what it asked for and nothing else.
Doing(w, a, state, type) ==
  /\ w.agents[a].state = state
  /\ \E timer \in w.timers : timer.type = type /\ TimersOf(w, a, Pursuits) = {timer}

activitiesBegin(a, prompt, ready, faults) ==
  /\ prompt.move => Doing(executeValidatedMove(ready, a), a, "moving", "movement")
  /\ prompt.wait => Doing(executeValidatedWait(ready, a), a, "in_action", "wait")
  /\ prompt.use_item =>
       Doing(executeValidatedUseItem(ready, a, "general"), a, "in_action", "item_use")
  /\ \A x \in prompt.actions : canAfford(world, a, x) =>
       Doing(executeValidatedAction(ready, a, x, faults), a, "in_action", "action")

\* What its agent keeps when a command is refused: everything outside a window,
\* and in one nothing of what it was doing or was offered.
Kept(w, a) ==
  IF agents[a].announced
  THEN /\ w.agents[a].state = "idle" /\ ~isInTransfer(w, a)
       /\ TimersOf(w, a, Pursuits) = {}
  ELSE /\ w.agents = [agents EXCEPT ![a].excluded = {}]
       /\ w.timers = timers /\ w.transfers = transfers /\ w.purses = purses

\* Offered all the same: a venue item, and an action that cannot be paid for.
refusalsKeep(a, prompt, ready, faults) ==
  /\ prompt.use_item => Kept(executeValidatedUseItem(ready, a, "venue"), a)
  /\ \A x \in prompt.actions : ~canAfford(world, a, x) =>
       Kept(handleServerAnnouncementInterruption(
              clearExcludedInfoCommands(world, a), a, faults), a)

\* To any candidate, of what a owns and the candidate has room for.
transferIsAccepted(a, ready) ==
  \A to \in listStandaloneTransferCandidates(world, a), payload \in Payloads :
    /\ Covers(purses[a], payload)
    /\ purses[to].money + payload.money <= MaxMoney
    => validateTransfer(ready, a, to, payload)

\* A prompt keeps its word, with two exceptions.  What it offers passes the
\* guards when it is sent at once, and after the interruption it causes in a
\* window, its refund written or not, it is begun or its transfer is valid.  The
\* exceptions are listed whatever they cost or are for: an action that cannot
\* be paid for and a venue item are refused, which costs the agent nothing
\* outside a window, and in one whatever it was doing or was offered.  And a
\* receiver is told of its answers exactly as long as it can give them.
OfferedIsAccepted ==
  \A a \in Agents : LoggedIn(world, a) =>
    LET prompt == buildChoicesPrompt(world, a)
        t      == agents[a].pending_transfer_id
    IN  /\ activitiesAreValid(a, prompt)
        /\ \A faults \in FaultSets(InterruptionWrites(a)) :
             LET ready == Interrupted(a, faults)
             IN  /\ activitiesBegin(a, prompt, ready, faults)
                 /\ refusalsKeep(a, prompt, ready, faults)
                 /\ prompt.transfer => transferIsAccepted(a, ready)
                 /\ prompt.answers <=>
                      t # None /\ canAcceptTransfer(ready, t, a)
                        /\ canRejectTransfer(ready, t, a)
============================================================================
