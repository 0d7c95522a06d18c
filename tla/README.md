# Karakuri World: verification project

TLA+ models of the Karakuri World server, the TLC configurations that check
them on small instances, and proofs of their main invariants that TLAPS checks
for every instance. Paths below are relative to the repository; `server/` is
`apps/server/src/`, `front/` is `apps/front/`.

Karakuri World is a shared world for autonomous agents. A Node.js server keeps
the world in memory; agents send commands over REST or MCP, learn what happens
from notifications in a Discord channel of their own, and answer with the next
command. A relay (a Cloudflare durable object) publishes snapshots of the world
that a spectator page polls.

## 1. The system

### Components

| Component | State it keeps | Operations | Modelled |
| --- | --- | --- | --- |
| `server/engine/world-engine.ts` | the stores below, `loggingInAgentIds` | register, delete, login, logout; one method per command; timer handlers | `WorldEngine`, `ConversationEngine`, `ServerEvents` |
| `server/domain/transfer.ts`, `engine/state/transfer-state.ts` | offers with escrow, roles of the agents, timer per offer | start, accept, reject, cancel, timeout, logout, recovery of failed refunds | `Transfer`, `Ledger`; `Conversation` for offers between members |
| `server/domain/wait`, `actions`, `use-item`, `movement`, `idle-reminder` | agent state, timer, purse, last action | validate, start, cancel, complete | `Activities` |
| `server/domain/server-announcements.ts` | announcements still awaited, interruption window per agent | fire, deliver on arrival, interrupt, clean up | `ServerAnnouncements`, `Activities`; `Conversation` for members and the invited |
| `server/engine/timer-manager.ts` | pending timers | create, cancel by id, agent or type, fire | `World` |
| `server/engine/state/agent-state.ts`, `world-state.ts` | registrations (as on disk), logged-in agents | login, logout, setters | `World` |
| `server/domain/inventory.ts` | none | grant, consume, merge, slots | `World`, one kind of item |
| `server/domain/info-commands.ts` | info commands excluded per agent | request, candidates | `requestInfo` of `WorldEngine`, `Choices` |
| `server/domain/conversation.ts` | conversations, turns, pending joins, four timers | start, accept, reject, join, speak, end, stay, leave, timeouts, forced end | `Conversation`, `ConversationEngine` |
| `server/domain/server-events.ts`, its store and its file | events; the active ones on disk | create, clear, ask, answer, restore | `ServerEvents` |
| `server/discord/event-handler.ts` | a queue of deliveries per agent, a log and a thread per conversation, ended conversations kept for a logout | notify on every world event | `DiscordEventHandler`, `DiscordNotifier` |
| `server/engine/snapshot-publisher.ts` | dirty flag, timer, post in flight, attempts | request, publish, retry, give up, dispose | `SnapshotPublisher` |
| `server/engine/agent-history-manager.ts` | buffered entries per agent, flush, attempts | record, flush, retry, give up, dispose | `AgentHistoryManager` |
| `server/discord/status-board.ts` | messages, refresh in progress, dirty flag, two timers | refresh, coalesce, follow time, dispose | `StatusBoard` |
| `front/worker/src/relay/bridge.ts` | latest snapshot, publication in flight or queued, alarm; a durable copy | ingest, publish, retry, restore after eviction, merge histories | `RelayBridge`, `HistoryDocuments` |
| `front/app/store/snapshot-store.ts` | snapshot, poll in flight, selection, history requests | poll, start, stop, select, expand, fetch history | `SnapshotStore` |
| `server/domain/map-utils.ts` | none | `findPath` | `MapPaths` |
| `server/domain/choices.ts` | none | choose what a notification offers | `Choices`, without the lines about conversations |
| `server/domain/perception`, `weather`, `time-utils`, `map-summary` | none | queries | no: they format what the stores hold |
| event bus, Discord bot, channels, notifications, admin commands, map renderer | none the engine reads back | text, images, API calls | no: I/O |
| storage, configuration, REST, MCP, relay contracts, user interface, skills | files, schemas, views | load, validate, dispatch, render | no; a disk write succeeds or throws as a whole in the models |

### How they interact

The server is single-threaded, so a command, a timer callback or an event
handler runs from beginning to end without interleaving, unless it awaits. In
the core only four methods are asynchronous. `loginAgent` awaits Discord between
reading the registration and creating the agent; `registerAgent` awaits Discord
before it does anything to the stores, and an agent being registered twice is
kept out, so it is modelled at the step that completes it; `deleteAgent` awaits
after its last change; `logoutAgent` never awaits, so `loggingOutAgentIds` is
always empty when another call looks at it.

What remains concurrent is the order of the steps: any agent's next command,
any timer, an announcement by an administrator, the end of a Discord delivery,
a login that completes, the end of the process. A command is validated, then an
open interruption window runs the announcement interruption, then the command
executes. Disk writes are synchronous and may throw. They happen in the middle
of handlers, and each call site treats the exception in its own way.

The engine reports each step as an event on its bus. Five parts listen, and all
of them are asynchronous, so their state is at the mercy of what happens while
they await:

```
engine --events--> SnapshotPublisher ----POST snapshot--> RelayBridge --put--> object <--poll-- SnapshotStore
       --events--> AgentHistoryManager --POST entries---> RelayBridge --put--> documents <------/
       --events--> StatusBoard --------> messages of a Discord channel
       --events--> DiscordEventHandler -> agents' channels, conversation threads, world log
```

Nothing flows back but a delivered notification, which closes an interruption
window and ends the suppression of a rejected action. So the observers compose
with the engine through an environment that emits any event at any time.

### What is hard, and what must hold

`PROJECT.json` lists the hazards at their lines. For the core they are these:

- *Transfers.* An offer ties two agents, an escrow, a timer, a record in memory
  and two registrations on disk together, and it ends in eight ways: accept,
  reject, full inventory, money overflow, timeout, interruption of either side,
  logout of either side, a write that throws. Value must neither appear nor
  vanish, and nobody may stay tied to an offer that is gone.
- *Timers.* Each activity is ended by its timer, and an activity may be pulled
  away by another agent's offer or by an announcement. A timer left behind
  completes something that is no longer going on; a timer lost leaves the agent
  busy for ever.
- *Announcements.* An agent that moves hears an announcement on arrival. Two
  structures, the agent's list and the announcement's list, say who still waits.
- *Conversations.* A conversation is the sum of its own record, the records of
  its members, of those who wait to join and of the invited, one timer out of
  four kinds, and the offers between members. Speaking, leaving, logging out,
  falling silent and being called away each change a part of it at any moment,
  and whatever they leave must be a conversation that still waits for something.
- *Coalescing workers.* The publisher, the histories and the board gather
  requests and serve the newest. A request that comes in the middle of serving
  must be served after it, also through failures, back-off, giving up and
  shutdown; and a worker must not believe that it is running when it is not.
- *Publication.* A post may be repeated while the first is still being written,
  the relay may vanish in the middle, answers may come in any order: spectators
  must not see the world go backwards, nor a change be forgotten.
- *Notifications.* Handlers that await interleave; the order of what an agent or
  a thread gets to see depends on queues that not every call goes through.
- *Memory and disk.* After every write that throws the handler must leave
  memory as the disk is, or report that it did not.

## 2. Modules

| Module | Models | Shape |
| --- | --- | --- |
| `World` | stores, timers, purses, persistence | operators from a world to a world |
| `Activities` | `requireActionableAgent`; start, cancel and completion of wait, action, item use, move; idle reminder; arrival | operators |
| `Transfer` | the whole of `transfer.ts` in standalone mode | operators; `faults` says which writes throw |
| `ServerAnnouncements` | `server-announcements.ts` | operators |
| `Ledger` | what the economy promises: balances change by endowment, spending, earning, payments at once, forfeiting | abstract specification |
| `Conversation` | the whole of `conversation.ts`, the in_conversation mode of `transfer.ts`, the conversation branch of the interruption | operators |
| `ConversationEngine` | one action per conversation command and timer handler, with login, logout, waiting and announcements; properties | state machine |
| `WorldEngine` | one action per engine method, timer handler and await step; properties | state machine |
| `Choices` | `choices.ts`: which commands a prompt offers, and what would become of them | operators and a property of `WorldEngine` |
| `ServerEvents` | server events, their file, the exclusion of `get_event`, the answers in the agents' queues | state machine |
| `Null`, `Clock` | `None`; `Date.now()` in steps | shared |
| `SnapshotPublisher` | the whole of `snapshot-publisher.ts` | operators and state machine (`PublisherSpec`) |
| `RelayBridge` | snapshots in `bridge.ts`: state, alarm, durable copy, boot | operators |
| `PublishedObject` | what spectators rely on: the object never becomes older | abstract specification |
| `PublishingPipeline` | publisher, network, relay and object store with their faults | composition |
| `AgentHistoryManager` | the whole of `agent-history-manager.ts` | operators |
| `HistoryDocuments` | history merging in `bridge.ts`, an operation with its awaits | operators |
| `HistoryPipeline` | manager, network, relay, documents | composition |
| `StatusBoard` | the whole of `status-board.ts` with the channel and the clock | state machine |
| `SnapshotStore` | `snapshot-store.ts` | operators |
| `Spectators` | the store, its user, caches, an object that is a `PublishedObject` | composition |
| `DiscordEventHandler` | handlers as sequences of steps, queues, log, thread | operators |
| `DiscordNotifier` | the handler between events in any order and calls that end in any order | composition |
| `MapPaths` | `findPath`, one step per node it takes, and a reference | algorithm |
| `MCWorldEngine`, `MCConversationEngine`, `MCPublishingPipeline`, `MCObservers` | catalogue, payloads, symmetry, choice of a part for the checked instances | model |
| `SumProofs`, `WorldProofs` | lemmas on sums over stores and on what one update of a world keeps | proofs |
| `WorldEngineProofs`, `EconomyProofs` | theorems of `WorldEngine` and `Choices` | proofs |
| `ConversationProofs`, `ConversationCourseProofs` | theorems of `ConversationEngine`: its invariant; money and closing | proofs |
| `PublishingPipelineProofs` | theorems of the publisher and the pipeline | proofs |
| `ObserversProofs` | theorems of `ServerEvents`, `DiscordNotifier`, `Spectators`, `HistoryPipeline`, `MapPaths` | proofs |

A domain function is an operator that maps the world it finds to the world it
leaves, named like the function. `WorldEngine` packs its variables in `world`,
applies such an operator and unpacks the result with `Become`. A call that
throws before it changed anything is a call whose guard is false. A call that
throws after it changed something (an answer refused after the interruption, a
debit that cannot be written) is a step.

There are two state machines over the same operators. `WorldEngine` has agents
that never converse and disk writes that throw; `ConversationEngine` has
conversations, logins in one step and no failing write: that a logout which cannot
be written back leaves its agent `in_conversation` in a conversation that no longer lists it
(`server/engine/world-engine.ts:409-416`) is read from the code and not modelled. Each
leaves out what the other is about, because the product is beyond model checking; the operators of
`World`, `Activities`, `Transfer` and `ServerAnnouncements` are shared, so both
check the same handlers.

`PublishingPipeline` is a composition in the other sense: it `EXTENDS` both sides,
adds the posts on their way (`transit`), and each of its actions conjoins one
action of the publisher with what the network and the relay do in the same step.
`Spectators` does not extend it: it takes the object as the abstract
`PublishedObject` promises it, which `PublishingPipeline` is shown to implement. The
parts in `MCObservers` share no state; a behaviour is one of a single part, so
one run checks them all without multiplying their states.

An `async` function is cut at its `await`s. What is still to be done after one is
a value (`publisher`'s `post`, `relay.put`, `board.refresh`, `viewer.poll`, `flush`,
the steps in `desk.sends` and `desk.queues`), and the code up to the next await
runs in the step that takes the answer. What the code read before the await is
part of that value: the snapshot being published, the copy of the state to be
written back, the choices a prompt leaves out.

| Variable | Code |
| --- | --- |
| `agents[a]` | `LoggedInAgent`, with `"logged_out"` for no entry |
| `purses[a]` | `money` and `items` of `LoggedInAgent` |
| `transfers[t]` | `TransferStateStore`; `"absent"` for no entry |
| `announcements[n]` | `pending_agent_ids` of announcement `n`; empty when it has left the store |
| `timers` | `TimerManager.timers` |
| `registrations[a]` | the money and items of the `AgentRegistration`, in memory and on disk |
| `loggingIn` | `loggingInAgentIds` |
| `events`, `eventsFile`, `asked` | `ServerEventStore`, `server-events.json`, `get_event` in the agents' `excluded_info_commands` |
| `deliveries` | `agentMessageDeliveries`, as far as it holds answers about server events: the text is made when the agent asks |
| `toldEvents`, `missed`, `unsaved` | history: what the last answer delivered said, whose last answer was lost, whose logout ended a conversation and could not be written back |
| `publisher`, `post` | the fields of `SnapshotPublisher`; the snapshot an awaited fetch carries |
| `relay` | `state`, the alarm, the durable copy (`disk`) and the publication in flight (`put`) of `UIBridgeDurableObject` |
| `object`, `documents` | the objects of the object store |
| `history` | the fields of `AgentHistoryManager`; `operations` are `serializedOperations` of the relay, each with the documents it has left to write, the one it is `at` and what it read of it |
| `board`, `channel` | the fields of `StatusBoard`; the messages of its channel |
| `viewer`, `histories` | the snapshot store; its history cache and requests |
| `desk`, `posts` | the maps of `DiscordEventHandler` with the calls under way; what reached the thread and the log |
| `walls`, `search` | the map; the variables of a call of `findPath` |
| `conversations[c]` | `ConversationStateStore`; `joiners` is `pending_participant_agent_ids`, `inactive` is `inactive_check_pending_agent_ids` |

Abstractions, and why they lose nothing the properties speak of:

- *Positions and paths* are left out: any two agents may be near each other, any
  agent may move. The models allow more than the code does.
- *Durations* are left out: any pending timer may fire next. So the properties
  hold whatever the configured durations and however late a callback runs.
- *Items* are of one kind in a bounded inventory; stacks and the merging of
  several kinds are not modelled.
- *The contents of a snapshot* are the number of changes it shows, with the
  times the code compares. An *entry of a history* is its number, the set of its agents
  and its conversation; which post of a flush is sent first, and which conversation's
  document an operation writes first, is left open. A *message* is what it is about.
- *Time* matters to the publisher's back-off, the relay's alarm and the board:
  there `Clock` counts, and a timer may fire once it is due, at once or late.
- *The input gate* of a Durable Object is closed while its storage is read or
  written, so these awaits are no steps of their own.
- *Metrics, statistics, logging, authentication and parsing* are left out.
- *Which announcement* opened a window is only compared with null by the code:
  `announced` is a Boolean.
- *Identifiers* of offers and announcements are UUIDs. A model id may be used
  again once nothing refers to it.
- *`settling_accept` and `settling_refund`* last inside one synchronous call.
- *`last_used_item_id`, `last_rejected_action_id`, node ids, names, recent
  announcements* only shape texts and suggestions.
- *What is said* and the threads it is said in are left out. A timer keeps of its
  payload what its handler reads: the conversation, who spoke, who is next, the
  turn.
- *Items and money in a conversation*: one coin is enough, because capacity and
  throwing writes are `WorldEngine`'s subject.
- *The end of the process*, by a crash or by `dispose`, is one step, `restart`.

Operators commented "Slip" are deliberately wrong variants of the operator that
follows them. No specification uses them: each is the bug one of the properties
is known to detect (`mutants` in `PROJECT.json` says which).

## 3. What TLC checks

A handler may make several writes, and any of them may throw: at every step
every subset of its writes whose kind is in `FailingWrites` is tried. Only the theorems
let the write of an activity throw, which the code reports and goes on from: it would
multiply the states of `announcements` beyond the time a check may take.

| Run | Instance | Question | Distinct states |
| --- | --- | --- | --- |
| `transfers` | 2 agents, 2 offers, money and items, buying, five kinds of failing write | is value conserved however an offer ends, do roles, timers and disk stay consistent, and is the engine a `Ledger`? | 75,636 |
| `announcements` | 2 agents, 1 offer, 2 announcements, 1 info command, refunds may fail | does the interruption tear down exactly what was going on, does every mover hear what it missed, and is what a prompt offers begun, but for two exceptions? | 128,207 |
| `liveness` | 2 agents, 1 offer, 1 announcement, refunds may fail, no symmetry | is every offer settled, every announcement heard? | 1,301 |
| `conversations` | 3 agents, 1 conversation, 1 offer, 5 turns, no symmetry | do the records of a conversation, its timer and its offers agree in every order of commands and timeouts, and does it end? | 50,532 |
| `conversation_windows` | 3 agents, 1 conversation, 1 announcement, 5 turns | is anybody called away left half in a conversation? | 13,119 |
| `pipeline` | 2 changes of the world, 3 faults of 6 kinds, 2 attempts, under fairness | is no request, no failed write, no change forgotten, and does the object never become older? | 1,242,000 |
| `observers` | see below; six parts, one per behaviour | do the other observers, the server events and path finding keep what they promise? | 1,718,017 |
| `inactive_checks` | 4 agents, 1 conversation, 5 turns | does an inactive check always time out? **No** | |
| `invitations` | 2 agents, 1 conversation, 1 announcement | does an interruption always dissolve an invitation? **No** | |
| `relay_newest` | 2 changes, 1 post that times out | does the relay keep the newest snapshot? **No** | |
| `idle_reminder` | 1 agent, 1 announcement | is an idle agent always reminded? **No** | |
| `venue_item` | 1 agent, 1 announcement | does a venue item change nothing in a window? **No** | |

Properties of the core, defined and explained in `WorldEngine.tla`:

- `TypeOK`: types, and no negative amount anywhere.
- `TransferRoles`: an open offer, its two roles and its timer exist together.
- `TimersMatchState`: a busy agent has exactly the timer that will free it;
  no timer outlives what it times.
- `AnnouncementsAwaitMovers`: both sides of "still waiting" agree, and only
  moving agents are waited for.
- `MemoryMatchesDisk`: whenever the unreported writes succeed or are undone, a
  restart would give an agent what it owns.
- `ValueConserved`: only registration, deletion, buying, rewards, item use and a
  restart change the total of what is owned and in escrow.
- `ImplementsLedger`: counting escrow as the sender's, the two-phase hand-over
  refines payments that happen at once or not at all.
- `MoversHearAnnouncements`: a journey ends by arriving, and an arrival with
  something to hear opens the window.
- `OnlyWindowsInterrupt`: without a window nothing makes a busy agent idle but the
  timer of what it does, or a transfer that pulls it in and cannot be written.
- `OfferedIsAccepted` (`Choices.tla`): a command a prompt offers is begun when it is
  sent at once, after the interruption it causes in a window and whether its refund
  can be written or not; the answers to an offer are offered exactly as long as they can be
  given. Two commands are offered and refused, and the property says what that
  costs: an action that cannot be paid for (or whose items are missing) and a venue
  item leave the agent with everything outside a window, and idle in one. See the
  observations.
- `OfferSettles`, `AwaitedAnnouncementArrives`: liveness.

Properties of conversations, in `ConversationEngine.tla`:

- `MembershipAgrees` (in `conversation_windows`, whose announcements add to what can
  happen to members): an agent's state, the conversation its record names and the
  two lists of that conversation say the same.
- `InvitationsAgree`: both agents of an invitation are marked, and nobody else.
- `ConversationsAreTimed`: a conversation has one timer, for what it waits for.
- `TimersMatchState`: what an invitation or a join interrupts does not go on.
- `OffersStayBetweenMembers`: an offer is held by two members, and settled before
  one of them goes or the conversation ends. True of three agents, not of four: see the
  observations below.
- `MoneyIsConserved`: offers between members neither make nor lose money.
- `MembersComeAndGoInTurn`: joins take effect between turns only, and who goes
  has logged out, spoken last, fallen silent or been called away.
- `ClosingIsFinal`: a closing conversation admits nobody and ends.
- `ConversationsEnd`: liveness.

Properties of publication, in `SnapshotPublisher.tla` and `PublishingPipeline.tla`:

- `RequestsAreTakenUp`: a request that counts has a timer or a loop that will
  serve it; the publisher never waits for a loop that is over.
- `QuietMeansServed`: nothing left to do means the relay answered for the world
  as it is.
- `UnpublishedIsRetried`: while the object is older than the relay's newest
  snapshot, somebody is going to write it.
- `EvictionForgetsNothing`: a relay evicted between publications boots with the
  snapshot, the retry and the alarm it had.
- `ImplementsPublishedObject`: the object never becomes older (refinement).
- `ChangesArePublished`: liveness.

Properties of the observers, in the modules named:

- `RecordedIsKept`, `BufferIsFlushed` (`HistoryPipeline`): an entry stays buffered
  until both its documents hold it, only a full buffer drops one, and what is
  buffered is going to be posted unless the manager gave up.
- `BoardFollowsTheWorld` (`StatusBoard`): once it has nothing to do before a later
  time, the channel shows the world as it is; after the shutdown, that it stopped.
- `ScreenNeverGoesBack`, `StoppedScreenStays`, `QueuedPollsFollow`,
  `HistoriesInOrder`, `SelectionIsOnScreen` (`Spectators`): answers in any order, of
  polls started before the last stop too, never show an older world or history,
  or a selection the screen has lost.
- `LogEndsWithTheEnd`, `ForcedEndsAreConsumed`, `RejectionIsKeptUntilShown`
  (`DiscordNotifier`): nothing follows the archive of a thread; a conversation that
  a logout ended is remembered for that logout only, unless the logout could not be
  written back; a rejected action is left out of the choices until a message without
  it arrived.
- `AskedAgentsAreUpToDate` (`ServerEvents`): an agent is not offered `get_event` only
  while the last answer in its queue, or the last one delivered when there is none, is
  true - or that answer was lost on its way, see the observations.
- `PathIsShortest` (`MapPaths`): `findPath` finds a shortest path or there is none.

Bounds. Two agents are the two sides of an offer. Instances of three, with two
offers at once, add competition for the same receiver and nothing else, because
an agent has one role; the theorems of section 4 cover them. Two offers let one stay `refund_failed` while
another runs. Two announcements let one be awaited while another opens a
window. `InitialMoney` 1 and `MaxMoney` 2 make a purse that is empty and one
that overflows reachable, `MaxItems` 1 makes a full inventory reachable; an
action that turns a coin into an item gives both payloads a source. The
theorems of section 4 hold without these bounds.

In a conversation, three agents are the least that make it a group: one can leave
the floor to two, wait to join two, or fall silent between two. Five turns with a
check after two let the check and the limit happen, and the one after the other; conversation
ids are used again after the end, so a stale id would be seen. Two things need a
fourth agent or an announcement, and there the code fails, see below.

In `pipeline`, two changes are the least that can overtake each other, two
attempts make a post be retried and then given up, and three faults allow, for
instance, a post that times out while the relay writes on, a write that fails and
an eviction before the alarm. A kill or a stop is one of the faults. The
publications the relay retries have the back-off 1, 2, 2, ... as in the code, in
shorter units.

In `observers`: two agents share a conversation and three buffer places are filled
by events that concern one or both; a buffer of two and documents of one entry
overflow, and one flush may fail. A spectator sees two versions, starts and stops
polling twice and makes two history requests. The board shows an agent that walks
two nodes of two ticks, weather fetched every three, two events and one fault (a call
that fails, or a message somebody deletes) up to time five, in two messages. Three
agents are notified in the mixes of events and faults that `MCDiscordBudgets` lists: two
events of single agents or three of a conversation with a call or the write of a logout that
fails, or one of the first kind among two of the second without. Three events are a
conversation, the logout that ends it and fails, and the one that makes up for it. Two agents
ask about two events over two restarts, with two answers at most on their way to each: the
second is asked for after an activity or a change, and the first may be out of date. Every 3 by 3 map, start and goal is searched: walls force detours there.
Several parts stop when their bounds are used up, and a search ends, so the runs that hold
them do not check for deadlock.

Fairness. In `WorldEngine`, `FairSpec` asks for weak fairness of movement completion and of the
offer timeout, for each agent and offer. A timer is a `setTimeout` that fires
while the process runs. Nothing is asked of commands, deliveries, logins or
announcements, nor that a process keeps running: a restart makes both
properties true by ending the offer or the wait. In `ConversationEngine` it asks
that each of the four conversation timers fires, once it is pending, unless it is
cancelled; nobody has to speak, answer, stay or leave. In `PublishingPipeline`
it is weak fairness of `Work` as a whole: timers and alarms that are due
fire, and calls end with an answer or an error, so the system does not stand still
while one of these can happen. Time passes only while something waits for it.
No change has to occur, and no fault has to end anything.

What can be lost, and where the properties say so:

- a restart loses open offers and failed refunds, whose escrow is in memory only
  (`restart` is among the steps of `Exchange`);
- recovery of a failed refund merges without looking at the capacity, so a
  registration may hold more than fits; a later refund to such an agent then
  drops items (`inventory_overflow_on_refund`). `ConserveStep` allows items, and
  never money, to be lost when refund writes can fail;
- the writes after paying for, or being rewarded by, an action are reported and
  not undone (`MemoryMatchesDisk` excludes instances where those fail);
- an answer to an offer given inside a window cancels the very offer it answers,
  by the interruption that precedes it, and is then refused.

Five findings, where a document says otherwise than the code:

- `idle_reminder`: an interruption makes the agent idle and starts no reminder
  (`server/domain/server-announcements.ts:215`). If the command that caused it is
  then refused, the agent stays idle with none pending;
  `docs/design/detailed/01-data-model.md:267` promises one every `interval_ms`.
- `venue_item`: `useItem` interrupts before it refuses a venue item
  (`server/engine/world-engine.ts:475`), so an agent in its window loses its
  activity; `docs/design/detailed/07-server-announcements.md:38` says that a venue
  item changes no state.
- `inactive_checks`: the timer of a check is filed under all the agents it asks
  (`server/domain/conversation.ts:568`). One of them leaves, and logs out:
  `cancelByAgent` (`server/engine/world-engine.ts:418`) cancels the timer the
  others wait for, and if they stay silent the conversation never goes on.
  `docs/design/detailed/06-conversation.md:166` promises the timeout. The same
  happens to the turn timer of a closing conversation of three when one of them,
  not the speaker, is called away by an announcement and logs out
  (`server/domain/conversation.ts:1556`). `ConversationsAreTimed` and
  `ConversationsEnd` hold for three agents without announcements and fail beyond.
- `invitations`: an agent may invite itself
  (`server/domain/conversation.ts:738-764`). An announcement that interrupts it
  deletes the conversation and, finding no target, returns before it clears
  `pending_conversation_id` (`:1621`); the agent can then neither invite, join nor
  trade until it logs out, though `docs/design/detailed/06-conversation.md:100`
  says that the interruption dissolves the invitation.
- `relay_newest`: `publishLatestSnapshot` copies the state, awaits the object store
  and assigns the copy back (`front/worker/src/relay/bridge.ts:1399`). A newer
  snapshot that arrived meanwhile, after the server gave the first post up, is
  thrown away though it was answered with 204; the publication that was queued
  for it writes the old one. `docs/design/detailed/13-ui-relay-backend.md:70` says that
  it is the older one that is discarded. Until the next change, spectators
  see the old world, so `ChangesArePublished` excepts it (`overtaken`).

Observations. What the models showed, that no document forbids:

- A prompt lists actions by where the agent stands (`server/domain/choices.ts:50-62`), not by
  what they cost or need, and the items of an agent of every type in one line. An action that
  cannot be paid for is then rejected (`server/domain/actions.ts:230-247`), as
  `docs/design/detailed/05-actions.md:95` says; but in a window the rejection and the refusal of
  a venue item come with the interruption (`server/engine/world-engine.ts:446-460`, `473-477`), so
  that an agent that follows its prompt loses the activity or the offer it had for nothing.
  That is where `OfferedIsAccepted` makes its exceptions; what they lead to are the
  findings `idle_reminder` and `venue_item`.
- A logout that ended a conversation may fail to be written back
  (`server/engine/world-engine.ts:416`). The agent then stays logged in and no
  `agent_logged_out` follows, so the handler that has put the conversation aside for it
  (`server/discord/event-handler.ts:907`) tells nobody: the partners learn that their
  conversation is over when one of its members logs out the next time, and then by that member's
  name (`1905-1920`). `ForcedEndsAreConsumed` excepts it (`unsaved`).
- An answer about the server events that Discord does not take is not repeated, and
  the agent was marked as informed when it asked
  (`server/domain/info-commands.ts:104-141`): it is told nothing and refused a second request
  with 409 `info_already_consumed` until its next activity or the next change of the events.
  `docs/design/detailed/07a-server-events.md:23` speaks of a consumed request, not of a delivered
  answer. `AskedAgentsAreUpToDate` excepts it (`missed`).
- The relay answers 204 to a post whose snapshot it has queued behind a
  publication in flight. If it is evicted then, the publication is
  not resumed until another post comes (`forgotten`).
- A published object carries `published_at` no earlier than `last_publish_error_at`, so the
  staleness the page derives from comparing them (`front/app/store/snapshot-store.ts:464`)
  never shows.
- `dispose` of the publisher, or of the histories, while a post is in flight lets
  that post end and starts no other: what was requested during it is not sent.
- What is requested during the last failing attempt waits, after giving up, for
  the next request; it is the next event that makes up for it.
- `stopPolling` forgets a history request and leaves its entry, or the first
  snapshot, marked as loading.
- With four agents, an agent may leave a conversation while its offer in it is open, so that
  `OffersStayBetweenMembers` fails. A member logs out during an inactive check: the turn
  goes to the former speaker (`server/domain/conversation.ts:1648`), whose own offer is still
  waiting. In the closing that follows the maximum of turns it may say its good-bye before
  the one it made the offer to, and the interval after it takes it out of the conversation
  without settling the offer (`:1388`). Nothing is lost: the
  offer is answered, times out or is settled when one of the two logs out.
- The cached outcome of an offer in a conversation is consumed by whichever listener is
  told first, also by one whose text does not mention it.
- An interruption window is closed by any delivery to the agent, one that failed
  or that was queued before the announcement too, as it is closed in a `finally`
  (`server/discord/event-handler.ts:1828`);
  `docs/design/detailed/07-server-announcements.md:52` lets the next notification that was
  delivered normally close it. The engine's properties hold for a window closed at
  any time.
- An announcement is delivered with `forceShowActions`
  (`server/discord/event-handler.ts:1107`): an agent that started something since is
  offered what it may no longer send. And a member with an offer waiting is told to
  answer by `conversation_speak` between turns too (`server/domain/choices.ts:91`), which is
  refused until its turn. `OfferedIsAccepted` is about the other prompts and lines.
- Weather that is late makes the board refresh again without a pause
  (`server/discord/status-board.ts:265`), and weather overdue when a refresh begins
  hides a node the agent passes during that refresh until something else happens;
  `BoardFollowsTheWorld` excepts both (`troubled`).
- A delivery that fails in `handleConversationEnded` keeps the participants after
  it from being told, and the thread from being archived.
- The world log of a logout may precede the end of the conversation it ended, and
  a leave may be posted to the world log after the end: both await outside the log.

## 4. What is proved

### The engine

`WorldEngineProofs` proves, for every set of agents, offers, announcements,
actions and info commands, every catalogue and every set of failing writes:

| Theorem | Statement |
| --- | --- |
| `Invariance` | `Spec => []IInv` |
| `TypeCorrectness` | `Spec => []TypeOK` |
| `OffersAreHeld` | `Spec => []TransferRoles` |
| `TimersAgree` | `Spec => []TimersMatchState` |
| `OnlyMoversAreAwaited` | `Spec => []AnnouncementsAwaitMovers` |
| `DiskIsUpToDate` | `Spec => []MemoryMatchesDisk` |
| `MoversAlwaysHear` | `Spec => MoversHearAnnouncements` |
| `OnlyWindowsEverInterrupt` | `Spec => OnlyWindowsInterrupt` |
| `OfferedIsAlwaysAccepted` | `Spec => []OfferedIsAccepted` |
| `BooksAreSound` (`EconomyProofs`) | `Spec => []Bookkeeping` |
| `ValueIsConserved` (`EconomyProofs`) | `Spec => ValueConserved` |
| `EngineIsALedger` (`EconomyProofs`) | `Spec => ImplementsLedger` |

The assumptions are `WorldAssumption` and `EngineAssumption`: `Agents` and `Transfers`
are finite (what there is in all is a sum over them), `None` is no identifier, bounds
are naturals, the catalogue is typed, payloads hold something. `EngineIsALedger` assumes
besides that the reported write of an activity does not fail, as the run does: after one
that did, a restart gives back what was spent.

The argument. `IInv` is one invariant for all five properties, because none is
inductive alone: an answer finds the offer through the role, the release of
roles needs the timer to be the offer's, a completion needs that no other timer
is filed under the agent, a refund that the sender is registered. It is
`Good(world)` together with: who is logging in is registered and not logged in.
`Good` is a conjunction of named parts: the typing of the stores (`Worlds`), the
roles of offers (`Roles`), timers against states (`Timing`), announcements
against movers (`Waiting`), which together are `Control`, and memory against disk
(`Saved`).

Since a handler is a composition of operators on worlds, the proof follows the
composition. `WorldProofs` states what one update keeps (a purse, a state, a
timer) and what releasing roles, refunding, opening and settling
keep, in which intermediate worlds the parts are broken and by which call they
are mended. `WorldEngineProofs` has one lemma per action and combines them in
`Invariance`; the invariants are projections.

The two action properties come with the same case analysis: the lemma of an action
says whom it disturbs (`Steady(v, w, S)`: the state of nobody outside `S`
changes), and `Undisturbed` follows because the agent that acts is idle or in its
window (`ActorUndisturbed`). What is left are the arrivals, the completions and a
transfer that is refused by the disk after its two agents left what they did.

`EconomyProofs` counts. Its inductive invariant is `Bookkeeping`, `IInv` with `Sound(world)`:
an offer no longer kept is blank, an open one holds a payload, and unless
refunds may fail, what an agent owns fits its inventory together with what its open offer
holds. That last part is what makes a refund exact: `credit` drops what does not fit.
Every operator of the engine is then an emptying of offers into one agent's purse or
registration (`Emptied`: refunds, recovery, acceptance), an opening (`OpenEven`),
one purse changed (`Changed`: paying, earning, using an item) or nothing at all to
the stores (`SameStores`). `EmptyingTotal` and `EmptyingShare` say what an emptying does to
the total and to the share of one agent, from three facts on `SumOver` (`SumSame`,
`SumUnion`, `SumZero`), for any number of offers at once: a logout recovers them all.
`Even` collects the result for one operator (sound, total kept, nobody richer) and
composes (`EvenTwice`), so that a handler is even because its parts are. `Traded` is what
every step is: conserving or an `Exchange`, and a step of the ledger, where an acceptance
is a `Payment` and everything an offer goes through before and after is no step at all, or
the loss of items that a recovery had overfilled.

`OfferedIsAccepted` follows from `IInv` and from what an interruption leaves behind:
its agent is idle, without a role and without a timer of its own (`ReadyToAct`), whichever
refunds could not be written, so that each activity that is begun has the one timer that
will end it (`ActivitiesBegun`) and what is refused leaves the agent idle (`RefusalsKept`).
Outside a transfer it touches no purse, no role and no other agent, and inside one it
leaves its agent without a role, so that no answer given in a window can be taken.

Sums over stores are cardinalities (`SumOver`) so that no recursive operator stands
between the models and the prover.

### Conversations

`ConversationProofs` proves, for every set of agents, conversations, offers and
announcements and every bound on turns, members and inactivity:

| Theorem | Statement |
| --- | --- |
| `ConversationIsSound` | `Spec => []IInv` |
| `MembershipAlwaysAgrees` | `Spec => []MembershipAgrees` |
| `TimersAlwaysMatchState` | `Spec => []TimersMatchState` |
| `InvitationsAlwaysAgree` | `Announcements = {}` implies `Spec => []InvitationsAgree` |

They assume `WorldAssumption` and `ConversationAssumption`. Only the last one says
something of its constants. With an announcement it is false (finding `invitations`): one
that calls away an agent that invited itself deletes the invitation and leaves the mark.
The other half, that both agents of an invitation are marked, is in `IInv` with
announcements too, and the other three theorems hold with them.

The argument. `IInv` is `Sound(world, {})`. `Sound(w, leaving)` has the shape of the
stores (`Shape`) and, for every agent, its state against its marks and its own timers
(`InState`); for every conversation, that a pending one is an invitation of two agents, both
marked, whose initiator is idle (`Invites`), that the lists of a running one are of
distinct agents, within the limit, whose records name it (`Lists`), and that one that does
not run has no turn or interval timed (`Untimed`). `Placed` and `Marked` are the other
direction: the conversation that a record names runs and lists the agent, and so does the
invitation. They are what is broken inside a handler, between the moment an agent is taken
off the lists and the moment its record is cleaned up; `leaving` are the agents for which
they are. A handler is sound at its two ends with nobody leaving.

`MembershipAgrees` is not inductive alone. A late `conversation_turn` would
make a deleted conversation run again without `Untimed`; an acceptance relies on the
initiator having stayed idle, or it would be in two conversations; and an invited agent that
waits is freed by the acceptance only if its wait is the timer it has.

The proof follows the code's operators. `Quiet` steps touch nothing `Sound` is about
(offers, purses, windows, checks: most of the calls in the middle of a handler). `Goes` steps keep
`Sound` for the agents given and end no conversation, `Keeps` steps may end them;
`Fades` says besides that no agent is invited or enters by them, which is what
lets the next call of the handler rely on what an earlier one found. `CleanupIs`
describes `cleanupParticipants` for any set of agents, `EnterSound` and `InviteSound` put
agents into conversations under the conditions the code has checked (`MayEnter`,
`MayInvite`), `GoneSound` takes one out of the world. The rest is one lemma per handler.

Loops are recursive functions in `Conversation` (`Kept`, `Without`, the silent members, the
offers). What they compute is proved by their least counterexample (`LeastOf`), since the
induction rules of the library take an operator. `TimersMatchState` holds whatever order
`SetToSeq` gives the offers.

`ConversationCourseProofs` proves what happens in the course of a conversation, above `IInv`:

| Theorem | Statement |
| --- | --- |
| `MoneyAlwaysConserved` | `Spec => []MoneyIsConserved` |
| `ClosingAlwaysFinal` | `Spec => ClosingIsFinal` |

Money. The invariant is `Balanced(world)`: `Coffers`, that what a logged-in agent has in its
purse is what it is registered with, and that an offer holds an escrow exactly between its
opening and its settlement; and `Stock`, that registrations and escrows together are what all agents
began with. `Owned` reads the purse of some agents and the registration of others, so the
equality of the two is what makes the sum one over a single store. Operators are either
beside the money (`Aside`: purses, offers, registrations and logins stay; most of
what a conversation does) or `Even`: one offer is emptied into one agent's purse and
registration (`Poured`) or filled from it. Both compose, so a handler is even because its
parts are, however many offers its loops settle; `SumProofs` has the two sums.

Closing. `Parting(world)` says that a conversation that closes has no joiners and
waits for nobody's answer to an inactive check: it is the first half of `ClosingStep`, and what the
second half rests on, since a check that ends makes its conversation active again. An operator
that stands `Apart` changes no conversation; one that `Closes` lets what closes go on closing
or end and what is over stay so, and that composes. A step is only known to `Conclude`, because an
invitation may open a conversation whose id is free. The handlers of the interval and of the
check need `IInv` for the conversation their timer is filed under.

### Publication

| Theorem | Statement |
| --- | --- |
| `PublisherInvariant` | `PublisherSpec => []PublisherIInv` |
| `RequestsAlwaysTakenUp` | `PublisherSpec => []RequestsAreTakenUp` |
| `QuietAlwaysMeansServed` | `PublisherSpec => []QuietMeansServed` |
| `PipelineImplementsPublisher` | `Spec => PublisherSpec` |
| `PipelineInvariant` | `Spec => []PipelineIInv` |
| `PipelineImplementsObject` | `Spec => ImplementsPublishedObject` |
| `UnpublishedAlwaysRetried` | `Spec => []UnpublishedIsRetried` |
| `EvictionAlwaysForgetsNothing` | `Spec => []EvictionForgetsNothing` |

They hold for every number of attempts, changes and faults, every back-off, and
every set of fault kinds. They assume `NoneAssumption`, the assumptions that the
constants are naturals, `SnapshotAssumption` and `BackoffAssumption`: `None` is neither a
snapshot nor a time, and a back-off is a positive time.

`PublisherIInv` adds to the two invariants what makes them inductive: the types, that
failures stay below the limit until the publisher gives up, that no loop runs
after that, that whoever posts carries a snapshot, that a stopped publisher has
no timer, and that only a stopped one has frozen a last snapshot. The heart of it is that
a loop that was not asked again posts the world as it is. It holds across the
await because the loop clears `dirty` before it builds the snapshot and a request
during the post sets it again. And a timer implies `dirty`, or its callback would find
nothing to do, end the loop before its promise is assigned
(`server/engine/snapshot-publisher.ts:318`), and leave a promise that is over, behind
which no request would ever be heard.

That the pipeline implements the publisher is a step simulation without any
invariant: each action of the pipeline is an action of the publisher or leaves its
variables alone. The publisher's theorems so hold for the server of the pipeline
whatever the relay does.

`PipelineIInv` says that snapshots are in order of age wherever they are: the object is
no newer than the write in flight, that one no newer than what the relay has in memory,
and that no newer than the durable copy. So a finished write puts a snapshot at least as
new as the object. The order with the write in flight is needed because it is the
copy taken before the await that is put, the order with the durable copy
because an eviction falls back to it. It also shows that finding `relay_newest`
does not make the object older: what is assigned back is old, but is what was
just written.

`RetryInvariant` (`Spec => []RetryIInv`) adds what the relay's durable copy knows. Who
called: a post in transit is the server's or nobody's, and a publication in flight was
started by one of `Callers`. `SavedWhenIdle`: with no publication in flight nothing is
queued and, once there is a snapshot, the durable copy is the memory (`Persisted`) and the
alarm is set for the retry that is due. `RetryIsDurable`: while the publication that an
alarm started is in flight, the retry it took up is durable, unless a newer snapshot was
saved meanwhile - the alarm is spent when it fires, so this is what an eviction in that
moment is recovered from. With these, `UnpublishedIsRetried` is inductive: an object older
than the relay's snapshot has a publication in flight, an alarm that is set, or a server
still posting, in every state an eviction can leave too.

### Server events

| Theorem | Statement |
| --- | --- |
| `FileAlwaysHoldsTheActive` | `ServerEventsSpec => []FileHoldsTheActive` |
| `AskedAgentsAlwaysUpToDate` | `ServerEventsSpec => []AskedAgentsAreUpToDate` |

The second needs the first: a restart restores the store from the file. And it needs that a
change of the events, which makes the answers on their way out of date, offers the
command to everybody again: whoever asks afterwards gets a newer answer behind them in its
queue. They hold for any agents, events, restarts and answers on their way; losing
an answer is a step like any other, and the statement says what it leads to.

### Notifications

| Theorem | Statement |
| --- | --- |
| `NotifierInvariant` | `NotifierSpec => []NotifierIInv` |
| `LogAlwaysEndsWithTheEnd` | `NotifierSpec => []LogEndsWithTheEnd` |
| `ForcedEndsAlwaysConsumed` | `NotifierSpec => []ForcedEndsAreConsumed` |
| `RejectionsAlwaysKept` | `NotifierSpec => RejectionIsKeptUntilShown` |

They hold for any number of agents, rejected actions, events, failing calls and logouts that
cannot be written back, and assume
`DiscordAssumption`, that `None` is neither an agent nor an action. `NotifierIInv` types the desk
(what a task may still have to do after its call ended is a sequence of steps about single
agents, but for the end of the conversation) and has the order of things: `LogInOrder`, that
behind an end in the log's queue no message waits and no entry still goes to the thread, and only
its head is being archived; `PostsInOrder`, the same of what was posted; `Unended`, that before the
conversation closed no handler, not even one that awaits a call, is going to report its end. A
logout writes the end through the same queue, so the property is about its interleaving with
every other call. `Awaits` is about the members of a conversation that a logout ended: a
goodbye of one of them is under way, which will take them whether it can be sent or
not, or the logout of one failed. A logout is proved in two parts, as the code
runs it: what happens to the conversation while the agent is still logged in
(`ConversationLeft`), and its completion or the write that throws (`LogsOutKeeps`).

Two branches end a conversation with the reason of a logout where nobody logs out
(`server/domain/conversation.ts:1359` and `1720`): when no next speaker is found. As long
as there are members one is found, so they are not reached.

### Spectators

| Theorem | Statement |
| --- | --- |
| `SpectatorsInvariant` | `SpectatorsSpec => []SpectatorsIInv` |
| `SelectionAlwaysOnScreen` | `SpectatorsSpec => []SelectionIsOnScreen` |
| `ScreenGoesForward` | `SpectatorsSpec => ScreenNeverGoesBack` |
| `StoppedPollsAreDropped` | `SpectatorsSpec => StoppedScreenStays` |
| `QueuedPollsAreMade` | `SpectatorsSpec => QueuedPollsFollow` |
| `HistoriesGoForward` | `SpectatorsSpec => HistoriesInOrder` |

They assume `SnapshotStoreAssumption` and `SpectatorBounds` and hold for any agents, conversations,
versions, polls and requests. Besides the types, `SpectatorsIInv` says that the mark of
staleness is that of the snapshot shown and that the selected agent is in it; that a poll
belongs to a lifecycle that has begun, and an aborted one to a lifecycle that is over
(`PollIsOfItsLifecycle`: so the identity of the lifecycle tells a late answer from a current
one, which the flag alone would not); that a queued poll may be made (`QueuedPollMayBeMade`); and that
the request a scope waits for was made after the one whose answer it shows (`RequestsFollow`).

### Histories

| Theorem | Statement |
| --- | --- |
| `HistoryInvariant` | `HistorySpec => []HistoryIInv` |
| `RecordedAlwaysKept` | `HistorySpec => []RecordedIsKept` |
| `BuffersAlwaysFlushed` | `HistorySpec => []BufferIsFlushed` |

For any number of events, faults and attempts and any limits; from `HistoryAssumption`,
`DocumentLimitAssumption` and `DocumentsAreApart` (an agent's document has another key than a
conversation's). The heart of `HistoryIInv` is the link across two processes. `Carries`: while a
flush has met no failure and no newer entry, the posts it has no answer to carry exactly what is buffered,
so that its success may empty the buffer. `OneIsAwaited`: one post at most is on its way for the
manager, and it is the one the flush waits for - earlier ones that timed out are still
there, but nobody waits for them. `InProgress`: an operation has stored what it does not have left
to write, and what it has read of a document is what the document still is, because only the
first operation of the queue reads. That a later merge keeps what was stored
(`MergeKeeps`) is not that entries stay: a document holds its newest, and what it drops is older than
everything it has (`NewestAreStored`).

### Paths

| Theorem | Statement |
| --- | --- |
| `PathAlwaysShortest` | `PathsSpec => []PathIsShortest` |

On a map of any size with any walls (`MapAssumption`: it has rows and columns). The reference
is `Reached(n, from, blocked)`, the nodes that a walk of at most `n` steps reaches, and
`Away` the least such number for a node. `Searching` says that the visited nodes form a `Tree` of shortest walks
and that the queue is a `Frontier`: in the order of distance, which spans one step at most,
with everything within the distance of its head visited. One step of the search looks in four
directions; `Expanding` is what holds between them. When the queue is empty, whatever is
near a visited node is visited, so no walk leaves the tree; when the goal is met, the way back comes one
step nearer with every predecessor (`BackComesNearer`), and passes no node twice, so that it is
shorter than the map has nodes (`AwayIsBounded`).

`Reached` and the way back are recursive functions. That they are defined at all
(`RepeatsDefined`), and every induction on the number of steps, is proved by the least
counterexample, as in the conversations.

### Model-checked only

- `ConversationsAreTimed` and `OffersStayBetweenMembers` hold for the three agents of the run and
  are false of four (finding `inactive_checks`, and the observation on offers above), so there is nothing
  to prove. `InvitationsAgree` with announcements is false as well.
- `MembersComeAndGoInTurn`: needs that a conversation which has its turn timed times
  nothing else, that is, each handler's effect on the timers of its conversation. It was checked with four
  agents too.
- `BoardFollowsTheWorld`: the messages left of a channel after a deletion are chosen by `SelectSeq`,
  and the node an agent has reached by a division, both opaque to the provers.
- All liveness: `ENABLED` is out of the prover's reach.

## 5. Plan

Done: the core, conversations, server events, the three coalescing workers, relay,
spectators, notifications, path finding; the proofs of section 4.

Left, in this order:

1. **`MembersComeAndGoInTurn`** above `IInv`, and **`BoardFollowsTheWorld`**.
2. **`Inventory`** with several kinds of item, stacks and merging.
3. **`Choices`** about conversations: `conversation_start` and `conversation_join`.

### Not modelled

Texts, rendering, REST and MCP dispatch, configuration, the calls of Discord
themselves, the user interface and scripts: they keep no state the models would
read. The mirror of conversation updates in the relay
(`stageConversationMirrorUpdate`, `front/worker/src/relay/bridge.ts:880-1027`) is called by tests
only. `dispose` of the Discord handler ends its queues together with the process.
Conversations and throwing writes are not combined in one state machine: each alone
fills the time a check may take.
