------------------------------- MODULE World -------------------------------
(***************************************************************************)
(* The shared world of the Karakuri server: the stores the WorldEngine     *)
(* keeps in memory and the registrations it keeps on disk, with the        *)
(* primitive updates the domain functions are written in.                  *)
(*                                                                         *)
(* The server is one Node.js thread, so a domain function runs to its end  *)
(* before another one starts.  Such a function is an operator from a world *)
(* w to the world it leaves behind; a call that throws before it changed   *)
(* anything has no operator at all, its condition is the operator's guard. *)
(***************************************************************************)
EXTENDS Integers, FiniteSets

CONSTANTS
  Agents,         \* agent ids (a registration may or may not exist)
  Transfers,      \* transfer ids; an id is free again once its offer is gone
  Announcements,  \* server announcement ids
  Actions,        \* action ids of the map's buildings and NPCs
  Catalogue,      \* [Actions -> cost, required items, rewards]
  InfoCommands,   \* info commands an agent may consume between two activities
  InitialMoney,   \* config.economy.initial_money
  MaxMoney,       \* Number.MAX_SAFE_INTEGER
  MaxItems,       \* what fits an inventory of the one item kind modelled
  None            \* null

\* What an agent owns or an offer holds: money and items of one kind.
Purse == [money : Nat, items : Nat]
Nothing == [money |-> 0, items |-> 0]

ASSUME WorldAssumption ==
  /\ IsFiniteSet(Agents) /\ IsFiniteSet(Transfers)
  /\ None \notin Agents \cup Transfers \cup Announcements \cup Actions
  /\ None \notin Purse
  /\ InitialMoney \in Nat
  /\ MaxMoney \in Nat
  /\ MaxItems \in Nat
  /\ Catalogue \in [Actions -> [cost : Purse, reward : Purse]]

(***************************************************************************)
(* AgentStateStore.  "logged_out" stands for an agent with no entry in the *)
(* map of logged-in agents; its money and items are kept apart, in purses. *)
(* The announcement that opened an interruption window is only ever        *)
(* compared with null: announced says whether there is one.                *)
(***************************************************************************)
AgentStates ==
  {"logged_out", "idle", "moving", "in_action", "in_conversation", "in_transfer"}

LoggedOut ==
  [ state |-> "logged_out",
    pending_conversation_id |-> None, current_conversation_id |-> None,
    active_transfer_id |-> None, pending_transfer_id |-> None,
    announced |-> FALSE, pending_announcements |-> {},
    last_action_id |-> None, excluded |-> {} ]

LoggedIn(w, a) == w.agents[a].state # "logged_out"

Registered(w, a) == w.registrations[a] # None

login(w, a) ==
  [w EXCEPT !.agents[a] = [LoggedOut EXCEPT !.state = "idle"],
            !.purses[a] = w.registrations[a]]

logout(w, a) ==
  [w EXCEPT !.agents[a] = LoggedOut, !.purses[a] = Nothing]

setState(w, a, s) == [w EXCEPT !.agents[a].state = s]

clearExcludedInfoCommands(w, a) == [w EXCEPT !.agents[a].excluded = {}]

isInTransfer(w, a) ==
  \/ w.agents[a].active_transfer_id # None
  \/ w.agents[a].pending_transfer_id # None

(***************************************************************************)
(* TransferStateStore: transfers[t] is NoOffer when no offer t is kept.    *)
(***************************************************************************)
NoOffer ==
  [status |-> "absent", from_agent_id |-> None, to_agent_id |-> None,
   escrow |-> Nothing]

(***************************************************************************)
(* TimerManager.  A timer is its type, the agents it is filed under and    *)
(* what it is about; any pending timer may be the next to fire.  A timer   *)
(* created while an equal one is pending is kept apart by twin.            *)
(***************************************************************************)
Timer(type, ids, about) ==
  [type |-> type, agent_ids |-> ids, about |-> about, twin |-> FALSE]

create(w, timer) ==
  [w EXCEPT !.timers = @ \cup {[timer EXCEPT !.twin = timer \in w.timers]}]

cancel(w, timer) == [w EXCEPT !.timers = @ \ {timer}]

cancelByAgent(w, a) ==
  [w EXCEPT !.timers = {x \in @ : a \notin x.agent_ids}]

cancelByType(w, a, type) ==
  [w EXCEPT !.timers = {x \in @ : ~(a \in x.agent_ids /\ x.type = type)}]

TimersOf(w, a, types) == {x \in w.timers : a \in x.agent_ids /\ x.type \in types}

(***************************************************************************)
(* Purses.  What does not fit an inventory is dropped.                     *)
(***************************************************************************)
Covers(p, cost) == cost.money <= p.money /\ cost.items <= p.items

fitting(held, granted) ==
  IF held + granted <= MaxItems THEN granted
  ELSE IF held < MaxItems THEN MaxItems - held ELSE 0

credit(p, granted) ==
  [money |-> p.money + granted.money,
   items |-> p.items + fitting(p.items, granted.items)]

drops(p, granted) == fitting(p.items, granted.items) < granted.items

AtLeastZero(n) == IF n > 0 THEN n ELSE 0

debit(p, cost) ==
  [money |-> AtLeastZero(p.money - cost.money),
   items |-> AtLeastZero(p.items - cost.items)]

(***************************************************************************)
(* The registrations.  The file and the map in memory are written by the   *)
(* same call, the file first: when the write throws, neither changes.      *)
(***************************************************************************)
persistLoggedInAgentState(w, a) ==
  [w EXCEPT !.registrations[a] = w.purses[a]]

mergePersistedAgentInventory(w, a, gained) ==
  [w EXCEPT !.registrations[a] =
    [money |-> @.money + gained.money, items |-> @.items + gained.items]]

\* The sum of f over a finite set, as a cardinality (induction-free).
SumOver(S, f) == Cardinality(UNION {{x} \X (1 .. f[x]) : x \in S})

EmptyWorld ==
  [ agents |-> [a \in Agents |-> LoggedOut],
    purses |-> [a \in Agents |-> Nothing],
    transfers |-> [t \in Transfers |-> NoOffer],
    announcements |-> [n \in Announcements |-> {}],
    timers |-> {},
    registrations |-> [a \in Agents |-> None] ]
============================================================================
