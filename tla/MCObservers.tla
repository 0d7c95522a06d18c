---------------------------- MODULE MCObservers ----------------------------
(* Small instances of what observes the world, and of the parts of the      *)
(* server that share no state with the rest, for TLC.  A behaviour is one   *)
(* of a single part, named by part; the state of the others stays put.      *)
EXTENDS Spectators, HistoryPipeline, StatusBoard, DiscordNotifier, ServerEvents, MapPaths

VARIABLE part

MCDiscordBudgets ==
  { [notices |-> 2, talks |-> 0, faults |-> 1],
    [notices |-> 1, talks |-> 2, faults |-> 0],
    [notices |-> 0, talks |-> 3, faults |-> 1] }

ObserverInit ==
  /\ part \in {"spectators", "history", "board", "discord", "events", "paths"}
  /\ InitSpectators /\ InitHistory /\ InitBoard /\ InitServerEvents
  /\ InitNotifier
  /\ part # "discord" => discordLeft = CHOOSE b \in DiscordBudgets : TRUE
  /\ InitPaths
  /\ part # "paths" => walls = {} /\ search = findPath(<<1, 1>>, <<1, 1>>)

ObserverNext ==
  \/ /\ part = "spectators" /\ SpectatorsNext
     /\ UNCHANGED <<part, historyVars, boardVars, notifierVars, serverEventVars, pathVars>>
  \/ /\ part = "history" /\ HistoryNext
     /\ UNCHANGED <<part, spectatorVars, boardVars, notifierVars, serverEventVars, pathVars>>
  \/ /\ part = "board" /\ BoardNext
     /\ UNCHANGED <<part, spectatorVars, historyVars, notifierVars, serverEventVars, pathVars>>
  \/ /\ part = "discord" /\ NotifierNext
     /\ UNCHANGED <<part, spectatorVars, historyVars, boardVars, serverEventVars, pathVars>>
  \/ /\ part = "events" /\ ServerEventsNext
     /\ UNCHANGED <<part, spectatorVars, historyVars, boardVars, notifierVars, pathVars>>
  \/ /\ part = "paths" /\ PathsNext
     /\ UNCHANGED <<part, spectatorVars, historyVars, boardVars, notifierVars, serverEventVars>>
=============================================================================
