------------------------ MODULE ServerAnnouncements ------------------------
(***************************************************************************)
(* domain/server-announcements: an announcement opens an interruption      *)
(* window for every agent that is not moving, and waits for those that     *)
(* are.  The first command an agent sends in its window tears down what    *)
(* the agent was doing, then closes the window.                            *)
(***************************************************************************)
EXTENDS Transfer

\* server_announcement_id is a fresh UUID: nobody holds it yet.
unusedAnnouncement(w, n) ==
  /\ w.announcements[n] = {}
  /\ \A a \in Agents : n \notin w.agents[a].pending_announcements

fireServerAnnouncement(w, n) ==
  LET moving == {a \in Agents : w.agents[a].state = "moving"}
  IN  [w EXCEPT
        !.announcements[n] = moving,
        !.agents = [a \in Agents |->
           IF a \in moving
           THEN [w.agents[a] EXCEPT !.pending_announcements = @ \cup {n}]
           ELSE IF LoggedIn(w, a)
           THEN [w.agents[a] EXCEPT !.announced = TRUE, !.excluded = {}]
           ELSE w.agents[a]]]

clearActiveServerAnnouncement(w, a) == [w EXCEPT !.agents[a].announced = FALSE]

OwnTransfer(w, a) ==
  IF w.agents[a].active_transfer_id # None
  THEN w.agents[a].active_transfer_id ELSE w.agents[a].pending_transfer_id

interruptActivity(w, a) ==
  IF w.agents[a].state = "in_action"
  THEN cancelActive(cancelActive(cancelActive(w, a, "action"), a, "wait"),
                    a, "item_use")
  ELSE w

interruptTransfer(w, a, faults) ==
  IF OwnTransfer(w, a) = None THEN w
  ELSE cancelTransfer(w, OwnTransfer(w, a), faults)

\* Slip: an agent is interrupted outside its window too.
interruptionAnyTime(w, a, faults) ==
  IF ~LoggedIn(w, a) THEN w
  ELSE clearActiveServerAnnouncement(
         IF w.agents[a].state = "in_transfer"
         THEN interruptTransfer(w, a, faults)
         ELSE setState(interruptActivity(w, a), a, "idle"), a)

\* Idle without an idle reminder, except out of a transfer.
handleServerAnnouncementInterruption(w, a, faults) ==
  IF ~LoggedIn(w, a) \/ ~w.agents[a].announced THEN w
  ELSE clearActiveServerAnnouncement(
         IF w.agents[a].state = "in_transfer"
         THEN interruptTransfer(w, a, faults)
         ELSE setState(interruptActivity(w, a), a, "idle"), a)

\* Slip: announcements go on waiting for an agent that is gone.
cleanupWindowOnly(w, a) == clearActiveServerAnnouncement(w, a)

\* maybeCleanup drops an announcement nobody waits for: then its set is {}.
cleanupServerAnnouncementsForAgent(w, a) ==
  [clearActiveServerAnnouncement(w, a)
     EXCEPT !.announcements = [n \in Announcements |-> @[n] \ {a}]]
============================================================================
