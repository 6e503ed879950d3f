----------------------------- MODULE AppUpdate -----------------------------
(***************************************************************************)
(* The installation of an app update around the work of the sessions.  The *)
(* host asks the owner process to prepare: it refuses while a session is   *)
(* busy, else it closes admission for thirty seconds.  The host copies the *)
(* app aside, asks again, stops the service, installs, and puts the copy   *)
(* back if that fails.  Work comes in through the admission gate (a send,  *)
(* a control, a new session) or past it (the codex owner bridge's socket,  *)
(* the continuation after a capacity abort), and shows to the check only   *)
(* by what has been published of it.                                       *)
(***************************************************************************)
EXTENDS Naturals, FiniteSets

CONSTANTS
  Chats,      \* sessions
  MaxTasks,   \* pieces of work begun
  MaxMishaps  \* steps of the host's that fail, or deaths of the host

VARIABLES
  doing,    \* session |-> the call under way: a send, a control, a creation
  turn,     \* session |-> what the provider has: nothing, a message, a turn that runs
  board,    \* session |-> the bus's activity: status, delivery, whether a turn is active
  busy,     \* sessions in runtime.active_threads
  admission, service,
  host,     \* the step install_app_update is at
  app, backup,
  begun, mishaps,
  unheard,  \* sessions whose message had no turn to show when the second check passed
  past,     \* sessions with work that asked for no admission, since the last check passed
  remapped, \* sessions whose message went to a new thread
  cut       \* sessions of neither, whose work the stop of the service cut off

updateVars == <<doing, turn, board, busy, admission, service, host, app, backup, begun,
                mishaps, unheard, past, remapped, cut>>
work == <<doing, turn, board, busy, begun, unheard, past, remapped>>

Blank == [status |-> "idle", delivery |-> "unsent", active |-> FALSE]

Init ==
  /\ doing = [s \in Chats |-> "nothing"] /\ turn = [s \in Chats |-> "none"]
  /\ board = [s \in Chats |-> Blank] /\ busy = {}
  /\ admission = "open" /\ service = "up" /\ host = "idle"
  /\ app = "old" /\ backup = "none"
  /\ begun = 0 /\ mishaps = 0
  /\ unheard = {} /\ past = {} /\ remapped = {} /\ cut = {}

-----------------------------------------------------------------------------
(* What the activity makes of the events of a session.                     *)

Terminal(s) == board[s].status \in {"completed", "failed"}
Submitted(s) == [board EXCEPT ![s].delivery = "submitted"]

\* A message accepted after a turn is over does not set the session running.
Accepted(s) == [board EXCEPT ![s].delivery = "accepted",
                             ![s].status = IF Terminal(s) THEN @ ELSE "running"]
SendFailed(s) == [board EXCEPT ![s].delivery = "failed",
                               ![s].status = IF board[s].active THEN @ ELSE "failed"]
EndedKeeps(s, status) == [board EXCEPT ![s].status = status]   \* mutant: the turn stays active
Ended(s, status) == [board EXCEPT ![s].active = FALSE, ![s].status = status]

-----------------------------------------------------------------------------
(* The sessions' work, while the service is up.                            *)

Admitted == admission = "open"
Begins(s, what) == /\ service = "up" /\ doing[s] = "nothing" /\ begun < MaxTasks
                   /\ begun' = begun + 1
                   /\ doing' = [doing EXCEPT ![s] = what]
Stays == UNCHANGED <<admission, service, host, app, backup, mishaps, cut>>

\* A send from the desktop or from Telegram: the background task is counted until it ends.
BeginSend(s) ==
  /\ Admitted /\ Begins(s, "send")
  /\ board' = Submitted(s)
  /\ UNCHANGED <<turn, busy, unheard, past, remapped>> /\ Stays

\* The provider takes the message: into the turn that runs, or for a turn of its own.
SendTaken(s) ==
  /\ doing[s] = "send"
  /\ turn' = [turn EXCEPT ![s] = IF @ = "running" THEN @ ELSE "accepted"]
  /\ board' = Accepted(s)
  /\ doing' = [doing EXCEPT ![s] = "nothing"]
  /\ UNCHANGED <<busy, begun, unheard, past, remapped>> /\ Stays

SendFails(s) ==
  /\ doing[s] = "send"
  /\ board' = SendFailed(s)
  /\ doing' = [doing EXCEPT ![s] = "nothing"]
  /\ UNCHANGED <<turn, busy, begun, unheard, past, remapped>> /\ Stays

\* The codex owner bridge takes messages on a socket of its own and asks for no admission.
BeginPast(s) ==
  /\ Begins(s, "send")
  /\ board' = Submitted(s)
  /\ past' = past \cup {s}
  /\ UNCHANGED <<turn, busy, unheard, remapped>> /\ Stays

\* codex does not know the thread: the message goes to a new one, and is told of there.
Remap(s, n) ==
  /\ doing[s] = "send" /\ s \in past
  /\ n # s /\ turn[n] = "none" /\ doing[n] = "nothing" /\ board[n] = Blank
  /\ doing' = [doing EXCEPT ![s] = "nothing"]
  /\ turn' = [turn EXCEPT ![n] = "accepted"]
  /\ board' = Accepted(n)
  /\ past' = past \cup {n}
  /\ remapped' = remapped \cup {s}
  /\ UNCHANGED <<busy, begun, unheard>> /\ Stays

\* What a session of the app's own can be told: to interrupt the turn that shows, to
\* recover from a failure.
Controllable(s) == board[s].active \/ board[s].status = "failed"

\* A control of the desktop's; a session's creation.
BeginControl(s) ==
  /\ Admitted /\ Controllable(s)
  /\ Begins(s, "control")
  /\ UNCHANGED <<turn, board, busy, unheard, past, remapped>> /\ Stays

BeginCreate(s) ==
  /\ Admitted /\ turn[s] = "none" /\ board[s] = Blank
  /\ Begins(s, "create")
  /\ UNCHANGED <<turn, board, busy, unheard, past, remapped>> /\ Stays

CallEnds(s) ==
  /\ doing[s] \in {"control", "create"}
  /\ doing' = [doing EXCEPT ![s] = "nothing"]
  /\ UNCHANGED <<turn, board, busy, begun, unheard, past, remapped>> /\ Stays

\* The provider's events, as they are heard of.
TurnStarts(s) ==
  /\ service = "up" /\ turn[s] = "accepted"
  /\ turn' = [turn EXCEPT ![s] = "running"]
  /\ board' = [board EXCEPT ![s].status = "running", ![s].active = TRUE]
  /\ busy' = busy \cup {s}
  /\ UNCHANGED <<doing, begun, unheard, past, remapped>> /\ Stays

AsksUser(s) ==
  /\ service = "up" /\ turn[s] = "running" /\ board[s].status = "running"
  /\ board' = [board EXCEPT ![s].status = "attention"]
  /\ UNCHANGED <<doing, turn, busy, begun, unheard, past, remapped>> /\ Stays

AnswersUser(s) ==
  /\ service = "up" /\ board[s].status = "attention"
  /\ board' = [board EXCEPT ![s].status = "running"]
  /\ UNCHANGED <<doing, turn, busy, begun, unheard, past, remapped>> /\ Stays

\* The final answer shows the session completed while the turn still runs.
Finals(s) ==
  /\ service = "up" /\ turn[s] = "running" /\ board[s].active
  /\ board' = Ended(s, "completed")
  /\ UNCHANGED <<doing, turn, busy, begun, unheard, past, remapped>> /\ Stays

\* What a turn asked is resolved before it completes (Interactions).
TurnCompletes(s) ==
  /\ service = "up" /\ turn[s] = "running" /\ board[s].status # "attention"
  /\ turn' = [turn EXCEPT ![s] = "none"]
  /\ board' = Ended(s, "completed")
  /\ busy' = busy \ {s}
  /\ UNCHANGED <<doing, begun, unheard, past, remapped>> /\ Stays

\* A turn fails; one that the model's capacity ended is continued after it has been told of.
TurnFails(s) ==
  /\ service = "up" /\ turn[s] = "running"
  /\ turn' = [turn EXCEPT ![s] = "none"]
  /\ board' = Ended(s, "failed")
  /\ busy' = busy \ {s}
  /\ UNCHANGED <<doing, begun, unheard, past, remapped>> /\ Stays

Continues(s) ==
  /\ service = "up" /\ turn[s] = "none" /\ board[s].status = "failed" /\ begun < MaxTasks
  /\ begun' = begun + 1
  /\ turn' = [turn EXCEPT ![s] = "accepted"]
  /\ past' = past \cup {s}
  /\ UNCHANGED <<doing, board, busy, unheard, remapped>> /\ Stays

Session(s) ==
  \/ BeginSend(s) \/ SendTaken(s) \/ SendFails(s)
  \/ BeginPast(s) \/ (\E n \in Chats : Remap(s, n))
  \/ BeginControl(s) \/ BeginCreate(s) \/ CallEnds(s)
  \/ TurnStarts(s) \/ AsksUser(s) \/ AnswersUser(s) \/ Finals(s)
  \/ TurnCompletes(s) \/ TurnFails(s) \/ Continues(s)

-----------------------------------------------------------------------------
(* The check, and the host's steps.                                        *)

\* What refuses the update: an activity that shows work, a call under way, an active thread.
Shows(s) == \/ board[s].status \in {"running", "attention"}
            \/ board[s].active
            \/ board[s].delivery = "submitted"
RefusesShown == \E s \in Chats : Shows(s)   \* mutant: calls under way are not counted
Refuses      == \E s \in Chats : Shows(s) \/ doing[s] # "nothing" \/ s \in busy

Goes(step) == host' = step

AsksToInstall ==
  /\ host = "idle" /\ service = "up" /\ app = "old" /\ Goes("first")
  /\ UNCHANGED <<work, admission, service, app, backup, mishaps, cut>>

\* prepare_app_update, one step of the owner process: before the copy, and again after it.
Prepare ==
  /\ host \in {"first", "second"}
  /\ IF Refuses
     THEN Goes("cancel") /\ UNCHANGED <<admission, unheard, past>>
     ELSE /\ Goes(IF host = "first" THEN "copy" ELSE "stop")
          /\ admission' = "closed"
          /\ unheard' = {s \in Chats : turn[s] = "accepted"}
          /\ past' = {}
  /\ UNCHANGED <<doing, turn, board, busy, begun, remapped, service, app, backup, mishaps, cut>>

\* A copy that is not whole ends the installation.
CopiedUnchecked == "none"   \* mutant: what ditto said is not looked at
Copied          == "whole"

Copies ==
  /\ host = "copy" /\ backup' = Copied /\ Goes("second")
  /\ UNCHANGED <<work, admission, service, app, mishaps, cut>>

\* The thirty seconds are over: the copy may take longer, a host may have died.  Between
\* the second check and the stop they are not.
LeaseEnds ==
  /\ admission = "closed" /\ host # "stop"
  /\ admission' = "open"
  /\ UNCHANGED <<work, service, host, app, backup, mishaps, cut>>

\* The service ends, and with it whatever it was at; what it knew was in its memory.
Stops ==
  /\ host = "stop"
  /\ cut' = {s \in Chats \ (unheard \cup past) : doing[s] # "nothing" \/ turn[s] = "running"}
  /\ service' = "down" /\ Goes("install")
  /\ doing' = [s \in Chats |-> "nothing"] /\ turn' = [s \in Chats |-> "none"]
  /\ board' = [s \in Chats |-> Blank] /\ busy' = {} /\ admission' = "open"
  /\ UNCHANGED <<app, backup, begun, mishaps, unheard, past, remapped>>

\* The new app is put in place and looked at.
Installs ==
  /\ host = "install" /\ app' = "new" /\ Goes("relaunch")
  /\ UNCHANGED <<work, admission, service, backup, mishaps, cut>>

\* What is in the app's place is moved aside, and the copy into its place.
MovesAside ==
  /\ host = "aside" /\ app' = "none" /\ Goes("back")
  /\ UNCHANGED <<work, admission, service, backup, mishaps, cut>>

MovesBack ==
  /\ host = "back" /\ app' = "old" /\ backup' = "none" /\ Goes("restart")
  /\ UNCHANGED <<work, admission, service, mishaps, cut>>

Cancels ==
  /\ host = "cancel" /\ Goes("idle") /\ admission' = "open"
  /\ UNCHANGED <<work, service, app, backup, mishaps, cut>>

\* The service is started: after a failure, by the app that starts anew, or by the user
\* who opens the app.
StartsService ==
  /\ \/ host = "restart" /\ Goes("cancel")
     \/ host = "relaunch" /\ Goes("idle")
     \/ host = "idle" /\ service = "down" /\ app \in {"old", "new"} /\ Goes("idle")
  /\ service' = "up"
  /\ UNCHANGED <<work, admission, app, backup, mishaps, cut>>

\* A step fails; an installation may leave something else in the app's place, a move that
\* fails is undone.
Fails ==
  /\ mishaps < MaxMishaps /\ mishaps' = mishaps + 1
  /\ CASE host = "first"   -> Goes("cancel") /\ UNCHANGED app
       [] host = "copy"    -> Goes("cancel") /\ UNCHANGED app
       [] host = "second"  -> Goes("cancel") /\ UNCHANGED app
       [] host = "stop"    -> Goes("restart") /\ UNCHANGED app
       [] host = "install" -> Goes("aside") /\ app' \in {"old", "broken"}
       [] host = "aside"   -> Goes("restart") /\ UNCHANGED app
       [] host = "back"    -> Goes("restart") /\ app' = "broken"
       [] OTHER            -> FALSE
  /\ UNCHANGED <<work, admission, service, backup, cut>>

Dies ==
  /\ mishaps < MaxMishaps /\ host # "idle" /\ mishaps' = mishaps + 1
  /\ Goes("idle")
  /\ app' \in IF host = "install" THEN {"old", "broken", "new"} ELSE {app}
  /\ UNCHANGED <<work, admission, service, backup, cut>>

Host ==
  \/ AsksToInstall \/ Prepare \/ Copies \/ LeaseEnds \/ Stops \/ Installs
  \/ MovesAside \/ MovesBack \/ Cancels \/ StartsService \/ Fails \/ Dies

Next == Host \/ \E s \in Chats : Session(s)

-----------------------------------------------------------------------------
TypeOK ==
  /\ doing \in [Chats -> {"nothing", "send", "control", "create"}]
  /\ turn \in [Chats -> {"none", "accepted", "running"}]
  /\ board \in [Chats -> [status : {"idle", "running", "attention", "completed", "failed"},
                          delivery : {"unsent", "submitted", "accepted", "failed"},
                          active : BOOLEAN]]
  /\ busy \cup unheard \cup past \cup remapped \cup cut \subseteq Chats
  /\ app \in {"old", "new", "broken", "none"} /\ backup \in {"none", "whole"}

\* The update cuts off no work that came in by the gate, however long the copy takes:
\* only a turn that had not been heard of when the second check passed, or work that asks
\* for no admission, can be under way when the service is stopped.
NothingCut == cut = {}

\* A session at rest does not stand in the way of an update: its activity shows no work
\* that is over.  (A message that went to a new thread leaves the old one submitted.)
RestAdmits ==
  \A s \in Chats \ remapped :
    doing[s] = "nothing" /\ turn[s] = "none" /\ board[s].status # "attention"
      => ~Shows(s) /\ s \notin busy

\* Whatever step of an installation fails or is the host's last: an app that runs is in
\* its place, or the copy of the old one is whole.
AppThere == app \in {"old", "new"} \/ backup = "whole"
=============================================================================
