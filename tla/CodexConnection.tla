--------------------------- MODULE CodexConnection ---------------------------
(***************************************************************************)
(* The life of the connection to the managed codex app-server: the first   *)
(* connection, the reconnect loop a lost connection schedules, the monitor *)
(* of the process, and the idle restart that makes the server let go of    *)
(* its sessions while calls wait.  Each connection is an adapter of its    *)
(* own; state.adapter is the one the rest of the program uses.             *)
(***************************************************************************)
EXTENDS Naturals

CONSTANTS
  Calls,       \* turn/start calls of the program
  MaxAdapters, \* bound: adapters made
  MaxFaults    \* bound: failures of process, connection, setup and answer

VARIABLES
  server,    \* the process the AppServerProcess holds
  extra,     \* app-servers started while another one of ours ran
  turn,      \* a turn is running in the server
  adapter,   \* what each adapter knows of its connection
  made,      \* adapters made so far
  installed, \* state's adapter, 0 for none
  task,      \* "first": connect_adapter_with_retry; "r1", "r2": reconnect loops
  inflight,  \* a reconnect is under way, says the manager
  monitor,   \* monitor_process_health
  call,      \* each call and the adapter it is made on
  faults,    \* failures so far
  skipped,   \* a connection was lost in its own reconnect's setup
  spoilt     \* a setup failed while a connection stood or restarted

vars == <<server, extra, turn, adapter, made, installed, task, inflight, monitor,
          call, faults, skipped, spoilt>>

Adapters == 1..MaxAdapters
Loops == {"r1", "r2"}
Tasks == {"first"} \cup Loops
Off   == [pc |-> "off", a |-> 0]

Unmade == [up |-> FALSE, link |-> "none", reads |-> FALSE, told |-> FALSE,
           releases |-> FALSE, idle |-> "no", moved |-> FALSE]

\* The restart task exists: `connected` holds and calls wait for it.
Restarting(a) == adapter[a].idle \in {"hup", "starting", "connect"}
Connected(a)  == a # 0 /\ (adapter[a].up \/ Restarting(a))
Works         == installed # 0 /\ adapter[installed].up

TypeOK ==
  /\ server \in {"none", "up", "dead"} /\ extra \in Nat /\ turn \in BOOLEAN
  /\ adapter \in [Adapters -> [up : BOOLEAN, link : {"none", "open", "broken"},
                               reads : BOOLEAN, told : BOOLEAN, releases : BOOLEAN,
                               idle : {"no", "wait", "check", "read", "hup", "starting", "connect"},
                               moved : BOOLEAN]]
  /\ made \in 0..MaxAdapters /\ installed \in 0..made
  /\ task \in [Tasks -> [pc : {"off", "closing", "sleep", "starting", "connect", "setup", "prime"},
                         a : 0..made]]
  /\ inflight \in BOOLEAN /\ monitor \in {"off", "on", "over"}
  /\ call \in [Calls -> [pc : {"new", "held", "pending", "answered", "failed", "refused"},
                         a : 0..made]]
  /\ faults \in 0..MaxFaults /\ skipped \in BOOLEAN /\ spoilt \in BOOLEAN
  \* The flag is up exactly while a loop runs.
  /\ inflight <=> \E l \in Loops : task[l].pc # "off"

Init ==
  /\ server = "up" /\ extra = 0 /\ turn = FALSE
  /\ adapter = [a \in Adapters |-> Unmade] /\ made = 0 /\ installed = 0
  /\ task = [t \in Tasks |-> IF t = "first" THEN [pc |-> "connect", a |-> 0] ELSE Off]
  /\ inflight = FALSE /\ monitor = "off"
  /\ call = [c \in Calls |-> [pc |-> "new", a |-> 0]]
  /\ faults = 0 /\ skipped = FALSE /\ spoilt = FALSE

Fault   == faults < MaxFaults /\ faults' = faults + 1
NoFault == UNCHANGED faults

-----------------------------------------------------------------------------
(* Losing a connection.                                                    *)

\* A bug: whoever loses a connection starts a loop.
ScheduleAlways(t) ==
  /\ inflight' = TRUE
  /\ \E l \in Loops :
       /\ t[l].pc = "off"
       /\ task' = [t EXCEPT ![l] = [pc |-> "closing", a |-> 0]]

\* schedule_reconnect, on a task table t: one loop at a time.
Schedule(t) ==
  IF inflight THEN task' = t /\ UNCHANGED inflight
  ELSE /\ inflight' = TRUE
       /\ \E l \in Loops :
            /\ t[l].pc = "off"
            /\ task' = [t EXCEPT ![l] = [pc |-> "closing", a |-> 0]]

\* A bug: nobody tells the callers.
FailedLater(a) == call

\* The calls pending on a fail with it.
Failed(a) == [c \in Calls |-> IF call[c] = [pc |-> "pending", a |-> a]
                              THEN [call[c] EXCEPT !.pc = "failed"] ELSE call[c]]

\* Who tells the program that adapter a is lost: once, and no restart of its own.
Tells(a) == ~Restarting(a) /\ ~adapter[a].told

\* The loop that is still setting adapter a up drops its notice.
InSetup(a) == \E l \in Loops : task[l].pc \in {"setup", "prime"} /\ task[l].a = a

\* Adapter a's reader finds the connection closed, and so does a call, c, that is sent.
Lost(a, calls) ==
  /\ adapter' = [adapter EXCEPT ![a].up = FALSE, ![a].reads = FALSE,
                                ![a].told = @ \/ Tells(a)]
  /\ call' = calls
  /\ IF Tells(a)
     THEN /\ Schedule(task)
          /\ skipped' = (skipped \/ InSetup(a))
     ELSE UNCHANGED <<task, inflight, skipped>>

ReaderEnds(a) ==
  /\ adapter[a].reads /\ adapter[a].link = "broken"
  /\ Lost(a, Failed(a))
  /\ UNCHANGED <<server, extra, turn, made, installed, monitor, faults, spoilt>>

\* The server is gone: so are its turn and the links of all adapters.
Cut == [a \in Adapters |-> IF adapter[a].link = "open"
                           THEN [adapter[a] EXCEPT !.link = "broken"] ELSE adapter[a]]

ServerDies ==
  /\ server = "up" /\ Fault
  /\ server' = "dead" /\ turn' = FALSE /\ adapter' = Cut
  /\ UNCHANGED <<extra, made, installed, task, inflight, monitor, call, skipped, spoilt>>

LinkBreaks(a) ==
  /\ adapter[a].link = "open" /\ Fault
  /\ adapter' = [adapter EXCEPT ![a].link = "broken"]
  /\ UNCHANGED <<server, extra, turn, made, installed, task, inflight, monitor, call,
                 skipped, spoilt>>

\* It runs once: after the first exit it found nobody looks again.
MonitorFinds ==
  /\ monitor = "on" /\ server # "up"
  /\ installed # 0 => ~Restarting(installed)
  /\ monitor' = "over"
  /\ adapter' = IF installed = 0 THEN adapter ELSE [adapter EXCEPT ![installed].up = FALSE]
  /\ Schedule(task)
  /\ UNCHANGED <<server, extra, turn, made, installed, call, faults, skipped, spoilt>>

-----------------------------------------------------------------------------
(* The first connection and the reconnect loop.                            *)

Step(t, pc) == task' = [task EXCEPT ![t].pc = pc]

\* The consumer of IM events is closed and the dead adapter taken away.
TakesAway(l) ==
  /\ task[l].pc = "closing"
  /\ installed' = 0 /\ Step(l, "sleep")
  /\ UNCHANGED <<server, extra, turn, adapter, made, inflight, monitor, call, faults,
                 skipped, spoilt>>

\* In the two seconds and more that it sleeps, readers find what is closed.
Wakes(l) ==
  /\ task[l].pc = "sleep"
  /\ \A a \in Adapters : ~(adapter[a].reads /\ adapter[a].link = "broken")
  /\ Step(l, IF server = "up" THEN "connect" ELSE "starting")
  /\ UNCHANGED <<server, extra, turn, adapter, made, installed, inflight, monitor, call,
                 faults, skipped, spoilt>>

\* AppServerProcess.start gets its process after it looked whether it had one.
Spawns == /\ server' = "up"
          /\ extra' = IF server = "up" THEN extra + 1 ELSE extra

Starts(l) ==
  /\ task[l].pc = "starting"
  /\ \/ Spawns /\ Step(l, "connect") /\ NoFault
     \/ Fault /\ Step(l, "sleep") /\ UNCHANGED <<server, extra>>
  /\ UNCHANGED <<turn, adapter, made, installed, inflight, monitor, call, skipped, spoilt>>

Fresh == [Unmade EXCEPT !.up = TRUE, !.link = "open", !.reads = TRUE]

\* A new adapter; the one before it is left as it is.
Connects(t) ==
  /\ task[t].pc = "connect" /\ server = "up"
  /\ made < MaxAdapters
  /\ made' = made + 1
  /\ adapter' = [adapter EXCEPT ![made + 1] = Fresh]
  /\ IF t = "first"
     THEN installed' = made + 1 /\ task' = [task EXCEPT ![t] = [pc |-> "prime", a |-> made + 1]]
     ELSE UNCHANGED installed /\ task' = [task EXCEPT ![t] = [pc |-> "setup", a |-> made + 1]]
  /\ UNCHANGED <<server, extra, turn, inflight, monitor, call, faults, skipped, spoilt>>

\* What follows a failed attempt: the first hands over to a loop, a loop waits.
TryAgain(t) ==
  IF t = "first" THEN Schedule([task EXCEPT ![t] = Off])
  ELSE Step(t, "sleep") /\ UNCHANGED inflight

ConnectFails(t) ==
  /\ task[t].pc = "connect"
  /\ IF server = "up" THEN Fault ELSE NoFault
  /\ TryAgain(t)
  /\ UNCHANGED <<server, extra, turn, adapter, made, installed, monitor, call, skipped, spoilt>>

\* setup_connection, once the consumer of the attempt before is closed.
Installs(l) ==
  /\ task[l].pc = "setup"
  /\ installed' = task[l].a /\ Step(l, "prime")
  /\ UNCHANGED <<server, extra, turn, adapter, made, inflight, monitor, call, faults,
                 skipped, spoilt>>

\* A bug: the loop's end leaves the flag up.
SetupEndsInflight(t) ==
  /\ task[t].pc = "prime"
  /\ adapter' = [adapter EXCEPT ![task[t].a].releases = TRUE]
  /\ task' = [task EXCEPT ![t] = Off]
  /\ monitor' = IF t = "first" \/ monitor = "off" THEN "on" ELSE monitor
  /\ UNCHANGED <<server, extra, turn, made, installed, inflight, call, faults, skipped, spoilt>>

\* Its calls that fail are logged: the setup ends whether the connection stands or not.
SetupEnds(t) ==
  /\ task[t].pc = "prime"
  /\ adapter' = [adapter EXCEPT ![task[t].a].releases = TRUE]
  /\ task' = [task EXCEPT ![t] = Off]
  /\ inflight' = (inflight /\ t = "first")
  /\ monitor' = IF t = "first" \/ monitor = "off" THEN "on" ELSE monitor
  /\ UNCHANGED <<server, extra, turn, made, installed, call, faults, skipped, spoilt>>

\* A visibility check or a save that raises; the adapter goes on reading.
SetupFails(t) ==
  /\ task[t].pc = "prime" /\ Fault
  /\ spoilt' = (spoilt \/ \E a \in Adapters : adapter[a].link = "open" \/ Restarting(a))
  /\ TryAgain(t)
  /\ UNCHANGED <<server, extra, turn, adapter, made, installed, monitor, call, skipped>>

-----------------------------------------------------------------------------
(* Calls.                                                                  *)

\* A call that is under way tells an idle check that something moved.
Moves(ad, a) == [ad EXCEPT ![a].moved = TRUE]

\* _call, past the wait for the restart: a link that is broken shows on sending.
Sends(c, a) ==
  IF adapter[a].link = "open"
  THEN /\ call' = [call EXCEPT ![c] = [pc |-> "pending", a |-> a]]
       /\ adapter' = Moves(adapter, a)
       /\ UNCHANGED <<task, inflight, skipped>>
  ELSE Lost(a, [Failed(a) EXCEPT ![c] = [pc |-> "failed", a |-> a]])

Calls_(c) ==
  /\ call[c].pc = "new" /\ Connected(installed)
  /\ IF Restarting(installed)
     THEN /\ call' = [call EXCEPT ![c] = [pc |-> "held", a |-> installed]]
          /\ UNCHANGED <<adapter, task, inflight, skipped>>
     ELSE Sends(c, installed)
  /\ UNCHANGED <<server, extra, turn, made, installed, monitor, faults, spoilt>>

\* ensure_connected gives up on the reconnect after its grace.
GivesUp(c) ==
  /\ call[c].pc = "new" /\ ~Connected(installed)
  /\ call' = [call EXCEPT ![c].pc = "refused"]
  /\ UNCHANGED <<server, extra, turn, adapter, made, installed, task, inflight, monitor,
                 faults, skipped, spoilt>>

HeldGoes(c) ==
  /\ call[c].pc = "held" /\ ~Restarting(call[c].a)
  /\ IF adapter[call[c].a].up
     THEN Sends(c, call[c].a)
     ELSE /\ call' = [call EXCEPT ![c].pc = "failed"]
          /\ UNCHANGED <<adapter, task, inflight, skipped>>
  /\ UNCHANGED <<server, extra, turn, made, installed, monitor, faults, spoilt>>

\* Every adapter that is connected hears of the turn.
Heard == [a \in Adapters |-> [adapter[a] EXCEPT !.moved = @ \/ adapter[a].link = "open"]]

Answers(c) ==
  /\ call[c].pc = "pending" /\ adapter[call[c].a].link = "open" /\ server = "up"
  /\ adapter[call[c].a].idle # "hup"
  /\ call' = [call EXCEPT ![c].pc = "answered"]
  /\ turn' = TRUE /\ adapter' = Heard
  /\ UNCHANGED <<server, extra, made, installed, task, inflight, monitor, faults, skipped, spoilt>>

TimesOut(c) ==
  /\ call[c].pc = "pending" /\ Fault
  /\ call' = [call EXCEPT ![c].pc = "failed"]
  /\ UNCHANGED <<server, extra, turn, adapter, made, installed, task, inflight, monitor,
                 skipped, spoilt>>

-----------------------------------------------------------------------------
(* Letting go of idle sessions.                                            *)

Waits(a) == adapter[a].link = "open" /\ adapter[a].releases /\ ~Restarting(a)

\* turn/completed: each adapter starts its wait anew, a check under way is cancelled.
TurnEnds ==
  /\ turn /\ turn' = FALSE
  /\ adapter' = [a \in Adapters |->
       IF Waits(a) THEN [Heard[a] EXCEPT !.idle = "wait"] ELSE Heard[a]]
  /\ UNCHANGED <<server, extra, made, installed, task, inflight, monitor, call, faults,
                 skipped, spoilt>>

Idle(a, phase) == adapter' = [adapter EXCEPT ![a].idle = phase]

Pending(a) == \E c \in Calls : call[c] = [pc |-> "pending", a |-> a]

Unchecked == UNCHANGED <<extra, turn, made, installed, task, inflight, monitor, call,
                         faults, skipped, spoilt>>

\* _release_idle_backend: it notes where the activity stands and asks for the sessions.
Checks(a) ==
  /\ adapter[a].idle = "wait"
  /\ IF adapter[a].up /\ ~Pending(a)
     THEN adapter' = [adapter EXCEPT ![a].idle = "check", ![a].moved = FALSE]
     ELSE Idle(a, "no")
  /\ Unchecked /\ UNCHANGED server

Standing(a) == adapter[a].link = "open" /\ adapter[a].up

\* The sessions are read one after the other: here the one a turn may run in.
ReadsStatus(a) ==
  /\ adapter[a].idle = "check"
  /\ Idle(a, IF Standing(a) /\ ~turn THEN "read" ELSE "no")
  /\ Unchecked /\ UNCHANGED server

\* A bug: the release does not look again.
ReleasesAtOnce(a) ==
  /\ adapter[a].idle = "read"
  /\ Idle(a, IF Standing(a) THEN "hup" ELSE "no")
  /\ Unchecked /\ UNCHANGED server

\* With the last one: anything since, and it waits again; else the server gets SIGHUP.
Releases(a) ==
  /\ adapter[a].idle = "read"
  /\ Idle(a, IF ~Standing(a) THEN "no"
             ELSE IF adapter[a].moved THEN "wait"
             ELSE IF Pending(a) THEN "no" ELSE "hup")
  /\ Unchecked /\ UNCHANGED server

\* The server drains its turns and exits; the restart looks whether it is to start one.
ServerLeaves(a) ==
  /\ adapter[a].idle = "hup" /\ ~turn
  /\ \/ /\ server = "up" /\ server' = "dead"
        /\ adapter' = [Cut EXCEPT ![a].idle = "starting"]
     \/ /\ server # "up" /\ Idle(a, "starting") /\ UNCHANGED server
  /\ Unchecked

\* A bug: it keeps that to itself.
RestartFailsSilently(a) ==
  /\ adapter' = [adapter EXCEPT ![a].up = FALSE, ![a].idle = "no", ![a].reads = FALSE]
  /\ UNCHANGED <<task, inflight>>

\* A restart that failed: the adapter says that it is lost, and a reconnect follows.
RestartFails(a) ==
  /\ adapter' = [adapter EXCEPT ![a].up = FALSE, ![a].idle = "no", ![a].reads = FALSE,
                                ![a].told = TRUE]
  /\ IF adapter[a].told THEN UNCHANGED <<task, inflight>> ELSE Schedule(task)

Restarts(a) ==
  /\ adapter[a].idle = "starting"
  /\ \/ /\ server # "up" /\ Spawns /\ NoFault /\ Idle(a, "connect") /\ UNCHANGED <<task, inflight>>
     \/ /\ server = "up" /\ NoFault /\ Idle(a, "connect")
        /\ UNCHANGED <<server, extra, task, inflight>>
     \/ /\ server # "up" /\ Fault /\ RestartFails(a) /\ UNCHANGED <<server, extra>>
  /\ UNCHANGED <<turn, made, installed, monitor, call, skipped, spoilt>>

\* The same adapter connects again: what it had subscribed stays.
Reconnects(a) ==
  /\ adapter[a].idle = "connect"
  /\ \/ /\ server = "up" /\ NoFault
        /\ adapter' = [adapter EXCEPT ![a] = [Fresh EXCEPT !.releases = TRUE]]
        /\ UNCHANGED <<task, inflight>>
     \/ /\ IF server = "up" THEN Fault ELSE NoFault
        /\ RestartFails(a)
  /\ UNCHANGED <<server, extra, turn, made, installed, monitor, call, skipped, spoilt>>

-----------------------------------------------------------------------------

TaskStep(t) == \/ TakesAway(t) \/ Wakes(t) \/ Starts(t) \/ Connects(t) \/ ConnectFails(t)
               \/ Installs(t) \/ SetupEnds(t)

AdapterStep(a) == \/ ReaderEnds(a) \/ Checks(a) \/ ReadsStatus(a) \/ Releases(a)
                  \/ ServerLeaves(a) \/ Restarts(a) \/ Reconnects(a)

CallStep(c) == GivesUp(c) \/ HeldGoes(c) \/ Answers(c)

Next ==
  \/ ServerDies \/ MonitorFinds \/ TurnEnds
  \/ \E a \in Adapters : AdapterStep(a) \/ LinkBreaks(a)
  \/ \E t \in Tasks : TaskStep(t) \/ SetupFails(t)
  \/ \E c \in Calls : CallStep(c) \/ Calls_(c) \/ TimesOut(c)

Spec == Init /\ [][Next]_vars

(* The event loop goes on with each task and reader, and timers fire; a    *)
(* server that was told to leave does once its turn is over, and a turn    *)
(* ends.  Nothing is owed by the faults or by the program's callers.       *)
FairSpec ==
  /\ Spec
  /\ WF_vars(MonitorFinds) /\ WF_vars(TurnEnds)
  /\ \A a \in Adapters : WF_vars(AdapterStep(a))
  /\ \A t \in Tasks : WF_vars(TaskStep(t))
  /\ \A c \in Calls : WF_vars(CallStep(c))

-----------------------------------------------------------------------------
(* Properties.                                                             *)

\* Somebody sees to it that the program gets its connection: a reconnect, a
\* reader that has yet to find its link closed, or a restart.
Tended ==
  \/ Works \/ \E t \in Tasks : task[t].pc # "off"
  \/ installed # 0 /\ (adapter[installed].reads \/ Restarting(installed))

\* A lost connection is seen to, but for one that is lost while its own
\* reconnect is setting it up: its notice meets the flag of the loop that is
\* about to end (schedule_reconnect, reconnect_loop).
TendedUnlessSkipped == Tended \/ skipped

\* Only a failed setup leaves a connection standing beside the next one: no
\* event is dispatched twice otherwise, and no second app-server is started.
OneConnection ==
  \/ spoilt
  \/ /\ extra = 0
     /\ \A a, b \in Adapters :
          adapter[a].link = "open" /\ adapter[b].link = "open" => a = b

\* There is one connection, and it is seen to until it works again.
ConnectionKept == TendedUnlessSkipped /\ OneConnection

\* Letting go of idle sessions harms nothing: without a failure no call that was
\* made fails, though the server is stopped and started under it.
IdleHarmless == faults = 0 => \A c \in Calls : call[c].pc # "failed"

\* The server is told to leave only while no turn is running in it.
IdleOnly == [][\A a \in Adapters :
  adapter[a].idle # "hup" /\ adapter'[a].idle = "hup" => ~turn]_vars

\* Every call that is made ends, whatever becomes of the connection.
CallsEnd == \A c \in Calls :
  call[c].pc \in {"held", "pending"} ~> call[c].pc \in {"answered", "failed"}
=============================================================================
