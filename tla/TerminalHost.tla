---------------------------- MODULE TerminalHost ----------------------------
(***************************************************************************)
(* The host that runs codex in a terminal and types messages into it: one  *)
(* in OnlineWorker's process, bound anew to the thread of each send, and   *)
(* those a user starts by hand.  All share one socket path and one status  *)
(* file.  A send looks at the file, connects to the socket and asks.       *)
(***************************************************************************)
EXTENDS Naturals, FiniteSets

CONSTANTS
  Threads,  \* threads
  Messages, \* sends
  MaxHosts  \* bound: hosts ever started

VARIABLES
  to,      \* the thread each message is for
  stage,   \* how far its send is
  link,    \* the host it is connected to, 0 without one
  hosts,   \* hosts so far: thread, whether it is ours, serving, its child alive
  current, \* our host (get_tui_host), 0 without one
  holder,  \* the send that holds the host's lock across a start
  socket,  \* the host the socket file leads to, 0 without the file
  status,  \* the status file
  typed    \* which message was typed into which thread's terminal

vars == <<to, stage, link, hosts, current, holder, socket, status, typed>>

Ids      == 1..Cardinality(DOMAIN hosts)
Offline  == [online |-> FALSE, host |-> 0]
Nobody   == "nobody"
Stages   == {"new", "bind", "yield", "refuse", "lock", "start", "look", "connect", "asked", "ok", "failed"}
InFlight == Stages \ {"new", "ok", "failed"}

TypeOK ==
  /\ to \in [Messages -> Threads] /\ stage \in [Messages -> Stages]
  /\ link \in [Messages -> 0..MaxHosts]
  /\ Ids \subseteq 1..MaxHosts
  /\ hosts \in [Ids -> [thread : Threads, ours : BOOLEAN, serving : BOOLEAN, child : BOOLEAN]]
  /\ {current, socket} \subseteq Ids \cup {0} /\ holder \in Messages \cup {Nobody}
  /\ status \in [online : BOOLEAN, host : Ids \cup {0}]
  /\ typed \subseteq Messages \X Threads

Init ==
  /\ to \in [Messages -> Threads] /\ stage = [m \in Messages |-> "new"]
  /\ link = [m \in Messages |-> 0]
  /\ hosts = [h \in {} |-> 0] /\ current = 0 /\ holder = Nobody
  /\ socket = 0 /\ status = Offline /\ typed = {}

-----------------------------------------------------------------------------
(* Hosts.                                                                  *)

\* start: whatever stands at the socket's path is removed, the child forked, the file written.
Starts(t, ours) ==
  LET h == Cardinality(Ids) + 1 IN
  /\ h <= MaxHosts
  /\ hosts' = [k \in 1..h |-> IF k < h THEN hosts[k]
                 ELSE [thread |-> t, ours |-> ours, serving |-> TRUE, child |-> TRUE]]
  /\ socket' = h /\ status' = [online |-> TRUE, host |-> h]

\* stop: whatever stands at the socket's path is removed, and the file says offline.
Stops(h) ==
  /\ hosts' = [hosts EXCEPT ![h].serving = FALSE, ![h].child = FALSE]
  /\ socket' = 0 /\ status' = Offline

\* A user starts a host by hand, and ends it.
StartByHand(t) ==
  /\ Starts(t, FALSE) /\ UNCHANGED <<to, stage, link, current, holder, typed>>

EndByHand(h) ==
  /\ h \in Ids /\ ~hosts[h].ours /\ hosts[h].serving /\ Stops(h)
  /\ UNCHANGED <<to, stage, link, current, holder, typed>>

\* It is killed: what it left behind stands.
DiesByHand(h) ==
  /\ h \in Ids /\ ~hosts[h].ours /\ hosts[h].serving
  /\ hosts' = [hosts EXCEPT ![h].serving = FALSE, ![h].child = FALSE]
  /\ UNCHANGED <<to, stage, link, current, holder, socket, status, typed>>

\* Codex ends in our host: nobody waits for it, and its pid still answers.
ChildExits(h) ==
  /\ h \in Ids /\ hosts[h].ours /\ hosts[h].child
  /\ hosts' = [hosts EXCEPT ![h].child = FALSE]
  /\ UNCHANGED <<to, stage, link, current, holder, socket, status, typed>>

\* _status_loop: each host writes the file every second.
StatusLoop(h) ==
  /\ h \in Ids /\ hosts[h].serving
  /\ status' = [online |-> TRUE, host |-> h]
  /\ UNCHANGED <<to, stage, link, hosts, current, holder, socket, typed>>

-----------------------------------------------------------------------------
(* A send.                                                                 *)

Goes(m, s) == stage' = [stage EXCEPT ![m] = s]

\* enqueue_codex_tui_message: one send at a time on a thread.
Enqueue(m) ==
  /\ stage[m] = "new" /\ \A n \in Messages : to[n] = to[m] => stage[n] \notin InFlight
  /\ Goes(m, "bind")
  /\ UNCHANGED <<to, link, hosts, current, holder, socket, status, typed>>

\* _read_live_host_status: online, with its socket there and its process alive.
LiveByHand ==
  status.online /\ socket # 0 /\ ~hosts[status.host].ours /\ hosts[status.host].serving

Bind(m) ==
  /\ stage[m] = "bind"
  /\ Goes(m, IF ~LiveByHand THEN "lock"
             ELSE IF hosts[status.host].thread = to[m] THEN "yield" ELSE "refuse")
  /\ UNCHANGED <<to, link, hosts, current, holder, socket, status, typed>>

\* A host started by hand has precedence: ours is stopped, and its stop removes the other's
\* socket and overwrites its file.
Yield(m) ==
  /\ stage[m] \in {"yield", "refuse"} /\ holder = Nobody
  /\ Goes(m, IF stage[m] = "yield" THEN "look" ELSE "failed")
  /\ IF current # 0 THEN Stops(current) ELSE UNCHANGED <<hosts, socket, status>>
  /\ current' = 0
  /\ UNCHANGED <<to, link, holder, typed>>

\* A bug: the lock is not kept while a host is started.
FreeAlways == TRUE

Free == holder = Nobody

\* Under the lock: our host serves the thread already, or another takes its place.
Take(m) ==
  /\ stage[m] = "lock" /\ Free
  /\ IF current # 0 /\ hosts[current].thread = to[m]
     THEN Goes(m, "look") /\ UNCHANGED <<hosts, current, holder, socket, status>>
     ELSE /\ Goes(m, "start") /\ holder' = m /\ current' = 0
          /\ IF current # 0 THEN Stops(current) ELSE UNCHANGED <<hosts, socket, status>>
  /\ UNCHANGED <<to, link, typed>>

\* The remote proxy answered, or did not.
Start(m) ==
  /\ stage[m] = "start" /\ holder' = Nobody
  /\ \/ Starts(to[m], TRUE) /\ current' = Cardinality(Ids) + 1 /\ Goes(m, "look")
     \/ Goes(m, "failed") /\ UNCHANGED <<hosts, current, socket, status>>
  /\ UNCHANGED <<to, link, typed>>

\* send_message_to_codex_tui_host reads the file once more, which may have gone on.
Look(m) ==
  /\ stage[m] = "look"
  /\ Goes(m, IF status.host # 0 /\ hosts[status.host].thread = to[m] THEN "connect" ELSE "failed")
  /\ UNCHANGED <<to, link, hosts, current, holder, socket, status, typed>>

Connect(m) ==
  /\ stage[m] = "connect" /\ link' = [link EXCEPT ![m] = socket]
  /\ Goes(m, IF socket = 0 THEN "failed" ELSE "asked")
  /\ UNCHANGED <<to, hosts, current, holder, socket, status, typed>>

\* No answer within five seconds: the request is still there.
TimesOut(m) ==
  /\ stage[m] = "asked" /\ Goes(m, "failed")
  /\ UNCHANGED <<to, link, hosts, current, holder, socket, status, typed>>

\* validate_thread_binding
ValidBinding(h, t) == hosts[h].thread = t

Handle(m) ==
  /\ link[m] # 0 /\ link' = [link EXCEPT ![m] = 0]
  /\ LET h    == link[m]
         done == ValidBinding(h, to[m]) /\ hosts[h].serving /\ hosts[h].child
     IN /\ typed' = IF done THEN typed \cup {<<m, hosts[h].thread>>} ELSE typed
        /\ Goes(m, IF stage[m] # "asked" THEN stage[m] ELSE IF done THEN "ok" ELSE "failed")
  /\ UNCHANGED <<to, hosts, current, holder, socket, status>>

Next ==
  \/ \E t \in Threads : StartByHand(t)
  \/ \E h \in 1..MaxHosts : EndByHand(h) \/ DiesByHand(h) \/ ChildExits(h) \/ StatusLoop(h)
  \/ \E m \in Messages :
       \/ Enqueue(m) \/ Bind(m) \/ Yield(m) \/ Take(m) \/ Start(m)
       \/ Look(m) \/ Connect(m) \/ TimesOut(m) \/ Handle(m)

Spec == Init /\ [][Next]_vars

-----------------------------------------------------------------------------
\* A message is typed into its own thread's terminal only, however the socket and the
\* status file change hands between the look at one and the use of the other; and ours
\* is the only host of ours, whatever sends bind it at once.
RightTerminal ==
  /\ \A p \in typed : p[2] = to[p[1]]
  /\ \A h \in Ids : hosts[h].ours /\ hosts[h].serving => h = current
=============================================================================
