-------------------------- MODULE ExternalIngress --------------------------
(***************************************************************************)
(* How the turns of one Codex session reach the bus when OnlineWorker does *)
(* not run them, or is not alone in telling of them.                       *)
(*                                                                         *)
(* Four sources tell the same story: the app-server connection, lifecycle  *)
(* hooks, notify, and the rollout file Codex appends to.  Each is handled  *)
(* by a task of its own on one event loop: a step of this module is what   *)
(* one task does between two awaits.  Every await of these tasks is an     *)
(* asyncio.sleep(0), after which the loop resumes them in turn.  The       *)
(* sources agree by claims: per turn and kind of event one source is       *)
(* committed, and the others keep quiet.                                   *)
(***************************************************************************)
EXTENDS SessionBus, SequencesExt

CONSTANTS
  Modes,      \* who may run a turn: "cli", "app"
  Talks,      \* turns with a message before the final one
  Overlap,    \* what tells of a turn may outlast it, and overtake
  MaxLost     \* bound: relays that never arrive

ASSUME IngressAssumption ==
  /\ Modes \subseteq {"cli", "app"}
  /\ Talks \subseteq Turns
  /\ Overlap \in BOOLEAN
  /\ MaxLost \in Nat

VARIABLES
  codex,         \* the world: [turn, running, mode, said, lost]
  relays,        \* hook and notify processes under way
  wire,          \* app-server notifications not received yet
  appq,          \* _event_queue
  unread,        \* rollout rows past the cursor
  batch,         \* rows the drain task read and has not processed
  armed,         \* the rollout has an active kqueue watch
  rollout,       \* _RolloutState: [started, terminal]
  fallbacks,     \* _fallback_tasks that sleep out their grace period
  ready,         \* the tasks that gave way, in the order they resume
  session,       \* _external_hook_sessions: [created, started, terminal]
  claims,        \* _ingress_source_claims
  authoritative  \* _authoritative_live_sessions

world   == <<codex, relays, wire>>
files   == <<unread, batch, armed, rollout, fallbacks>>
vars    == <<busVars, world, appq, files, ready, session, claims, authoritative>>

Claimable == {"started", "commentary", "completed"}
Sources   == {"codex_rollout", "codex_notify", "codex_hook", "codex_app_server"}
Free      == [source |-> "", committed |-> FALSE]

Priority(s) ==
  CASE s = "codex_rollout"    -> 1
    [] s = "codex_notify"     -> 2
    [] s = "codex_hook"       -> 3
    [] s = "codex_app_server" -> 4
    [] OTHER                  -> 0

\* A call is named by what it was called with; pc is where it awaits.
Call(event, source, t) == [event |-> event, source |-> source, turn |-> t, pc |-> ""]
At(h, pc) == [h EXCEPT !.pc = pc]

Events == {"submit", "comment", "complete", "stop", "work"}
Points == {"claim", "claimStarted", "created", "prompted", "opened", "finalled", "leaving", "closing"}

TypeOK ==
  /\ BusTypeOK
  /\ codex \in [turn : 0 .. LastTurn, running : BOOLEAN, mode : {"cli", "app"},
                said : BOOLEAN, lost : 0 .. MaxLost]
  /\ \A i \in DOMAIN relays : relays[i] \in [event : Events, source : Sources, turn : Turns, pc : {""}]
  /\ armed \in BOOLEAN
  /\ rollout.started \in Turns \cup {NoTurn} /\ rollout.terminal \subseteq Turns
  /\ fallbacks \subseteq Turns \X {"started", "completed"}
  /\ \A i \in DOMAIN ready : ready[i] \in [event : Events, source : Sources, turn : Turns, pc : Points]
  /\ session \in [created : BOOLEAN, started : Turns \cup {NoTurn}, terminal : Turns \cup {NoTurn}]
  /\ claims \in [Turns \X Claimable -> [source : Sources \cup {""}, committed : BOOLEAN]]
  /\ authoritative \in BOOLEAN

Init ==
  /\ BusInit
  /\ codex = [turn |-> 0, running |-> FALSE, mode |-> "cli", said |-> FALSE, lost |-> 0]
  /\ relays = <<>> /\ wire = <<>> /\ appq = <<>>
  /\ unread = <<>> /\ batch = <<>> /\ armed = FALSE
  /\ rollout = [started |-> NoTurn, terminal |-> {}]
  /\ fallbacks = {} /\ ready = <<>>
  /\ session = [created |-> FALSE, started |-> NoTurn, terminal |-> NoTurn]
  /\ claims = [k \in Turns \X Claimable |-> Free]
  /\ authoritative = FALSE

----------------------------------------------------------------------------
(* Codex.                                                                  *)

Running(event) == \E i \in DOMAIN ready : ready[i].event = event

\* Calls take milliseconds, relays seconds and turns minutes: mostly each
\* finds the one before it done.
Apart == Overlap \/ (relays = <<>> /\ ready = <<>>)

\* A turn runs in the app-server, or in another Codex process once the
\* app-server has let go of the session.  Either way the hook fires and the
\* rollout records the prompt.
StartTurn(mode) ==
  /\ ~codex.running /\ codex.turn < LastTurn
  /\ Apart
  /\ mode = "app" \/ (~authoritative /\ wire = <<>>)
  /\ LET t == codex.turn + 1 IN
       /\ codex' = [codex EXCEPT !.turn = t, !.running = TRUE, !.mode = mode, !.said = FALSE]
       /\ relays' = Append(relays, Call("submit", "codex_hook", t))
       /\ unread' = Append(unread, <<"prompt", t>>)
       /\ wire' = IF mode = "app" THEN Append(wire, <<"started", t>>) ELSE wire
  /\ authoritative' \in {authoritative, authoritative \/ mode = "app"}  \* thread/resume
  /\ UNCHANGED <<busVars, appq, batch, armed, rollout, fallbacks, ready, session, claims>>

\* Bound: one message before the final one.
Comment ==
  /\ codex.running /\ ~codex.said /\ codex.turn \in Talks
  /\ codex' = [codex EXCEPT !.said = TRUE]
  /\ unread' = Append(unread, <<"comment", codex.turn>>)
  /\ wire' = IF codex.mode = "app" THEN Append(wire, <<"progress", codex.turn>>) ELSE wire
  /\ UNCHANGED <<busVars, relays, appq, batch, armed, rollout, fallbacks, ready, session, claims, authoritative>>

EndTurn ==
  /\ codex.running
  /\ Apart
  /\ LET t == codex.turn IN
       /\ codex' = [codex EXCEPT !.running = FALSE]
       /\ relays' = relays \o <<Call("stop", "codex_hook", t), Call("complete", "codex_notify", t)>>
       /\ unread' = Append(unread, <<"complete", t>>)
       /\ wire' = IF codex.mode = "app" THEN wire \o <<<<"final", t>>, <<"completed", t>>>> ELSE wire
  /\ UNCHANGED <<busVars, appq, batch, armed, rollout, fallbacks, ready, session, claims, authoritative>>

\* The relay gives up after its timeout, or nobody listens.
Lose(i) ==
  /\ codex.lost < MaxLost
  /\ relays' = RemoveAt(relays, i)
  /\ codex' = [codex EXCEPT !.lost = @ + 1]
  /\ UNCHANGED <<busVars, wire, appq, files, ready, session, claims, authoritative>>

----------------------------------------------------------------------------
(* Claims: the operators below take the claims cl and the session record s *)
(* as the task has left them so far in its step.                           *)

Committed(source) == [source |-> source, committed |-> TRUE]

\* An uncommitted claim yields to a source of higher priority.
MayReserve(c, source) == c.source = source \/ Priority(source) > Priority(c.source)

\* A claim, committed or not, is given to whoever comes last.
CommitAnyone(c, source) == TRUE

\* The task still holds the reservation it made before it awaited.
MayCommit(c, source) == c.source = source

\* The other tasks, h being the one that runs now.
Others(h) == IF h.pc = "" THEN ready ELSE Tail(ready)

\* The call is over.
Leave(h, cl, s) ==
  /\ ready' = Others(h) /\ claims' = cl /\ session' = s
  /\ UNCHANGED busVars

Await(h, cl, s, pc) ==
  /\ ready' = Append(Others(h), At(h, pc))
  /\ claims' = cl /\ session' = s

\* _emit_external_hook_event: publish, then give way to the other tasks.
Emit(h, cl, s, e, pc) == Publish(e) /\ Await(h, cl, s, pc)

\* A source that holds the claim goes on at once; one that may reserve it
\* gives way first, so that a better source can still take it.
Claim(h, cl, s, k, pc, Yes(_, _, _), No(_, _, _)) ==
  LET key == <<h.turn, k>>
      c   == cl[key]
  IN  \/ c = Committed(h.source) /\ Yes(h, cl, s)
      \/ c.committed /\ c.source # h.source /\ No(h, cl, s)
      \/ /\ ~c.committed /\ authoritative
         /\ No(h, [cl EXCEPT ![key] = Committed("codex_app_server")], s)
      \/ /\ ~c.committed /\ ~authoritative /\ MayReserve(c, h.source)
         /\ Await(h, [cl EXCEPT ![key] = [source |-> h.source, committed |-> FALSE]], s, pc)
         /\ UNCHANGED busVars
      \/ /\ ~c.committed /\ ~authoritative /\ ~MayReserve(c, h.source)
         /\ No(h, cl, s)

\* After the await: the app-server may have taken the session meanwhile,
\* or a better source the reservation.
Resolve(h, k, Yes(_, _, _), No(_, _, _)) ==
  LET key == <<h.turn, k>>
      cl  == IF authoritative /\ ~claims[key].committed
             THEN [claims EXCEPT ![key] = Committed("codex_app_server")] ELSE claims
  IN  \/ MayCommit(cl[key], h.source) /\ Yes(h, [cl EXCEPT ![key] = Committed(h.source)], session)
      \/ ~MayCommit(cl[key], h.source) /\ No(h, cl, session)

----------------------------------------------------------------------------
(* ingest_external_hook_payload, from one await to the next.               *)

Prompt(h, cl, s) ==
  Emit(h, cl,
       IF h.event = "submit" THEN [s EXCEPT !.started = h.turn, !.terminal = NoTurn] ELSE s,
       Event("submitted", h.turn, "turn"), "prompted")

\* The first turn creates the session, which changes nothing modelled here.
Announce(h, cl, s) ==
  \/ s.created /\ Prompt(h, cl, s)
  \/ ~s.created /\ Await(h, cl, s, "created") /\ UNCHANGED busVars

Final(h, cl, s) == Emit(h, cl, s, Event("final", h.turn, "external"), "finalled")
Close(h, cl, s) == Final(h, cl, [s EXCEPT !.terminal = NoTurn])
Message(h, cl, s) == Emit(h, cl, s, Event("progress", h.turn, "external"), "leaving")
Open(h, cl, s) == Emit(h, cl, s, Event("started", h.turn, "turn"), "opened")

Commentary(h, cl, s) ==
  \/ s.started = h.turn /\ Message(h, cl, s)
  \/ s.started # h.turn /\ Claim(h, cl, s, "started", "claimStarted", Open, Message)

\* A completion that finds no start of its turn tells of the start too.
Completion(h, cl, s) ==
  \/ s.started = h.turn /\ Close(h, cl, s)
  \/ s.started # h.turn /\ Claim(h, cl, s, "started", "claimStarted", Announce, Close)

\* The call up to its first await.
Begin(h) ==
  \/ /\ IF h.event = "submit" THEN session.started = h.turn ELSE session.terminal = h.turn
     /\ Leave(h, claims, session)
  \/ h.event = "submit" /\ session.started # h.turn
       /\ Claim(h, claims, session, "started", "claim", Announce, Leave)
  \/ h.event # "submit" /\ session.terminal # h.turn
       /\ \/ h.event = "comment"  /\ Claim(h, claims, session, "commentary", "claim", Commentary, Leave)
          \/ h.event = "complete" /\ Claim(h, claims, session, "completed", "claim", Completion, Leave)
          \/ h.event = "stop"     /\ Claim(h, claims, session, "completed", "claim", Final, Leave)

AskedFor(h) ==
  CASE h.pc = "claimStarted" \/ h.event = "submit" -> "started"
    [] h.event = "comment" -> "commentary"
    [] OTHER -> "completed"

\* record_primary_event: another source than the rollout tells of k, so the
\* rollout's own account is not needed.  Arming the watch moves the cursor
\* to the end of the file.
Primary(source, t, k) ==
  /\ fallbacks' = fallbacks \ ({<<t, k>>} \cup (IF k = "completed" THEN {<<t, "started">>} ELSE {}))
  /\ rollout' = CASE k = "started"   -> [rollout EXCEPT !.started = t]
                  [] k = "completed" -> [rollout EXCEPT !.terminal = @ \cup {t}]
                  [] OTHER           -> rollout
  /\ armed' = CASE k = "started"   -> TRUE
                [] k = "completed" -> FALSE
                [] OTHER           -> armed
  /\ unread' = IF k = "started" /\ ~armed THEN <<>> ELSE unread
  /\ UNCHANGED batch

\* When its fallback's call returns, told or suppressed, the rollout has
\* its account settled.
Settle(h) ==
  LET over == \A i \in DOMAIN ready' : At(ready'[i], "") # At(h, "")
  IN  rollout' = CASE over /\ h.event = "submit"   -> [rollout EXCEPT !.started = h.turn]
                   [] over /\ h.event = "complete" -> [rollout EXCEPT !.terminal = @ \cup {h.turn}]
                   [] OTHER -> rollout

Bookkeeping(h) ==
  IF h.source = "codex_rollout"
  THEN Settle(h) /\ UNCHANGED <<unread, batch, armed, fallbacks>>
  ELSE IF h.pc \in {"claim", "claimStarted"} /\ claims'[h.turn, AskedFor(h)] = Committed(h.source)
       THEN Primary(h.source, h.turn, AskedFor(h))
       ELSE UNCHANGED files

\* The drain task runs until it awaits: while rows wait in its hand and no
\* call of its own is under way, no other task runs.
Draining == batch # <<>> /\ ~Running("comment")

Continue(h) ==
  \/ h.pc = "claim" /\ h.event = "submit"   /\ Resolve(h, "started", Announce, Leave)
  \/ h.pc = "claim" /\ h.event = "comment"  /\ Resolve(h, "commentary", Commentary, Leave)
  \/ h.pc = "claim" /\ h.event = "complete" /\ Resolve(h, "completed", Completion, Leave)
  \/ h.pc = "claim" /\ h.event = "stop"     /\ Resolve(h, "completed", Final, Leave)
  \/ h.pc = "claimStarted" /\ h.event = "comment"  /\ Resolve(h, "started", Open, Message)
  \/ h.pc = "claimStarted" /\ h.event = "complete" /\ Resolve(h, "started", Announce, Close)
  \/ h.pc = "created" /\ Prompt(h, claims, [session EXCEPT !.created = TRUE])
  \/ h.pc = "prompted"
       /\ Emit(h, claims, session, Event("started", h.turn, "turn"),
               IF h.event = "submit" THEN "leaving" ELSE "opened")
  \/ h.pc = "opened" /\ h.event = "comment"
       /\ Message(h, claims, [session EXCEPT !.started = h.turn])
  \/ h.pc = "opened" /\ h.event = "complete"
       /\ Close(h, claims, [session EXCEPT !.started = h.turn])
  \/ h.pc = "finalled"
       /\ Emit(h, claims, session, Event("completed", h.turn, "external"), "closing")
  \/ h.pc = "closing" /\ Leave(h, claims, [session EXCEPT !.terminal = h.turn])
  \/ h.pc = "leaving" /\ Leave(h, claims, session)

Resume ==
  /\ ~Draining /\ ready # <<>>
  /\ Continue(Head(ready))
  /\ Bookkeeping(Head(ready))
  /\ UNCHANGED <<world, appq, authoritative>>

----------------------------------------------------------------------------
(* Where the calls come from.                                              *)

\* A relay, which is a process of its own, reaches the owner bridge.
Deliver(i) ==
  /\ ~Draining
  /\ Overlap \/ (i = 1 /\ ready = <<>>)
  /\ Begin(relays[i])
  /\ relays' = RemoveAt(relays, i)
  /\ UNCHANGED <<codex, wire, appq, files, authoritative>>

\* The drain task reads whatever was appended.
Read ==
  /\ batch = <<>> /\ unread # <<>>
  /\ ~Running("comment")
  /\ batch' = unread /\ unread' = <<>>
  /\ UNCHANGED <<busVars, world, appq, armed, rollout, fallbacks, ready, session, claims, authoritative>>

\* A prompt or a completion waits for a better source to tell of it.
Waiting(row, t) ==
  CASE row = "prompt" /\ rollout.started # t -> fallbacks \cup {<<t, "started">>}
    [] row = "complete" /\ t \notin rollout.terminal ->
         (fallbacks \ {<<t, "started">>}) \cup {<<t, "completed">>}
    [] OTHER -> fallbacks

Row(row, t) ==
  /\ Draining /\ Head(batch) = <<row, t>>
  /\ batch' = Tail(batch)
  /\ fallbacks' = Waiting(row, t)
  /\ IF row = "comment" THEN Begin(Call("comment", "codex_rollout", t))
                        ELSE UNCHANGED <<busVars, ready, session, claims>>
  /\ UNCHANGED <<world, appq, unread, armed, rollout, authoritative>>

\* The grace period ends; a notification does not take that long.
Fallback(t, k) ==
  /\ ~Draining
  /\ Overlap \/ wire = <<>>
  /\ <<t, k>> \in fallbacks
  /\ fallbacks' = fallbacks \ {<<t, k>>}
  /\ LET h == Call(IF k = "started" THEN "submit" ELSE "complete", "codex_rollout", t)
     IN  Begin(h) /\ Settle(h)
  /\ UNCHANGED <<world, appq, unread, batch, armed, authoritative>>

KindOf(event) ==
  CASE event = "started" -> "started" [] event = "progress" -> "commentary" [] OTHER -> "completed"

\* Lets the app-server take over what another source has committed.
OutdoneNever(t, k) == FALSE

\* Yields to a claim that is only reserved.
OutdoneReserved(t, k) == claims[t, k].source \notin {"", "codex_app_server"}

Outdone(t, k) == claims[t, k].committed /\ claims[t, k].source # "codex_app_server"

\* A notification arrives: it takes its claim without waiting, unless
\* another source has committed it.
Receive ==
  /\ ~Draining /\ wire # <<>>
  /\ LET e == Head(wire)[1]
         t == Head(wire)[2]
         k == KindOf(e)
     IN  IF Outdone(t, k) THEN UNCHANGED <<claims, appq, files>>
         ELSE /\ claims' = [claims EXCEPT ![<<t, k>>] = Committed("codex_app_server")]
              /\ appq' = Append(appq, Event(e, t, IF e = "started" THEN "turn" ELSE "app"))
              /\ Primary("codex_app_server", t, k)
  /\ wire' = Tail(wire)
  /\ authoritative' = TRUE
  /\ UNCHANGED <<busVars, codex, relays, ready, session>>

\* The event worker publishes, gives way, and notes a turn's end.
Work ==
  /\ ~Draining /\ ~Running("work") /\ appq # <<>>
  /\ LET e == Head(appq)
     IN  Emit(Call("work", "codex_app_server", e.turn), claims, session, e,
              IF e.kind = "completed" THEN "closing" ELSE "leaving")
  /\ appq' = Tail(appq)
  /\ UNCHANGED <<world, files, authoritative>>

\* The idle app-server is restarted and lets go of its sessions.
Release ==
  /\ authoritative /\ wire = <<>> /\ appq = <<>> /\ ~Running("work")
  /\ ~(codex.running /\ codex.mode = "app")
  /\ authoritative' = FALSE
  /\ UNCHANGED <<busVars, world, appq, files, ready, session, claims>>

Next ==
  \/ \E mode \in Modes : StartTurn(mode)
  \/ Comment
  \/ EndTurn
  \/ \E i \in DOMAIN relays : Deliver(i) \/ Lose(i)
  \/ Read
  \/ \E row \in {"prompt", "comment", "complete"}, t \in Turns : Row(row, t)
  \/ \E t \in Turns, k \in {"started", "completed"} : Fallback(t, k)
  \/ Resume
  \/ Receive
  \/ Work
  \/ Release

Spec == Init /\ [][Next]_vars

----------------------------------------------------------------------------
(* Properties.                                                             *)

\* Nothing of the turns so far is still on its way.
Quiet ==
  /\ ~codex.running
  /\ relays = <<>> /\ wire = <<>> /\ appq = <<>>
  /\ unread = <<>> /\ batch = <<>> /\ fallbacks = {} /\ ready = <<>>

\* The sources tell of a turn's end once: one final message and one
\* completion reach the bus, whoever tells them first.
OneSequence ==
  \A e, f \in seen : e.kind = f.kind /\ e.turn = f.turn => e = f

\* A committed claim keeps its owner, so that no other source's account of
\* the same event is let through later.
OwnerKept ==
  [][\A k \in DOMAIN claims : claims[k].committed => claims'[k] = claims[k]]_vars

\* Once everything has arrived, no finished turn is shown as running.
ShownOver == Quiet => activity.status # "running" /\ activity.turn = NoTurn

\* Once everything has arrived, the ledger's current run is that of the
\* latest turn, it is completed, and the thread is idle.
LedgerOver ==
  Quiet /\ codex.turn # 0 => current = codex.turn /\ runs[current] = "completed" /\ ~active

Told(kind, t) == \E e \in seen : e.kind = kind /\ e.turn = t

\* Once everything has arrived, each turn's final message has been
\* published, though a hook was lost.
EndTold == Quiet => \A t \in 1 .. codex.turn : Told("final", t)

\* What arrives late of an earlier turn does not make it current again.
NeverBack == [][activity'.known >= activity.known /\ current' >= current]_vars
=============================================================================
