------------------------------- MODULE Topics -------------------------------
(***************************************************************************)
(* The Telegram topics of a provider, one workspace and its sessions.      *)
(* Which topic is whose is kept twice: in the route store (SQLite) and in  *)
(* state.json; the bot asks the routes, and a restart fills them up from   *)
(* state.json.  A topic is made by /new, by a press on a session's, the    *)
(* workspace's or the provider's button, for the provider at startup too;  *)
(* /archive closes or deletes a session's, and so does startup.            *)
(***************************************************************************)
EXTENDS Naturals, FiniteSets

CONSTANTS
  Sessions,   \* sessions
  Workspace,  \* the workspace
  Agent,      \* the provider, whose topic is its console
  LegacyKey,  \* the key state.json had the workspace under at first
  CanonicalKey, \* the key that is made of tool and path
  Ways,       \* what becomes of an archived session's topic, as configured
  MaxTopics,  \* bound: topics made
  MaxFaults   \* bound: crashes, lost answers, failed writes, topics a user deletes

ASSUME TopicsAssumption ==
  /\ MaxTopics \in Nat \ {0} /\ MaxFaults \in Nat
  /\ Ways \subseteq {"closed", "deleted"}
  /\ Workspace \notin Sessions /\ Agent \notin Sessions \cup {Workspace}

VARIABLES
  tg,        \* each topic in the group
  madeFor,   \* whom it was made for
  made,      \* topics made
  route,     \* the route store's row of each topic
  mem,       \* the storage object: workspace key, topics, sessions
  disk,      \* state.json
  source,    \* sessions the provider has archived
  callback,  \* the one button press that is handled
  creation,  \* each session's /new
  archive,   \* each session's /archive, or its cleanup at startup
  cleanup,   \* sessions, and the provider, startup has yet to look at
  faults,    \* faults so far
  lost,      \* topics nobody here was told of
  raced,     \* sessions opened while their /new was under way
  torn       \* topics --resume bound and could not save as bound

vars == <<tg, madeFor, made, route, mem, disk, source, callback, creation, archive,
          cleanup, faults, lost, raced, torn>>

\* What is noted for the properties, but for the topics nobody was told of.
noted == <<raced, torn>>

Targets == Sessions \cup {Workspace, Agent}
Topics  == 1..MaxTopics
NoTopic == 0

NoRow == [to |-> Workspace, key |-> CanonicalKey, status |-> "none"]
Rows  == [to : Targets, key : {LegacyKey, CanonicalKey},
          status : {"none", "unknown", "active", "archived", "invalid"}]

\* local: what (archived, is_active) say; unbound: a topic whose binding failed.
Storages == [key : {LegacyKey, CanonicalKey}, topic : [Targets -> 0..MaxTopics],
             local : [Sessions -> {"unknown", "active", "inactive", "archived"}],
             unbound : [Sessions -> 0..MaxTopics]]

Idle == [pc |-> "idle", to |-> Workspace, topic |-> NoTopic]
None == [pc |-> "none", key |-> CanonicalKey, topic |-> NoTopic]
Done == [pc |-> "none", topic |-> NoTopic]

TypeOK ==
  /\ tg \in [Topics -> {"none", "open", "closed", "deleted"}]
  /\ madeFor \in [Topics -> Targets] /\ made \in 0..MaxTopics
  /\ route \in [Topics -> Rows] /\ mem \in Storages /\ disk \in Storages
  /\ source \subseteq Sessions
  /\ callback \in [pc : {"idle", "probe", "asked", "made"}, to : Targets, topic : 0..MaxTopics]
  /\ creation \in [Sessions -> [pc : {"none", "asked", "made"},
                                key : {LegacyKey, CanonicalKey}, topic : 0..MaxTopics]]
  /\ archive \in [Sessions -> [pc : {"none", "source", "desktop", "topic"}, topic : 0..MaxTopics]]
  /\ cleanup \subseteq Sessions \cup {Agent}
  /\ faults \in 0..MaxFaults /\ lost \subseteq Topics /\ raced \subseteq Sessions
  /\ torn \subseteq Topics
  \* A topic that was made and not yet bound has no row but an unknown one.
  /\ callback.pc = "made" => route[callback.topic].status \in {"none", "unknown"}

Init ==
  /\ tg = [t \in Topics |-> "none"] /\ madeFor = [t \in Topics |-> Workspace]
  /\ made = 0 /\ route = [t \in Topics |-> NoRow]
  /\ mem = [key |-> LegacyKey, topic |-> [x \in Targets |-> NoTopic],
            local |-> [s \in Sessions |-> "unknown"],
            unbound |-> [s \in Sessions |-> NoTopic]]
  /\ disk = mem /\ source = {}
  /\ callback = Idle /\ creation = [s \in Sessions |-> None]
  /\ archive = [s \in Sessions |-> Done] /\ cleanup = {Agent}
  /\ faults = 0 /\ lost = {} /\ raced = {} /\ torn = {}

Fault == faults < MaxFaults /\ faults' = faults + 1

\* Updates are polled for once startup is over.
Up == cleanup = {}

-----------------------------------------------------------------------------
(* The route store.                                                        *)

Active(r, x, key) == {t \in Topics : r[t] = [to |-> x, key |-> key, status |-> "active"]}

\* A provider's route names no workspace.
KeyOf(x) == IF x = Agent THEN CanonicalKey ELSE mem.key

\* get_telegram_session_topic_id, ..._workspace_topic_id, ..._agent_topic_id
TopicOf(x) == IF Active(route, x, KeyOf(x)) = {} THEN NoTopic
              ELSE CHOOSE t \in Active(route, x, KeyOf(x)) : TRUE

\* A bug: the other topics of the target stay active.
UpsertBeside(r, t, x, key) ==
  [r EXCEPT ![t] = [to |-> x, key |-> key, status |-> "active"]]

\* A bug: the scope is not compared.
UpsertClosesAll(r, t, x, key) ==
  [u \in Topics |->
    IF u = t THEN [to |-> x, key |-> key, status |-> "active"]
    ELSE IF r[u].status = "active" /\ r[u].key = key THEN [r[u] EXCEPT !.status = "invalid"]
    ELSE r[u]]

\* _upsert_route_conn: the row of the topic, and none other active for its target.
Upsert(r, t, x, key) ==
  [u \in Topics |->
    IF u = t THEN [to |-> x, key |-> key, status |-> "active"]
    ELSE IF u \in Active(r, x, key) THEN [r[u] EXCEPT !.status = "invalid"]
    ELSE r[u]]

\* A bug: the status is the one older databases had.
ArchivedAsClosed(r, t) == IF t # NoTopic /\ r[t].status = "active"
                          THEN [r EXCEPT ![t].status = "closed"] ELSE r

Archived(r, t) == IF t # NoTopic /\ r[t].status = "active"
                  THEN [r EXCEPT ![t].status = "archived"] ELSE r

Invalidated(r, t) == [r EXCEPT ![t].status = "invalid"]

\* A bug: a topic that has a row of another target is taken again.
MigratableByTarget(r, t, x, key) ==
  ~\E u \in Topics : r[u].status \notin {"none", "unknown"} /\ r[u].to = x /\ r[u].key = key

\* _migrate_route_conn: neither the target nor the topic has a row, in any status.
Migratable(r, t, x, key) ==
  ~\E u \in Topics :
     /\ r[u].status \notin {"none", "unknown"}
     /\ (r[u].to = x /\ r[u].key = key) \/ u = t

\* migrate_telegram_json_topics
Migrated(r, store) ==
  [t \in Topics |->
    IF \E x \in Targets : store.topic[x] = t /\ Migratable(r, t, x, store.key)
    THEN [to |-> CHOOSE x \in Targets : store.topic[x] = t /\ Migratable(r, t, x, store.key),
          key |-> store.key, status |-> "active"]
    ELSE r[t]]

-----------------------------------------------------------------------------
(* Restart: state.json is loaded, the routes filled up, and the sessions   *)
(* looked at one by one before any update is polled for.                   *)

Restarted(r) ==
  /\ mem' = disk /\ route' = Migrated(r, disk)
  /\ callback' = Idle /\ creation' = [s \in Sessions |-> None]
  /\ archive' = [s \in Sessions |-> Done]
  /\ cleanup' = {Agent} \cup {s \in Sessions : disk.local[s] # "unknown"}
  /\ lost' = lost \cup {t \in Topics :
               \/ callback.pc = "made" /\ callback.topic = t
               \/ \E s \in Sessions : creation[s].pc = "made" /\ creation[s].topic = t
               \/ \E s \in Sessions : archive[s].pc = "topic" /\ archive[s].topic = t}
  /\ UNCHANGED <<tg, madeFor, made, disk, source, raced>>

Crash == Fault /\ Restarted(route) /\ UNCHANGED torn

\* _cleanup_archived_threads, one session: what the provider does not list is
\* archived with its topic, if it has one; without one it is just not active.
Looks(s) ==
  /\ s \in cleanup /\ Agent \notin cleanup /\ \A x \in Sessions : archive[x].pc # "topic"
  /\ IF mem.local[s] # "archived" /\ s \in source /\ TopicOf(s) # NoTopic
     THEN /\ mem' = [mem EXCEPT !.local[s] = "archived"] /\ disk' = mem'
          /\ route' = Archived(route, TopicOf(s))
          /\ archive' = [archive EXCEPT ![s] = [pc |-> "topic", topic |-> TopicOf(s)]]
          /\ UNCHANGED cleanup
     ELSE /\ mem' = IF mem.local[s] = "archived" THEN mem
                    ELSE [mem EXCEPT !.local[s] = IF s \in source THEN "inactive" ELSE "active"]
          /\ cleanup' = cleanup \ {s}
          /\ UNCHANGED <<disk, route, archive>>
  /\ UNCHANGED <<tg, madeFor, made, source, callback, creation, faults, lost, noted>>

-----------------------------------------------------------------------------
(* Making a topic.                                                         *)

\* Telegram makes the topic; the answer is on its way.
Makes(x) == /\ made < MaxTopics /\ made' = made + 1
            /\ tg' = [tg EXCEPT ![made + 1] = "open"]
            /\ madeFor' = [madeFor EXCEPT ![made + 1] = x]

\* bind_telegram_session_topic, bind_telegram_workspace_topic, set_global_topic_id,
\* and the save: a provider's topic is in the routes only.
Binds(t, x, key, store) ==
  /\ route' = Upsert(route, t, x, key)
  /\ mem' = IF x = Agent THEN store ELSE [store EXCEPT !.topic[x] = t]
  /\ disk' = mem'

\* Where a press binds its topic: the workspace always under its canonical key.
KeyFor(x) == IF x = Workspace THEN CanonicalKey ELSE KeyOf(x)

\* /new --resume of a session finds a topic that it could not bind.
Rebinds(s) ==
  /\ Up /\ mem.local[s] # "unknown" /\ creation[s].pc = "none"
  /\ TopicOf(s) = NoTopic /\ mem.unbound[s] # NoTopic

\* The process dies between the row and the save.
DiesBinding ==
  /\ Fault
  /\ \/ /\ callback.pc = "made"
        /\ Restarted(Upsert(route, callback.topic, callback.to, KeyFor(callback.to)))
        /\ UNCHANGED torn
     \/ \E s \in Sessions :
          /\ creation[s].pc = "made"
          /\ Restarted(Upsert(route, creation[s].topic, s, creation[s].key))
          /\ UNCHANGED torn
     \/ \E s \in Sessions :
          /\ Rebinds(s)
          /\ Restarted(Upsert(route, mem.unbound[s], s, mem.key))
          /\ torn' = torn \cup {mem.unbound[s]}

Asked(s) == [None EXCEPT !.pc = "asked", !.key = mem.key]

\* /new: the session is registered at once and, its workspace's key noted, a
\* topic asked for.
New(s) ==
  /\ Up /\ mem.local[s] = "unknown"
  /\ mem' = [mem EXCEPT !.local[s] = "active"] /\ disk' = mem'
  /\ creation' = [creation EXCEPT ![s] = Asked(s)]
  /\ UNCHANGED <<tg, madeFor, made, route, source, callback, archive, cleanup, faults,
                 lost, noted>>

Opening(s) == callback.pc # "idle" /\ callback.to = s

\* /new --resume: bound already, bound now to the topic that it has, or asked for again.
Resume(s) ==
  /\ Up /\ mem.local[s] # "unknown" /\ creation[s].pc = "none"
  /\ \/ /\ TopicOf(s) # NoTopic
        /\ mem' = [mem EXCEPT !.unbound[s] = NoTopic]
        /\ lost' = lost \cup ({mem.unbound[s]} \ {NoTopic, TopicOf(s)})
        /\ UNCHANGED <<route, disk, creation, raced>>
     \/ /\ Rebinds(s)
        /\ Binds(mem.unbound[s], s, mem.key, [mem EXCEPT !.unbound[s] = NoTopic])
        /\ raced' = IF Opening(s) THEN raced \cup {s} ELSE raced
        /\ UNCHANGED <<creation, lost>>
     \/ /\ TopicOf(s) = NoTopic /\ mem.unbound[s] = NoTopic
        /\ creation' = [creation EXCEPT ![s] = Asked(s)]
        /\ raced' = IF Opening(s) THEN raced \cup {s} ELSE raced
        /\ UNCHANGED <<route, mem, disk, lost>>
  /\ UNCHANGED <<tg, madeFor, made, source, callback, archive, cleanup, faults, torn>>

NewMakes(s) ==
  /\ creation[s].pc = "asked" /\ Makes(s)
  /\ creation' = [creation EXCEPT ![s].pc = "made", ![s].topic = made + 1]
  /\ UNCHANGED <<route, mem, disk, source, callback, archive, cleanup, faults, lost, noted>>

NewBinds(s) ==
  /\ creation[s].pc = "made"
  /\ Binds(creation[s].topic, s, creation[s].key, mem)
  /\ creation' = [creation EXCEPT ![s] = None]
  /\ UNCHANGED <<tg, madeFor, made, source, callback, archive, cleanup, faults, lost, noted>>

\* No topic, no answer about it, or no row for it: the last keeps it for --resume.
NewFails(s) ==
  /\ creation[s].pc # "none" /\ Fault
  /\ creation' = [creation EXCEPT ![s] = None]
  /\ \/ /\ lost' = lost \cup ({creation[s].topic} \ {NoTopic}) /\ UNCHANGED <<mem, disk>>
     \/ /\ creation[s].pc = "made"
        /\ mem' = [mem EXCEPT !.unbound[s] = creation[s].topic] /\ disk' = mem'
        /\ UNCHANGED lost
  /\ UNCHANGED <<tg, madeFor, made, route, source, callback, archive, cleanup, noted>>

-----------------------------------------------------------------------------
(* Buttons: a session's, the workspace's and the provider's.  One press is *)
(* handled at a time, beside the commands.                                 *)

\* A bug: it does not look for one.
PressesAnew(x) == callback' = [pc |-> "asked", to |-> x, topic |-> NoTopic]

\* The topic there is gets a message, or a new one is asked for.
Presses(x) ==
  callback' = IF TopicOf(x) # NoTopic
              THEN [pc |-> "probe", to |-> x, topic |-> TopicOf(x)]
              ELSE [pc |-> "asked", to |-> x, topic |-> NoTopic]

OpenThread(s) ==
  /\ Up /\ callback.pc = "idle" /\ mem.local[s] = "active"
  /\ Presses(s)
  /\ raced' = IF creation[s].pc # "none" THEN raced \cup {s} ELSE raced
  /\ UNCHANGED <<tg, madeFor, made, route, mem, disk, source, creation, archive, cleanup,
                 faults, lost, torn>>

\* cli_create, cli_recreate: a new one in any case.
OpenAgent ==
  /\ Up /\ callback.pc = "idle"
  /\ callback' = [pc |-> "asked", to |-> Agent, topic |-> NoTopic]
  /\ UNCHANGED <<tg, madeFor, made, route, mem, disk, source, creation, archive, cleanup,
                 faults, lost, noted>>

\* post_init looks for the provider's topic as a press does.
LooksForAgent ==
  /\ Agent \in cleanup /\ callback.pc = "idle"
  /\ Presses(Agent)
  /\ UNCHANGED <<tg, madeFor, made, route, mem, disk, source, creation, archive, cleanup,
                 faults, lost, noted>>

\* ws_open: a workspace that has its topic under a legacy key is moved first, its
\* own row with it.
OpenWorkspace ==
  /\ Up /\ callback.pc = "idle"
  /\ Presses(Workspace)
  /\ IF TopicOf(Workspace) # NoTopic /\ mem.key # CanonicalKey
     THEN Binds(TopicOf(Workspace), Workspace, CanonicalKey, [mem EXCEPT !.key = CanonicalKey])
     ELSE UNCHANGED <<route, mem, disk>>
  /\ UNCHANGED <<tg, madeFor, made, source, creation, archive, cleanup, faults, lost, noted>>

Ends == callback' = Idle /\ cleanup' = cleanup \ {callback.to}

ProbeFound ==
  /\ callback.pc = "probe" /\ tg[callback.topic] # "deleted"
  /\ Ends
  /\ UNCHANGED <<tg, madeFor, made, route, mem, disk, source, creation, archive, faults,
                 lost, noted>>

\* The topic is gone: its row is closed, and for a session the workspace's topic
\* is told; if that is gone as well the press ends there.
ProbeMissing ==
  /\ callback.pc = "probe" /\ tg[callback.topic] = "deleted"
  /\ route' = Invalidated(route, callback.topic)
  /\ LET x == callback.to
         w == TopicOf(Workspace)
     IN IF x \in Sessions /\ w # NoTopic /\ tg[w] = "deleted"
        THEN Ends /\ UNCHANGED <<mem, disk>>
        ELSE /\ callback' = [callback EXCEPT !.pc = "asked", !.topic = NoTopic]
             /\ mem' = IF x \in Sessions THEN [mem EXCEPT !.topic[x] = NoTopic] ELSE mem
             /\ disk' = IF x \in Sessions THEN mem' ELSE disk
             /\ UNCHANGED cleanup
  /\ UNCHANGED <<tg, madeFor, made, source, creation, archive, faults, lost, noted>>

PressMakes ==
  /\ callback.pc = "asked" /\ Makes(callback.to)
  /\ callback' = [callback EXCEPT !.pc = "made", !.topic = made + 1]
  /\ UNCHANGED <<route, mem, disk, source, creation, archive, cleanup, faults, lost, noted>>

PressBinds ==
  /\ callback.pc = "made"
  /\ Binds(callback.topic, callback.to, KeyFor(callback.to),
           IF callback.to = Workspace THEN [mem EXCEPT !.key = CanonicalKey] ELSE mem)
  /\ Ends
  /\ UNCHANGED <<tg, madeFor, made, source, creation, archive, faults, lost, noted>>

PressFails ==
  /\ callback.pc \in {"asked", "made"} /\ Fault
  /\ Ends
  /\ lost' = lost \cup ({callback.topic} \ {NoTopic})
  /\ UNCHANGED <<tg, madeFor, made, route, mem, disk, source, creation, archive, noted>>

-----------------------------------------------------------------------------
(* Archiving.                                                              *)

\* /archive, or the desktop's: the provider is asked first.
Archive(s, who) ==
  /\ mem.local[s] # "unknown" /\ archive[s].pc = "none" /\ Up
  /\ archive' = [archive EXCEPT ![s].pc = who]
  /\ UNCHANGED <<tg, madeFor, made, route, mem, disk, source, callback, creation, cleanup,
                 faults, lost, noted>>

SourceArchives(s) ==
  /\ archive[s].pc \in {"source", "desktop"} /\ s \notin source
  /\ source' = source \cup {s}
  /\ UNCHANGED <<tg, madeFor, made, route, mem, disk, callback, creation, archive, cleanup,
                 faults, lost, noted>>

\* commit_session_archive; /archive goes on to the topic the session has by now.
Commit(s) ==
  /\ archive[s].pc \in {"source", "desktop"} /\ s \in source
  /\ mem' = [mem EXCEPT !.local[s] = "archived"] /\ disk' = mem'
  /\ IF archive[s].pc = "source" /\ TopicOf(s) # NoTopic
     THEN /\ route' = Archived(route, TopicOf(s))
          /\ archive' = [archive EXCEPT ![s] = [pc |-> "topic", topic |-> TopicOf(s)]]
     ELSE archive' = [archive EXCEPT ![s] = Done] /\ UNCHANGED route
  /\ UNCHANGED <<tg, madeFor, made, source, callback, creation, cleanup, faults, lost, noted>>

\* Startup saves when it is through.
Leaves(s) ==
  /\ archive' = [archive EXCEPT ![s] = Done] /\ cleanup' = cleanup \ {s}
  /\ disk' = IF cleanup' = {} THEN mem' ELSE disk

TopicGoes(s) ==
  /\ archive[s].pc = "topic" /\ tg[archive[s].topic] # "deleted"
  /\ \E way \in Ways :
       /\ tg' = [tg EXCEPT ![archive[s].topic] = way]
       /\ mem' = IF way = "deleted" THEN [mem EXCEPT !.topic[s] = NoTopic] ELSE mem
  /\ route' = Archived(route, archive[s].topic)
  /\ Leaves(s)
  /\ UNCHANGED <<madeFor, made, source, callback, creation, faults, lost, noted>>

\* Telegram refuses; the topic stays as it is.
TopicStays(s) ==
  /\ archive[s].pc = "topic"
  /\ IF tg[archive[s].topic] = "deleted" THEN UNCHANGED faults ELSE Fault
  /\ lost' = lost \cup {archive[s].topic}
  /\ UNCHANGED mem /\ Leaves(s)
  /\ UNCHANGED <<tg, madeFor, made, route, source, callback, creation, noted>>

-----------------------------------------------------------------------------
(* The group.                                                              *)

UserDeletes(t) ==
  /\ tg[t] = "open" /\ Fault /\ tg' = [tg EXCEPT ![t] = "deleted"]
  /\ UNCHANGED <<madeFor, made, route, mem, disk, source, callback, creation, archive,
                 cleanup, lost, noted>>

\* A message in a topic that has no row yet.
Observes(t) ==
  /\ Up /\ tg[t] = "open" /\ route[t].status = "none"
  /\ route' = [route EXCEPT ![t] = [NoRow EXCEPT !.status = "unknown"]]
  /\ UNCHANGED <<tg, madeFor, made, mem, disk, source, callback, creation, archive,
                 cleanup, faults, lost, noted>>

SessionStep(s) ==
  \/ Looks(s) \/ New(s) \/ Resume(s) \/ NewMakes(s) \/ NewBinds(s) \/ NewFails(s)
  \/ OpenThread(s) \/ Archive(s, "source") \/ Archive(s, "desktop") \/ SourceArchives(s)
  \/ Commit(s) \/ TopicGoes(s) \/ TopicStays(s)

Next ==
  \/ Crash \/ DiesBinding \/ OpenWorkspace \/ OpenAgent \/ LooksForAgent
  \/ ProbeFound \/ ProbeMissing \/ PressMakes \/ PressBinds \/ PressFails
  \/ \E s \in Sessions : SessionStep(s)
  \/ \E t \in Topics : UserDeletes(t) \/ Observes(t)

Spec == Init /\ [][Next]_vars

-----------------------------------------------------------------------------
(* Properties.                                                             *)

\* A session whose topic is under a key its workspace no longer has.
Stranded(s) == mem.key # LegacyKey /\ Active(route, s, LegacyKey) # {}

\* However /new, presses, cleanup and restarts interleave, a target has one
\* active topic at most (_close_existing_active_target_routes).
OneActive == \A x \in Targets, k \in {LegacyKey, CanonicalKey} :
               Cardinality(Active(route, x, k)) <= 1

\* And there is one open topic of a session in the group at most, but for those
\* nobody was told of and one that is being archived, and unless it was opened while /new was making one
\* (_creating_topics knows nothing of that) or its workspace got another key.
OneTopic == \A s \in Sessions :
  \/ s \in raced \/ Stranded(s)
  \/ Cardinality({t \in Topics : madeFor[t] = s /\ tg[t] = "open"}
                 \ (lost \cup {mem.unbound[s], archive[s].topic})) <= 1

\* The topic state.json remembers for a session is the one that is its own.
Kept == \A s \in Sessions :
  LET t == mem.topic[s] IN
  t # NoTopic /\ tg[t] = "open" /\ mem.local[s] # "archived" =>
    TopicOf(s) = t \/ s \in raced \/ Stranded(s)

\* A session has one open topic, and it is the one its messages go to.
TopicsKept == OneTopic /\ Kept

\* A workspace that gets its canonical key keeps its sessions' topics
\* (_open_workspace: "keep the existing topic_id mapping").
KeptTopics == \A s \in Sessions :
  LET t == mem.topic[s] IN
  t # NoTopic /\ tg[t] = "open" /\ mem.local[s] # "archived" => TopicOf(s) = t \/ s \in raced

\* What was archived or found gone never becomes a session's topic again: not
\* by a restart that reads of it in state.json, nor under another key; but for
\* one that --resume had bound before the process died, which state.json still
\* calls unbound.
NeverRevived == [][\A t \in Topics \ torn :
  route[t].status \in {"archived", "invalid"} => route'[t].status # "active"]_vars

\* Without that exception it does not hold: killed between row and save --resume
\* leaves the topic as unbound in state.json, and binds it again when it was
\* archived, or deleted by a user, in the meantime.
NothingRevived == [][\A t \in Topics :
  route[t].status \in {"archived", "invalid"} => route'[t].status # "active"]_vars
=============================================================================
