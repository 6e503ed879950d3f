# OnlineWorker: a verification project

OnlineWorker runs coding agents ("providers": codex, claude) for one user, who talks to them from a
macOS desktop app and from Telegram. This directory holds TLA+ models of the parts in which an
interleaving, a crash or a lost answer can do harm, the TLC runs that check them on small instances,
and TLAPS proofs for every value of the constants. `PROJECT.json` lists components, runs, mutants,
hazards, findings and theorems, and maps every definition to the lines it models.

## 1. The system

The **sidecar** (`src/main.py`) is one Python process with one asyncio loop: between two `await`s a
handler runs alone, and everything below depends on what may happen at an `await`. Durable state is one
file that is always saved whole (`src/core/storage.py`), beside a SQLite store of topic routes.
Providers are separate processes. The **host** (`src/mac-app/src-tauri`) starts and restarts the
sidecar, installs updates and forwards the front end's requests to the **owner bridge**
(`src/core/provider_owner_bridge.py`, below: bridge) over a Unix socket.

| Component | State it keeps | Operations | Talks to | What makes it correct |
|---|---|---|---|---|
| Storage (`core/storage.py`, `core/atomic_file.py`) | the whole storage, on disk | load, save by replace + fsync | everyone saves everything | a save that raises left the old content or the new |
| Ordinary send (bridge, `user_messages/recovery.py`, codex `runtime.py`, `adapter.py`) | `thread.send_recovery`, receipt callbacks | submit, prepare, execute, steer/start/resume/retry/queue, receipt, recheck | provider by JSON-RPC and `codex queue` | a request is taken at most once; the record never lies about it, also after a crash |
| New session (`provider_session_new.py`, bridge, Telegram `/new`) | `pending_new_session`, `new_session_recovery`, a lock | create thread, bind topic, first message, resume | provider, Telegram | one thread per request; the input is never lost |
| Message bus (`core/messages`), run ledger (`core/state.py`, `bot/events.py`) | event window, dedupe keys, activity; runs by turn, current run | publish, veto, project | every part publishes on it | a finished turn is shown finished; nothing old comes back |
| Codex external ingress (codex `adapter.py`, `external_ingress.py`, `hook_bridge.py`) | claims per turn and kind, rollout cursors, fallbacks | hook, notify, rollout row, notification, idle hand-off | the bus | each turn told once, whoever tells it, whatever is lost |
| Approvals and questions (bridge, `interaction_runtime.py`, both adapters, `bot/`) | pending requests, futures, buttons, replies in flight | request, answer, resolve, interrupt | provider, both UIs | what shows as waiting waits; no button outlives its request |
| Claude (`claude/python/adapter.py`) | a process per send, a lock per session, hook sessions | send, cancel, terminal hooks | claude CLI, the bus | a turn is told under its own name; every send returns |
| Telegram delivery (`bot/events.py`) | event queue, streaming turns, run flags, a throttle loop | start, delta, final, end, notify | Telegram, the bus | the answer stands in the topic, whole and once; one notification |
| Topics and IM routes (`bot/handlers/workspace.py`, `core/im_routes.py`, `core/lifecycle.py`) | routes in SQLite, topic ids in `state.json` | `/new`, buttons, `/archive`, startup | Telegram, provider | one open topic per session; an archived one never comes back |
| Remote proxy (codex `remote_proxy.py`) | races, decisions, cards, list calls | relay, mirror an approval, filter lists | CLI, app-server, Telegram | the first to decide decides |
| Codex connection (codex `runtime.py`, `adapter.py`, `app_server_*`) | adapter, process, reconnect task, monitor | connect, lose, reconnect, restart when idle | app-server | one connection, seen to until it works |
| Broken streams (codex `runtime.py` 1435-1640) | half-shown answers, recoveries | hand over, look, put | rollout, Telegram | a half-shown answer is completed by its own turn's |
| Accounts, session assets (codex `account_feature.py`, `account_store.py`, `oauth.py`, `session_assets.py`, `session_package.py`) | sealed files with an index; trash packages with manifests | import, sign in, renew, apply; trash, restore, import, repair | codex's home, which codex writes too | no login and no session is lost; a failed action did nothing, a repair nothing but the databases it was done with |
| Terminal host (codex `tui_host_runtime.py`, `tui_bridge.py`) | hosts, one socket, one status file | bind, start, look, connect, type | codex in a terminal | a message is typed into its own thread |
| Rollout mirror (codex `tui_realtime_mirror.py`) | offset into the rollout, last row told | poll, seed, resume | the bus | each row is told once |
| Session lists and streams (bridge 860-1010, 1156-1337) | a shared load and its cache; a queue per subscriber | list; snapshot, change, disconnect on overflow | front end | a list shows what was there; a subscriber ends with what the bus holds |
| Hook installation (codex `hook_bridge.py`, claude settings) | entries in files of codex, claude and the user; trust record | install, uninstall, verify | their files | what the user wrote stays |
| App update (bridge 1636-1665, `state.py`, `app_update.rs`) | a deadline, the app and its copy | prepare, admit, install, put back | all of the above | no admitted work is cut off; an app that runs remains |
| Archive, bridge life cycle, session control | `thread.archived`; tasks | archive, repair; start; interrupt | sends, recovery, topics | partly modelled, within the parts above |
| Notifications, AI layer, usage, message gateway, React front end | own tables and views | | | not modelled, see section 7 |

What is hard: handlers interleave at every `await`; a provider call may take effect after its caller
gave up (30 s timeouts) or died; the same fact arrives from several sources in any order, or not at
all; a save may fail, before or after the new file is in place; the process may die between any two
steps and comes back with what is on disk; files are shared with codex, claude and the user, who know
no lock of ours.

## 2. Modules

An action is what one task does between two awaits, or one write of a file, or one step of a foreign
process. Variables of a module that are not in the program (they record what happened, for the
properties) are said to be so where they are declared.

### SendRecovery, HonestDelivery — an ordinary desktop send

One recovery record per session: request id, status, receipt. The state machine of a request is the
variable `pc`: `preparing` (the handler awaits `ensure_connected`/`prepare_send`), `queued`
(`execute_send` scheduled), then the fallback ladder of codex's `send_message` (`steer`, `start`,
`resume`, `retry`, `queue`). `Issue`/`Accept`/`Reject`/`Respond` are the provider's side: a call in
flight (`rpc`) may be taken after `Abandon` (timeout, lost connection) and across a `Crash`. `callback`
is `_delivery_receipts`, by which a late answer still writes the receipt; `EvictCallback` is its limit
of 128. `Saves`/`SaveRaises` is `save_storage` and `Flush` is any other handler's save, which writes
this session's memory too. `Crash` falls back to `disk`; `Start` is `restore_send_recoveries`
(`preparing` to `failed`, `sending` to `unknown`). `accepted`, `issued` and `latest` are not in the
program: they count what the provider took and say what the composer asked for.

`HonestDelivery` is what this promises, without process, file, callback or ladder: a request is handed
over once it is on record, taken at most once, and the session's word about it (pending, unknown, sent,
failed) is never a lie. `KeepsPromise` is the refinement: `out` is what is in flight and not taken,
`taken` what the provider accepted, `said` the record in memory. A restart maps to a revision of
`said`, which HonestDelivery allows only where it stays honest.

Assumed: one composer per session, which repeats only its latest request id and takes a new one once
the request failed (`GenericProviderChat.tsx` 230-234). `Untracked` messages (Telegram) go through the
same ladder without a record.

### NewSession — create a thread, then send its first message

Two actors, the app's task and Telegram's, over one workspace: the creation record
(`pending_new_session`), the lock across `start_thread`, the record of the new thread, the first
message with its receipt, `--resume`, recheck, archive, failed saves, crash and restart. The ladder is
reduced to `turn` and `queue`. Assumed: the same request id carries the same text and attachments
(the code refuses others). A creation of unknown outcome blocks the workspace by design
(`25-FOLLOWUP.md`:112).

### SessionBus, ExternalIngress — what a session shows, told by four sources

`Publish(e)` is `MessageEventBus.publish`: dedupe, the delivery subscriber's veto (`update_local` in
`bot/events.py`, with the run ledger of `core/state.py`), the activity projection. It is synchronous,
so it is one step of whoever calls it. ExternalIngress EXTENDS it. `codex`, `relays` and `wire` are the
world: turns run in the CLI or the app-server, hook and notify processes, notifications. `ready` is
asyncio's ready queue: every await in these tasks is `sleep(0)`, so a task that gives way is resumed in
turn, and `Resume` runs the head to its next await. `Claim`/`Resolve` are the two halves of
`_claim_external_ingress_source` around its await; `Begin` and `Continue` are
`ingest_external_hook_payload`, from one await to the next; `Read`, `Row` and `Fallback` are the rollout
file, its drain task and its grace timers; `Receive` and `Work` are the app-server's receive loop and
event worker; `Release` is the idle hand-off. `Overlap = FALSE` would say that a call is over before
the next relay arrives, which is the usual timing and no guarantee; the run has `TRUE`.

### Interactions — approvals and questions

One session of codex or of claude (`setting`), with or without a topic. The provider opens a request
(`ask`), its event is handled, the activity changes, a Telegram message with buttons is posted by the
ordered consumer (`queue`, `work`), one await at a time. Decisions (`Decide`) and answers (`Answer`) come from
the desktop and from Telegram. A codex reply is a message on the `wire`: the first is taken
(`CodexTakes`), others are ignored; `setting.late` says that its send may be held up (`calls`). A claude
hook waits on a `future`, which the answer resolves and whose loss raises. `Drift` lets the two workers
of a codex connection, and claude's output and hooks, get out of step; the run keeps them in step.

### ClaudeTurns — a process per send, beside a terminal

`send`, `proc` and `result` follow `send_user_message` from the lock (`line`, granted in order) to its
return; `hook` and `terminal` are the hooks of a claude that a person runs in the same session.
`cancelled` is `_cancelled_threads`, the mark that `interrupt` sets before the kill that may fail.

### TelegramTurns — a session's turns in its topic

The publisher's half updates the run and appends to a bounded queue; the consumer (`work`) handles one
event at a time, one Telegram call after another; the throttle loop (`loop`) edits the same message at
its own pace and may be cancelled with an edit under way. A call may fail, a restart of the delivery
drops what was queued. The turns are `1 .. n` in the order they begin, the answer a sequence of words.

Whatever gives a call up ends only its own wait: `Cancel` (`throttle_task.cancel()`, at the start, a
remark, the final answer and the end of a turn), a call that fails, a restart, and `Retries`, the second
attempt of an edit that timed out (`_do_edit`). The request may have been sent. `adrift` keeps each such
call, and `Lands` carries it out at any later step or never; `overtook` (not in the program) are the
edits that landed on an answer.

### Topics — topics, routes, archive

A session, its workspace and the provider, each with a topic. `route` is the SQLite store, `mem` and
`disk` are `state.json` in memory and on disk, `tg` the group itself. `/new`, a button press and
`/archive` are sequences of awaits (`creation`, `callback`, `archive`); startup fills the routes up from
`state.json` and looks at the provider's archive; the workspace's key changes from the legacy to the
canonical form. `Rebinds` is the binding of a session's noted topic, by `--resume` or at the end of
`/new`; `torn` (not in the program) are the topics it bound and could not save as bound, because the
process died between the row and `state.json`.

### RemoteProxy — a CLI that works through OnlineWorker

`down` and `outbound` are the two relays of one connection; `mirror` is the task of an approval, which
posts a card, waits for `event` or the deadline and replies; `race` and `answered` are
`pending_approval_races`. `cwds`/`list` is the filter of thread lists, keyed by JSON-RPC id.

### CodexConnection — connecting, losing, letting go

Every connection is an adapter of its own (`adapter[a]`), `installed` is `state.adapter`. `task` is the
first connection and the reconnect loops, `monitor` the health check, `idle` an adapter's release of an
idle server: SIGHUP, start, connect, while calls are held back.

### Nine parts in one run (MCDesktop)

These share no state with each other or with the modules above. `MCDesktop` puts them into one run: the
variable `part` picks one part at the start and only its actions happen, so the state spaces add up.

- **SessionAssets**: an action of the account feature is a sequence of writes (move a rollout, write
  the index, write a manifest, commit a database) which may fail, be taken back, or die at each, while
  codex adds sessions and rewrites the index. A repair goes through the state databases that are there
  (`Stores`: `state_5.sqlite` in the home and in its `sqlite` directory), one after the other, each with
  its own transaction, rollouts and commit: `Repair` begins the first, `RepairCommit` commits one and
  begins the next, and `Unrepair` takes back the open one's rollouts, no earlier one's.
- **Accounts**: index and detail files with their rollback; actions hold `operation_lock` over files
  and not over requests, so that two cross there; the sign-in with its state, cancellation and expiry;
  `apply` to codex's `auth.json`, which codex renews itself.
- **RolloutMirror**: `stat`, read and apply of a poll are three steps, codex appends between them, also
  by half a row; the app-server tells the same answers over a shared transport.
- **TerminalHost**: sends to two threads bind and rebind one host of ours; hosts started by hand take
  over the same socket path and status file.
- **SessionList**: rollouts and database rows are read one after the other, one load is shared, its
  result kept.
- **SessionStreams**: subscription, snapshot, bounded queue, writer, reader; a conversation reads its
  history first.
- **HookInstall**: read, merge, write to a fixed temporary name, replace, beside the user's edits and
  another data directory's owner; the trust record and what makes it `verified`.
- **AppUpdate**: the check, the admission gate and its deadline, the host's steps (prepare, copy,
  prepare again, stop, install, put back), each of which may fail or be the host's last.
- **StreamRecovery**: the half-shown answers of a broken connection, looked for by the next
  connection's setup and then by a task.

### Proof modules

`SendRecoveryProofs`, `NewSessionProofs`, `ExternalIngressProofs`, `ClaudeTurnsProofs`,
`TelegramTurnsProofs` and `TopicsProofs` extend the module of that name, `DesktopProofs` extends
`MCDesktop`, and `ProviderProofs` extends `Interactions` and `MCCodexLink`, the module that instances
RemoteProxy (`Proxy!`) and CodexConnection (`Codex!`) side by side. Each holds the theorems of its
components with all their lemmas; see section 5.

## 3. Runs

| Run | Instance | Properties |
|---|---|---|
| `send_core` | 1 session, 2 requests, 2 crashes, fairness | types; `FailedMeansUndelivered`, `SentMeansDelivered`, `OneAtATime`, `DeliveredIsRemembered`; `Settles`; `KeepsPromise`, the refinement of HonestDelivery |
| `send_mixed` | 1 request, 1 untracked message, archive repairs, 1 crash | `AtMostOnce` with other senders about |
| `new_resume` | 1 app request that Telegram may resume, 3 crashes | `OneThread`, `InputKept`, `FirstMessageOnce`, `RecordHonest` |
| `new_live` | an app and a Telegram request at once, fairness | `TasksEnd` |
| `ing_sources` | 1 turn with a comment, CLI and app-server, overlap, 1 lost relay | `OneSequence`, `EndTold`, `LedgerOver` |
| `ask` | 2 approvals, a question of 2 parts; codex and claude | `AttentionTrueUnlessLate`, `NothingLeft` |
| `claude_turns` | 2 sends, 2 terminal prompts, 1 tool, 3 turns in all, fairness | `CancelMeant`, `TerminalToldApart`, `SendsEnd` |
| `tg_turns` | 2 overlapping turns, queue of 3, 1 remark, 1 fault or second attempt; late calls at any step | `NotifiedOnce`, `AnswerShown`, `EndAnnounced` |
| `proxy_race` | 2 approvals, 1 list call, fairness | `FirstDecides`, `DecisionEnds` |
| `conn_life` | 2 calls, 3 adapters, 2 faults, fairness | `ConnectionKept`, `CallsEnd` |
| `topics` | 1 session, workspace, provider, 3 topics, 3 faults | `TopicsKept`, `NeverRevived` |
| `desktop` | the nine parts, bounds in `Desktop_parts.cfg` | `AssetsKept`, `LoginsRight`, `RowsTold`, `RightTerminal`, `AsksSee`, `Converges`, `HooksKept`, `NothingCut`, `UpdateSafe`, `OwnAnswer` |

`proxy_race` and `conn_life` are two specifications of one module, `MCCodexLink`: the two ways to the
app-server share no state, one moves and the other stays as it is at first.

Some names join two statements: `RecordHonest` is `FailedMeansUndelivered` and `SentMeansDelivered`;
`ConnectionKept` is `TendedUnlessSkipped` and `OneConnection`; `TopicsKept` is `OneTopic` and `Kept`;
`AssetsKept` is `NeverLost` and the action property `AllOrNothing`; `LoginsRight` is `LoginKept` and
`CancelledStaysOut`; `HooksKept` is `UsersKept` and `TrustEarned`; `UpdateSafe` is `RestAdmits` and
`AppThere`. Each is broken by a mutant of the code's definitions, listed in PROJECT.json.

**Deadlock.** Every cfg turns the check off: all requests may be done, all turns over, and the program
then waits for its user; a bound that is used up ends a behaviour too.

**Why the bounds are enough.** Sessions of SendRecovery share nothing but the file that `Flush` saves
whole, so one session with an adversarial `Flush` sees what more sessions would cause. Two requests are
the least with which "the next request while the first is open" happens; two crashes the least with
which a restart can die before its own saves. The theorems lift these bounds. In NewSession two requests
contend for the lock and the creation record; a request's thread is its own, so `new_resume` needs one.
In ExternalIngress one turn already has seven tellers of its start and end; with two turns the
properties fail as section 4 says, so nothing is claimed there. In Interactions one request is open at a
time and the next comes while answers to the first are under way; two is what a stale answer needs. In
ClaudeTurns two sends and two prompts are the least with which somebody waits behind a waiter. Two turns
of TelegramTurns are the current one and the one before it, which is all `bot/events.py` keeps apart; a
queue of 3 overflows with them, and one fault or second attempt meets every await; what a cancellation
gives up is not bounded. A connection of CodexConnection can meet only the one before it and the
one after it, hence 3 adapters; its second fault hits the repair of the first. Three topics let a
session's be replaced twice. In MCDesktop two of each (sessions, identities, threads, owners) contend
for what they share; session assets have two databases, either, both or none there, and one fault, which
a taking back can meet because a package or a rollout that is not as it should be fails an import or a
repair without counting as one; a queue of 2 overflows with 4 changes; three turns let another end twice between
the break and the look.

**Fairness.** `WF(Start)`: the host restarts a dead sidecar. Weak fairness of a task's own step: the
loop runs every ready callback; of `Abandon`, `CreateFails`, `TopicDone` and of CodexConnection's
`CallStep`: every wait has a timeout. `SF(Reuse \/ Create)`: `asyncio.Lock` is FIFO, so a waiter gets
its turn although the lock is taken again and again. ClaudeTurns: a hook is handled, a permission that
is asked for is decided, and `SF(Exits)`: a claude process
does not ask for permissions forever. RemoteProxy: the relay goes on and tasks run; nobody has to press
or answer. CodexConnection: a turn ends, and a server told to leave does once its turn is over. Nothing
is assumed of the provider in sends and creations: no fairness of `Accept`, `Respond` or `Spawn`. Where
a property asks for rest (`AtRest`, `Quiet`) it is an invariant: it says what the state is when nothing
is under way, and no fairness is needed.

## 4. What TLC showed beside the runs

These formulas do not hold of the code as it is; the runs check the weaker statement that does. A name
in code type is an operator of the module (or of its MC module) that TLC refutes, with the instance of
the run unless another is named; the rest was read in the code beside it.

Sends and new sessions:
- `FailedMeansUndelivered` with an untracked source: `send_message` takes the request id of whichever
  record is `sending` (`runtime.py`:1217), so a Telegram message sent meanwhile writes its own answer
  into the desktop request's receipt, and a recheck then says `failed` of a request that was taken. Also
  with `Repairs = TRUE`: the receipt reset is skipped for a session archived during its send.
- NewSession's `FailedMeansUndelivered` with `Steers = TRUE`: the steer retry (`runtime.py`:1238) does
  not reset the receipt of the refused first attempt. `CreationRecordCurrent` after a failed save:
  `pending_new_session` stays `preparing` with nothing behind it until a restart.

External ingress:
- `NeverBack` with 2 turns: a late start of an older turn takes over session and ledger, and the newer
  turn's answer is vetoed (`bot/events.py`:2344); `LedgerOver` with 2 turns of the CLI fails by the same.
  `ShownOver` with 2 turns and a comment.
- `EndTold` with 2 turns and 1 lost relay: with the prompt hook lost, Stop cancels the rollout's start
  and tells of none (`external_ingress.py`:254). With one turn and two relays lost under overlap: arming
  the watch moves the cursor past rows already there (:340).
- `EndedStaysEnded` with 1 turn and a comment: the comment checks that its turn is open before its await
  and not after (`adapter.py`:972).
- `PromptTold` with 2 turns: the prompt of a later turn is published before its start and vetoed
  (:938). `QuietIsFree` the same way: `deliveryStatus` stays `submitted`, an update is refused.

Interactions:
- `AttentionTrueUnlessLate` with `AtOnce = 2`: the activity has room for one request, and the answer to
  it shows the session as running while the other waits.
- `AttentionTrue` when a decision comes late (projection `approval.answered` compares no request id,
  `projections.py`:464), by a stale Telegram press, by a late Telegram send of claude's that publishes
  the request again, and with `Drift = TRUE`. `AlwaysMeant`: an `always` that comes too late for its
  request still permits the tool to the session. JSON-RPC id 0 (`FromZero`) is taken for no id. A reply
  that was taken but whose call fails is offered again (`interaction_runtime.py`:42), ids begin anew
  after an idle restart (`publishing.py`:267), and a killed hook leaves its future behind.

Claude and Telegram:
- `TerminalTold` where terminal and adapter work at once (`overlap`): a session stays shown as running,
  or an answer is told under no turn (`.planning/STATE.md`:49 and :214 report that the card is cleared).
- `TerminalToldApart` with `Quiet = 3`: the terminal's next turn writes its answer into the transcript
  before the Stop hook of the one before has had its turn at the lock; the hook reads the newer answer,
  and the older one is never told. `Quiet` bounds the hooks left to be handled when the terminal goes
  on; the run and the theorem have 2.
- `AnswerShown` with `Streamed = FALSE`: an answer that came without any text before it stands in the
  turn's placeholder, and `placeholder_deleted` is not set; a next turn that starts before this one's end
  is handled takes the message for an empty placeholder and deletes it (`bot/events.py`:1387).
- `AnswerShown` without its exception (`Holds(m)` as `topic[m] = Answer`): the throttle loop is cancelled
  while its edit is on the way (`bot/events.py`:1382, :1876, :2055), or `_do_edit` tries an edit again
  that timed out (:1265), and Telegram carries the request out after the final edit. A part of the
  answer, or the remark before it, then stands in the answer's place; the turn is marked as shown and
  nobody corrects it (`README.md`:9 promises the final reply). No call has failed and no event is lost.
- `SyncedMeansShown`: a stream that ends counts as shown though the loop's last edit stands at a part of
  it, when the final answer's event was refused by the full queue or taken by a restart of the delivery
  (`README.md`:9 promises the final reply in Telegram).
- Topics: `KeptTopics` (a workspace that gets its canonical key strands its sessions' topics,
  `workspace.py`:574 and :1111, against the comment at :1126), and a second topic where a button is
  pressed while `/new` makes one (`raced`). `NothingRevived`: killed between the topic's row and the save
  (`thread.py`:638-649), `--resume` leaves it in `state.json` as still to be bound, and binds it again
  although it was archived or deleted meanwhile.

Proxy and connection:
- `ListScoped` with `Id <- SameId`: a list call and an approval with one id. `SaidIsDone`: a press
  marks the card as decided, and the CLI may have been first. The resolution of an approval with id 0 is
  not recognised.
- `Tended`: a connection lost in its own reconnect's setup meets the flag of the loop that is about to
  end (`runtime.py`:2133), and nobody reconnects. `OneConnection` after a failed setup (`spoilt`): the
  reader of the half-made connection stays.

The nine parts:
- SessionAssets: a failed write during the taking back loses what it was about (`scarred`); an index is
  written back from an earlier copy (`session_assets.py`:221, :333) and a repair replaces a rollout that
  codex appended to (:407); a failing import deletes a rollout codex has opened
  (`session_package.py`:143). A restore that is cut (:301) leaves a session in both places.
  A repair that fails at the second state database answers `repair_failed` while the rows and rollouts
  of the first stay changed (`session_assets.py`:371-421); the plan asks for "backup -> mutate ->
  rollback on error" (`.planning/phases/23-plugin-owned-codex-account-and-session-asset-management/23-RESEARCH.md`:197).
  `AllOrNothing` says what stays.
- Accounts: `apply` over a login codex renewed (`apply.py`:110), a rollback that is cut
  (`account_store.py`:240).
- RolloutMirror: an answer equal to the last one is never told (`tui_realtime_mirror.py`:767); a turn may
  be called over by idleness (:512); a seed goes past rows (:102).
- TerminalHost: `stop()` of one host removes the socket of one started by hand
  (`tui_host_runtime.py`:235-256), whose child may be a zombie (:391). Both make sends fail, not go astray.
- SessionList: an older load overwrites a newer cache (bridge 986), and a database read that fails yields
  a list of rollouts alone (`storage_runtime.py`:1039).
- SessionStreams: a change under another workspace path is not put (bridge 1299).
- HookInstall: an edit between read and replacement is lost (`raced`); with two data directories the
  second's notify wins and runs the first's bridge; any definition is marked verified
  (`hook_bridge.py`:349).
- AppUpdate: a message whose turn has not shown (`unheard`) and work by the codex socket (`past`) are cut.
- StreamRecovery: a stream that never learned its turn's id, and answers that begin alike, get another
  turn's text; with a task running, a later half gets no recovery (`runtime.py`:1592); a restart
  forgets all streams.

## 5. Proofs

A theorem holds for all values of the constants that the module's assumption allows: any sets of
sessions, messages and turns, any number of crashes, faults and losses, any queue limit. The bounds of a
run that sit in the guards (`MaxCrashes` and the like) are constants as well. Each inductive invariant
was first checked by TLC on the instance of its run (the number of states is given), or on a larger one.

**SendRecovery** (`SendRecoveryProofs`).

- `TypeCorrect`: `Spec => []TypeOK`.
- `DeliveryInvariant`, `NeverTwice`. `AtMostOnce` is not inductive: that the provider has not taken
  `r` twice says nothing of a call still to be made. `Delivery` adds what keeps a second call away: a
  call about to be made, or refused, left the provider without the message (`CallsConsistent`); a
  running request owns its session's record, and during a provider call that record says `sending` on
  disk too (`RecordOwned`); an id not yet used is unknown everywhere (`IdsFresh`); the composer's
  latest request, once handed over, is the one on record (`LatestRemembered`), which is what refuses
  its repetition. Other senders and archive repairs are allowed.
- `TruthInvariant`, and from it `FailedIsTrue`, `SentIsTrue`, `NeverTwoAtOnce`, `WrittenAhead` and
  `NotForgotten`, under `Untracked = {}` and `Repairs = FALSE`: the two exclude the two cases of section
  4. `Truth` says what a record may claim, in memory and on disk (`RecordsSound`); that a message in
  flight is on record as undecided (`FlightRecorded`); that no stale outcome is on record when a call is
  about to be made (`ReceiptReset`); that a receipt callback waits for the answer to its own request
  (`CallbacksOwn`); and that an archived session is archived on disk.
- `PromiseKept`: the refinement of HonestDelivery, under the same two assumptions. Every step is a
  `HandOver` (the first provider call of a request), a `Take` (`Accept`), or a `Say`. That a word about
  another request replaces only a settled one needs, beside Truth, that what is undecided in memory is
  on disk (`UnresolvedDurable`): else a crash would bring back an older request's word. `Say` speaks for
  all sessions, since one crash revises the words of all of them; with one session, as in `send_core`,
  a `Say` of a single session passes TLC and would be no theorem.

The proof that a step preserves Delivery and Truth has a lemma per group of actions (`SubmitDelivery`,
`TaskDelivery`, `CallDelivery`, `LadderDelivery`, `OthersDelivery`, `RestartDelivery`; the same for
Truth), over a few facts about saves, checkpoints and receipts.

**NewSession** (`NewSessionProofs`; 16,493 to 718,810 states in five instances). `NewInv` says that
memory and disk hold storages a restart may find (`Stored`): no record lies about its request, and each
request of the desktop that is asked for is in the creation record or bound; that no two tasks work on
one thread (`OneSender`); how each request stands (`RequestRight`): one that is being created has no
thread yet, a receipt that is waited for has its thread bound; and what is so at each await of a task
(`TaskRight`): behind the lock an unbound request has not been asked for, during a call its record says
`sending` in memory and on disk. `OneThread` needs all of it, since what refuses the second
`start_thread` is a record in memory, which after a restart is the one on disk, saved or not. From it
`ThreadIsOne`, `InputIsKept`, `SenderIsOne`, and with `Steers = FALSE` (no other client holds an active
turn, section 4) `FirstMessageIsOnce` and `RecordIsHonest`. The first three do not assume it.

**ExternalIngress** (`ExternalIngressProofs`; 192,665 states, and 108,690 with two turns and
`Overlap = FALSE`). `IngressInv` says that a call past the await of its claim owns the end it tells of
(`Legit`), that only the event worker speaks for the app-server, and that each event of a turn's end, in
the queue or remembered by the bus, carries the identity of the one that holds the claim (`Honest`).
That a step keeps what is committed (`Kept`) makes the rest last across other tasks' steps, and is
itself `ClaimsKeepOwners`. `EndToldOnce` is `OneSequence` for any number of turns: what fails with two
turns (section 4) is which turn is current and what is lost, not that an end is told twice. A step is a
chain of local continuations (`Begin`, `Claim`, `Announce`, `Close`, ...): each has a lemma that it
satisfies `Moved`, from the leaves up.

**ClaudeTurns** (`ClaudeTurnsProofs`; 808,127 states). `TurnsInv`: who holds the session's lock and who
waits in line (`Locked`); and, unless a send raised, that the mark of an interruption stands for a turn
that holds the lock and was interrupted, and a living process of ours is that turn's (`Marked`). Hence
`CancelIsMeant`, and `OneWorksAtATime`: one process of ours lives in a session at a time, and while no
send raised the session's activity is about its turn.

For `TerminalToldApart` the invariant is `ApartInv` (18,257,160 states with two sends, two prompts,
`Quiet = 2` and four turns). It follows the line at the session's lock: what the hook record will say
when the k-th in line has its turn (`OpenAt`), from the record as it is and the hooks before it. A turn
of the terminal that goes on is open behind the whole line and no message is under way (`Alone`); a tool
hook finds its turn open (`ToolsOpen`); of a turn that does not go on, the end has been handled, or
stands in line behind all its hooks and before any message (`Settles`); what is shown as running is the
open turn's or a message's (`HookShown`); an answer the transcript still holds has an end hook coming
that tells it (`AnswersKept`). `TerminalIsTold` takes any number of sends, prompts, texts and tools, and
`Quiet <= 2`, which is sharp (section 4).

**TelegramTurns** (`TelegramTurnsProofs`; 3,165,649 states). `TurnsInv`: the queue with the event in hand
is in order, by turn and then by kind, and each event in it is one the provider sent (`InOrder`); a call
under way is for the event in hand (`CallRight`); a mark in `notified` has one claim, made by one call
(`ClaimRight`); a report of an end that was not lost is pending or claimed, and a turn that a later one
follows is starting or claimed (`NothingForgotten`); a turn that is over had begun (`OverBegan`).
`NotifiedAtMostOnce` needs the first three, `EndIsAnnounced` all of them: a report is ignored as one of
an older turn only if the start of the newer one has been handled, and that announced the older.

`AnswerShown` relates the queue, the record of the stream, the loop and what each message shows, at
every await of a delivery. `ShownInv` says of each turn that nothing was lost of, while no call failed,
that it is in one of three places (`Stands`): its start is still to be handled and it has no message
(`Ahead`); it streams, with the placeholder or its own message, whichever the record names, and its
answer, if reported, is queued or being written (`Open`); or its answer stands in its message, and
whatever comes leaves that alone but an edit that was given up (`Answered`). The last needs that behind a
final answer only the turn's end comes (`FinalLast`), that a stream that is done gets no more text
(`DoneQuiet`), and that the loop edits only for a stream that is not done (`LoopRight`). `DriftRight`
says what a late call can do: it changes a message's text, to a text, or it is of a turn that something
was lost of (`Lost`); so no late call deletes an answer or puts a placeholder beside it, and one that
changes it is on record in `overtook`. A call of the consumer touches the turn of its event or the one the stream holds: the
message that is open is of the event's own turn (`OpenIsMine`), and an older turn the stream still holds
is answered, in a message a newer start leaves in place (`OthersStand`). `AnswerIsShown` assumes
`TextFirst` (`Streamed`, and an answer that is not empty), which is sharp (section 4): without text
first an answer stands in the placeholder, which a next start deletes. TLC checked `ShownInv` and `DriftRight` on
the run's instance (3,165,649 states), and on three turns without remarks and faults (2,059,574).

**Topics** (`TopicsProofs`; 2,019,397 states). `TopicsInv`: a topic that is made and not bound is in one
hand only, a press's, a `/new`'s or a creation record's in memory or on disk, and has no row
(`HandsRight`); a target has one active row at most under a key (`OneEach`), over all moves of a key and
all restarts. The first is why `ClosedForGood` holds: what is bound was in somebody's hand and so has
never been closed, but for the topics in `torn`. Also `OneTopicActive` and `TopicsTypes`.

`TopicsKept` relates the rows to what is open in Telegram. `KeptInv` adds to TopicsInv: rows, hands and
`state.json` have each topic as the one of whom it was made for (`Whose`); a session's active rows are
under the key its workspace has or had (`KeysKnown`); a session that is not registered has nothing, a
topic to be bound is so on disk, and what is archived is archived on disk (`Known`). And for a session
that no press and `/new` raced for: only one without an active topic is given one (`Busy`), each open
topic is in a hand or active (`Accounted`), and so is the one `state.json` remembers, in memory and on
disk (`NamedLive`). `Busy` is what keeps a second topic away, `Accounted` what makes the first be found.
TLC also walked 11 million states of two sessions, four topics and four faults at random.

**Interactions** (`ProviderProofs`; 872,582 states).

- `NothingIsLeft`, for any number of requests open at once (861,018 states with two): codex's `LeftInv`
  follows a request through the inbox, the queue of the bot's tasks and the one in work: what is still
  open or shows its buttons has codex's word of its end before it in the inbox, or the task that takes
  the buttons back behind it in the queue.
- `AttentionIsTrue`, with one request open at a time (`AtOnce <= 1`, sharp by section 4): codex's
  `ShownInv` says what has been said (`CodexSaid`), told to the bus (`CodexTold`) and taken as an answer
  (`CodexTook`), that a request waits alone (`OneOpen`), and that one which waits is shown or is the last
  word of the inbox (`OpenIsShown`). Claude's `ClaudeInv` joins a hook that waits with the future it
  waits for (`ClaudeHooks`), and says that its request, or the parts of its question told so far, is what
  the activity shows (`ClaudeWaits`).

Both are for any requests, parts and decisions, under `Drift = FALSE` and no request with id 0, the two
cases of section 4; `AttentionIsTrue` also takes it that a question has a part.

**CodexConnection** (`ProviderProofs`; 283,288 states, and 209,794 with one call, four adapters and three
faults). `ConnectionIsKept`, for any number of calls, adapters and faults. `ConnectionInv`: an adapter
that reads no more has told of its end, or is in a restart that will read again (`AdapterRight`); one
loop runs at a time, it sets up the newest adapter, and if that has told of its end meanwhile, the
notice was skipped (`LoopRight`); when no loop runs, the newest adapter is the installed one and has not
told, or was skipped (`FirstRight`). That is why a lost connection is seen to, whatever else failed.
Unless a setup failed (`spoilt`), only the newest adapter has a connection or will have one again, and
none has when a loop is about to make the next (`Alone`), which is `OneConnection`.

**RemoteProxy** (`ProviderProofs`; 208,712 states). `ProxyInv`: a race that is on is nobody's yet
until its task replies, an approval's task that may still reply has no reply before it, and the CLI's own
reply decides the race. `FirstAlwaysDecides` for any number of approvals and list calls at once.

**The parts of MCDesktop** (`DesktopProofs`). One part's step leaves the others alone (`PartSteps`), so
each part has an invariant of its own.

- `StreamsConverge`: the newest of what was sent, what is queued and the snapshot is the session as it
  is, unless a change was not put (`silent`) or the stream is closed; for any limit.
- `TerminalIsRight`: who starts a host holds the lock and no host is current, and a host of ours that
  serves is the current one, so that what is checked before typing still holds while typing.
- `AnswerIsOwn`: each recovery in hand (stream, setup, seeker) knows its turn's id, unless it never
  learned it (`unnamed`).
- `UpdateInvariant`, `UpdateCutsNothing`, `UpdateIsSafe`: what a session shows as work it has
  (`ShowsItsWork`); while the host stops the service, the gate is closed and nothing is under way but
  what went past the gate or was not heard of (`Gated`); at each of its steps the app or its whole copy
  is in place (`CopyThere`).
- `AsksAreSeen` (32,990 states): what was there ever since a request began is there still, and the load
  it waits for has it or has yet to read it; for any number of sessions, requests and loads.
- `HooksAreKept` (183,113 states): the user's notify command is in the file, or the owner whose bridge is
  in the file forwards it, and does so before the file without it is written (`CommandKept`), unless the
  user edited meanwhile (`raced`); what counts as verified was installed and heard of (`Recorded`).
- `RowsAreTold` (682,074 states): what a poll still has to apply was not told and comes in the file's
  order (`Polled`), what was told is behind cursor and poll (`ToldBehind`), and the answer remembered as
  the last one is one that was shown or gone past (`Remembered`), so that an answer skipped as a
  repetition is one; for any number of rows, polls and restarts.
- `LoginsAreRight` (3,488,087 states with two accounts and two tasks): a login an action is about to
  write is good, and nobody else has it (`InHands`). The last login of an account is found without those
  a sign-in still holds (`LastStored`), since a sign-in may be dropped before it writes. That no sign-in
  that is over brings an account in is the action property, from the pending sign-in being none of them.
- `AssetsAreKept` (3,013,443 states with two sessions, one package and two faults): what an action has done so
  far is fixed by what it found (`then`), the sessions it has dealt with (`done`) and those codex wrote
  beside it: so for the home (`HomeKept`, `HomeGrown`), the packages (`TrashPack`, `RestorePack`), the
  index, the rollouts and the rows, where a database a repair was done with is repaired, with the rollouts
its rows name, and any other is as found (`RowsKept`); and each session known is where it was found or where codex wrote it
  (`KnownFound`). So a death between any two writes leaves each session somewhere, and taking back ends
  where the action began, or where the repair of the database did. The one imported rollout that stays is the one whose write failed late.

Only model-checked:
- Liveness (`Settles`, `TasksEnd`, `SendsEnd`, `DecisionEnds`, `CallsEnd`) and ENABLED, which are out of
  this prover's reach. What recursive definitions compute is not proved anywhere; no module with a
  theorem declares one.
- `EndTold` and `LedgerOver`: with two turns they do not hold (section 4), so they are no theorems for
  every value of the constants.

## 6. Plan

1. *Done*: all modules of section 2 with their runs; the refinement of HonestDelivery; an inductive
   invariant for each component and for each of the nine parts.
2. The bridge's orderly stop and the archive's own protocol with the provider, as further actions of
   SendRecovery (its proofs change with them).

## 7. Not modelled

- Whole components: Notifications (a consumer of the bus, no decision goes back), the AI layer
  (stateless calls), Usage (reads and sums), the user message gateway (parsing), the React front end
  (rendering; its request ids are an assumption), build and planning files.
- SendRecovery: the thread remap of other providers' `prepare_send`. NewSession: the bare
  `create_session`, attachments, claude's error status. SessionBus: eviction at the window's limit,
  events of approvals (Interactions has its own projection of them). ExternalIngress: empty texts,
  SessionStart/SessionEnd, repeated hooks, visibility and ownership checks, the limit of 500 claims,
  polling when kqueue fails, aborted turns.
- Interactions: claude's notification question, forms of several fields. ClaudeTurns: http proxy,
  permission modes, stream parsing. TelegramTurns: rendering, keyboards. Topics: failing saves of
  `state.json`, headers and replayed history, topics made by events, `clear_stale_thread_archive`.
- RemoteProxy: framing, start. CodexConnection: shutdown, a heartbeat's missing pong, pending server
  requests, the stdio transport.
- SessionAssets: export, usage, `list_trash`. Accounts: API-key and agent identities, export.
  RolloutMirror: a file that is cut, the activity published at startup. TerminalHost: the stop at
  shutdown, the wait for an idle thread; `stop()` is one step. SessionList: titles, sorting, claude's
  transcripts. SessionStreams: payloads, deduplication of a turn's remarks (`publishing.py`:289-305).
  HookInstall: the forwarder's script; writing a text is one step. AppUpdate: queued deliveries and
  recovery records in the check, download and signature, a service start that fails. StreamRecovery:
  remarks in the history of running turns, a second message of the same turn.
- The type invariant of every module was checked in the instance of its run (`TypeOK` can be added to
  any cfg); SendRecovery's is among the properties, and it, Topics' and NewSession's are theorems.
