----------------------------- MODULE NewSession -----------------------------
(***************************************************************************)
(* A new session: create a thread at the provider, then send it its first  *)
(* message, and survive a crash at any point in between.                   *)
(*                                                                         *)
(* Two actors run this code: the desktop composer through the owner bridge *)
(* ("app") and the Telegram command /new with its --resume ("bot").  They  *)
(* share the workspace's threads.  The thread of request r carries the     *)
(* record rec[r] (new_session_recovery); before there is a thread, the     *)
(* workspace keeps one creation record (pending_new_session).              *)
(*                                                                         *)
(* An action is the code between two awaits.  Where a task is:             *)
(*   pc[t] = "lock"     waits for state.new_session_lock                   *)
(*           "create"   awaits adapter.start_thread, holding the lock      *)
(*           "bind"     awaits create_forum_topic (bot)                    *)
(*           "prepare"  awaits prepare_user_message_text, ensure_connected *)
(*           "turn"     awaits turn/start or turn/steer                    *)
(*           "queue"    awaits the `codex queue` subprocess                *)
(***************************************************************************)
EXTENDS Naturals

CONSTANTS
  AppRequests,  \* request ids of the desktop composer
  BotRequests,  \* recovery keys of Telegram /new messages
  Resumable,    \* bound: requests somebody may /new --resume
  NoRequest,    \* "no request id"
  MaxCrashes,   \* bound: process deaths in a behaviour
  Steers        \* TRUE when another client may hold an active turn

Requests == AppRequests \cup BotRequests

ASSUME NewSessionAssumption ==
  /\ AppRequests \cap BotRequests = {}
  /\ Resumable \subseteq Requests
  /\ NoRequest \notin Requests
  /\ MaxCrashes \in Nat
  /\ Steers \in BOOLEAN

\* The tasks that may work on a request.
Tasks == {t \in [req : Requests, by : {"app", "bot"}] :
            IF t.by = "app" THEN t.req \in AppRequests
                            ELSE t.req \in BotRequests \cup Resumable}

VARIABLES
  up,        \* the sidecar process runs
  crashes,   \* how often it died
  pending,   \* workspace.pending_new_session, in memory
  rec,       \* thread.new_session_recovery of each request's thread
  archived,  \* thread.archived of each request's thread
  disk,      \* what load_storage would return: pending, rec and archived
  pc,        \* where each task is
  reply,     \* answer handed to the waiting call of a task
  spawn,     \* start_thread for r, as the provider sees it
  created,   \* how many threads the provider made for r (ghost)
  rpc,       \* the first message of r, as the provider sees it
  callback,  \* a receipt callback is registered for r's thread
  accepted,  \* how many times the provider took r's first message (ghost)
  begun      \* Telegram messages handled so far

life     == <<up, crashes>>
memory   == <<pending, rec, archived>>
tasks    == <<pc, reply>>
provider == <<spawn, created, rpc, accepted>>
vars     == <<life, memory, disk, tasks, callback, provider, begun>>

-----------------------------------------------------------------------------
\* "none": the thread is not known.
Status  == {"none", "pending", "preparing", "sending", "sent", "failed", "unknown"}
Receipt == {"none", "blank", "sent", "failed"}
Record  == [status : Status, receipt : Receipt]
Pending == [req : Requests \cup {NoRequest},
            status : {"none", "preparing", "unknown", "failed"}]
NoPending == [req |-> NoRequest, status |-> "none"]

Stages == {"idle", "lock", "create", "bind", "prepare", "turn", "queue"}

TypeOK ==
  /\ up \in BOOLEAN
  /\ crashes \in 0 .. MaxCrashes
  /\ pending \in Pending
  /\ rec \in [Requests -> Record]
  /\ archived \in [Requests -> BOOLEAN]
  /\ disk \in [pending : Pending, rec : [Requests -> Record],
               archived : [Requests -> BOOLEAN]]
  /\ pc \in [Tasks -> Stages]
  /\ reply \in [Tasks -> {"none", "ok", "err"}]
  /\ spawn \in [Requests -> {"none", "flight", "done"}]
  /\ created \in [Requests -> Nat]
  /\ rpc \in [Requests -> {"none", "flight", "ok", "err"}]
  /\ callback \in [Requests -> BOOLEAN]
  /\ accepted \in [Requests -> Nat]
  /\ begun \in SUBSET BotRequests

Init ==
  /\ up = TRUE
  /\ crashes = 0
  /\ pending = NoPending
  /\ rec = [r \in Requests |-> [status |-> "none", receipt |-> "none"]]
  /\ archived = [r \in Requests |-> FALSE]
  /\ disk = [pending |-> pending, rec |-> rec, archived |-> archived]
  /\ pc = [t \in Tasks |-> "idle"]
  /\ reply = [t \in Tasks |-> "none"]
  /\ spawn = [r \in Requests |-> "none"]
  /\ created = [r \in Requests |-> 0]
  /\ rpc = [r \in Requests |-> "none"]
  /\ callback = [r \in Requests |-> FALSE]
  /\ accepted = [r \in Requests |-> 0]
  /\ begun = {}

-----------------------------------------------------------------------------
(* Saving writes the whole storage, and may raise before or after the new  *)
(* file is in place.                                                       *)

Snapshot(p, rs) == [pending |-> p, rec |-> rs, archived |-> archived]
Saves(p, rs)    == disk' = Snapshot(p, rs)
MaySave(p, rs)  == disk' \in {disk, Snapshot(p, rs)}

WithStatus(r, st) == [rec EXCEPT ![r].status = st]

Bound(r) == rec[r].status # "none"

Moves(t, stage) ==
  /\ pc' = [pc EXCEPT ![t] = stage]
  /\ reply' = [reply EXCEPT ![t] = "none"]

\* The task of t ends by an exception and leaves the records p and rs; first
\* is what the saves before may have left on disk.  The /new handler saves
\* once more on its way out.
EndsAfter(t, p, rs, first) ==
  /\ Moves(t, "idle")
  /\ pending' = p
  /\ rec' = rs
  /\ disk' \in first \cup (IF t.by = "bot" THEN {Snapshot(p, rs)} ELSE {})

-----------------------------------------------------------------------------
(* send_started_provider_thread_message, up to its first await.  p and rs  *)
(* are the records in memory, d what is on disk, on entry.                 *)

\* Mutant: the status on record does not stop the message.
FirstMessageAnyway(t, p, rs, d) ==
  LET preparing == [rs EXCEPT ![t.req].status = "preparing"] IN
  /\ pending' = p /\ rec' = preparing
  /\ Saves(p, preparing)
  /\ Moves(t, "prepare")

\* A first message that was sent is not sent again, and one whose fate is
\* open is refused.
FirstMessage(t, p, rs, d) ==
  LET r == t.req
      preparing == [rs EXCEPT ![r].status = "preparing"]
      again     == [rs EXCEPT ![r].status = "pending"]
  IN
  \/ /\ rs[r].status = "sent"
     /\ pending' = p /\ rec' = rs
     /\ disk' \in {d, Snapshot(p, rs)}
     /\ Moves(t, "idle")
  \/ /\ rs[r].status \in {"preparing", "sending", "unknown"}
     /\ EndsAfter(t, p, rs, {d})
  \/ /\ rs[r].status \in {"pending", "failed"}
     /\ \/ /\ pending' = p /\ rec' = preparing
           /\ Saves(p, preparing)
           /\ Moves(t, "prepare")
        \/ EndsAfter(t, p, again, {d, Snapshot(p, preparing)})

\* The caller of start_real_provider_thread got the thread.  The bridge drops
\* its creation record in memory; the bot may have to make a topic first.
HasThread(t, rs, d) ==
  LET p == IF t.by = "app" /\ pending.req = t.req THEN NoPending ELSE pending IN
  \/ FirstMessage(t, p, rs, d)
  \/ /\ t.by = "bot"
     /\ Moves(t, "bind")
     /\ pending' = pending /\ rec' = rs /\ disk' = d

-----------------------------------------------------------------------------
(* Requests.                                                               *)

\* _handle_admitted_start_session_message: a running task of the same id is
\* joined, an unconfirmed creation blocks others, and the input is saved
\* before anything is created.
SubmitApp(r) ==
  LET t == [req |-> r, by |-> "app"]
      fresh == [req |-> r, status |-> "preparing"]
  IN
  /\ up
  /\ pc[t] = "idle"
  /\ \/ /\ Bound(r)
        /\ Moves(t, "lock")
        /\ UNCHANGED <<pending, disk>>
     \/ /\ ~Bound(r)
        /\ pending.status \notin {"preparing", "unknown"}
        /\ \/ /\ pending' = fresh
              /\ Saves(fresh, rec)
              /\ Moves(t, "lock")
           \/ /\ pending' = [fresh EXCEPT !.status = "failed"]
              /\ MaySave(fresh, rec)
              /\ UNCHANGED tasks
  /\ UNCHANGED <<life, rec, archived, callback, provider, begun>>

\* /new in a workspace topic: one message, one key, no creation record.
SubmitBot(r) ==
  LET t == [req |-> r, by |-> "bot"] IN
  /\ up
  /\ r \in BotRequests \ begun
  /\ begun' = begun \cup {r}
  /\ Moves(t, "lock")
  /\ UNCHANGED <<life, memory, disk, callback, provider>>

\* /new --resume <session>, for a thread either actor created.
Resume(r) ==
  LET t == [req |-> r, by |-> "bot"] IN
  /\ up
  /\ r \in Resumable
  /\ Bound(r)
  /\ pc[t] = "idle"
  /\ Moves(t, "lock")
  /\ UNCHANGED <<life, memory, disk, callback, provider, begun>>

-----------------------------------------------------------------------------
(* start_real_provider_thread, serialised by state.new_session_lock.       *)

LockFree == \A t \in Tasks : pc[t] # "create"

\* The thread is known already: the lock is given back at once.
Reuse(t) ==
  /\ pc[t] = "lock" /\ LockFree
  /\ Bound(t.req)
  /\ HasThread(t, rec, disk)
  /\ UNCHANGED <<life, archived, callback, provider, begun>>

\* Mutant: no lock, no look at the threads already known.
CreateAgain(t) ==
  /\ pc[t] = "lock"
  /\ Moves(t, "create")
  /\ spawn' = [spawn EXCEPT ![t.req] = "flight"]
  /\ UNCHANGED <<life, memory, disk, callback, created, rpc, accepted, begun>>

Create(t) ==
  /\ pc[t] = "lock" /\ LockFree
  /\ ~Bound(t.req)
  /\ Moves(t, "create")
  /\ spawn' = [spawn EXCEPT ![t.req] = "flight"]
  /\ UNCHANGED <<life, memory, disk, callback, created, rpc, accepted, begun>>

\* The provider makes a thread, whether or not anybody still waits.
Spawn(r) ==
  /\ spawn[r] = "flight"
  /\ spawn' = [spawn EXCEPT ![r] = "done"]
  /\ created' = [created EXCEPT ![r] = @ + 1]
  /\ UNCHANGED <<life, memory, disk, tasks, callback, rpc, accepted, begun>>

\* The new thread is registered and saved with the input ("pending").  When
\* the save raises, the bridge marks the request failed and saves again, and
\* leaves the creation record as it is; the bot keeps "pending".
CreateDone(t) ==
  LET r == t.req
      bound  == [rec EXCEPT ![r] = [status |-> "pending", receipt |-> "none"]]
      failed == [rec EXCEPT ![r] = [status |-> "failed", receipt |-> "none"]]
      last   == IF t.by = "app" THEN failed ELSE bound
  IN
  /\ pc[t] = "create" /\ spawn[r] = "done"
  /\ spawn' = [spawn EXCEPT ![r] = "none"]
  /\ \/ HasThread(t, bound, Snapshot(pending, bound))
     \/ EndsAfter(t, pending, last,
                  {disk, Snapshot(pending, bound), Snapshot(pending, last)})
  /\ UNCHANGED <<life, archived, callback, created, rpc, accepted, begun>>

\* Mutant: a creation that raised is taken for one that did not happen.
CreateFailsAsFailed(t) ==
  LET failed == [pending EXCEPT !.status = "failed"] IN
  /\ pc[t] = "create"
  /\ Moves(t, "idle")
  /\ IF t.by = "app" /\ pending.req = t.req
     THEN pending' = failed /\ MaySave(failed, rec)
     ELSE UNCHANGED <<pending, disk>>
  /\ UNCHANGED <<life, rec, archived, callback, provider, begun>>

\* Mutant: nothing ends the wait for start_thread but its answer.
CreateFailsAnswered(t) ==
  LET unknown == [pending EXCEPT !.status = "unknown"] IN
  /\ pc[t] = "create" /\ spawn[t.req] = "done"
  /\ Moves(t, "idle")
  /\ IF t.by = "app" /\ pending.req = t.req
     THEN pending' = unknown /\ MaySave(unknown, rec)
     ELSE UNCHANGED <<pending, disk>>
  /\ UNCHANGED <<life, rec, archived, callback, provider, begun>>

\* start_thread raises: the RPC timed out, the connection was lost, or the
\* provider said no.  The bridge keeps the input as "unknown".
CreateFails(t) ==
  LET unknown == [pending EXCEPT !.status = "unknown"] IN
  /\ pc[t] = "create"
  /\ Moves(t, "idle")
  /\ IF t.by = "app" /\ pending.req = t.req
     THEN pending' = unknown /\ MaySave(unknown, rec)
     ELSE UNCHANGED <<pending, disk>>
  /\ UNCHANGED <<life, rec, archived, callback, provider, begun>>

\* The topic exists, or could not be made: either is noted and saved, and the
\* first message goes out.  When the save raises it does not.
TopicDone(t) ==
  /\ pc[t] = "bind"
  /\ \/ FirstMessage(t, pending, rec, Snapshot(pending, rec))
     \/ EndsAfter(t, pending, rec, {disk})
  /\ UNCHANGED <<life, archived, callback, provider, begun>>

-----------------------------------------------------------------------------
(* The first message.                                                      *)

\* The outcome is put on record; its save may raise.
Checkpoint(t, st) ==
  EndsAfter(t, pending, WithStatus(t.req, st),
            {disk, Snapshot(pending, WithStatus(t.req, st))})

\* Mutant: any exception counts as a rejection.
RaiseAsFailed(t) == Checkpoint(t, "failed")
\* An exception that is not a _FirstMessageRejected.
Raise(t) == Checkpoint(t, "unknown")

\* _FirstMessageRejected: the binding changed, the thread was archived,
\* preparation or connection failed, or "sending" could not be saved.
PrepareRejected(t) ==
  LET r == t.req
      failed == WithStatus(r, "failed")
  IN
  /\ pc[t] = "prepare"
  /\ \/ Checkpoint(t, "failed")
     \/ /\ ~archived[r]
        /\ EndsAfter(t, pending, failed,
             {disk, Snapshot(pending, WithStatus(r, "sending")),
              Snapshot(pending, failed)})
  /\ UNCHANGED <<life, archived, callback, provider, begun>>

\* "sending" is on disk: enter codex send_message.  turn/start resets an old
\* receipt, and the reset must be saved; turn/steer does not.
PrepareDone(t) ==
  LET r == t.req
      sending == WithStatus(r, "sending")
      blank   == [sending EXCEPT ![r].receipt = "blank"]
      unknown == [blank EXCEPT ![r].status = "unknown"]
      stale   == rec[r].receipt # "none"
  IN
  /\ pc[t] = "prepare"
  /\ ~archived[r]
  /\ \/ /\ ~stale \/ Steers
        /\ rec' = sending
        /\ Saves(pending, sending)
        /\ Moves(t, "turn")
        /\ UNCHANGED pending
     \/ /\ stale
        /\ rec' = blank
        /\ Saves(pending, blank)
        /\ Moves(t, "turn")
        /\ UNCHANGED pending
     \/ /\ stale
        /\ EndsAfter(t, pending, unknown,
             {Snapshot(pending, sending), Snapshot(pending, blank),
              Snapshot(pending, unknown)})
  /\ UNCHANGED <<life, archived, callback, provider, begun>>

\* The call reaches the provider; the answer to a turn/* call is recorded by
\* the callback, of which a thread has one.
Issue(t) ==
  LET r == t.req IN
  /\ pc[t] \in {"turn", "queue"}
  /\ rpc[r] = "none" /\ reply[t] = "none"
  /\ rpc' = [rpc EXCEPT ![r] = "flight"]
  /\ callback' = [callback EXCEPT ![r] = @ \/ pc[t] = "turn"]
  /\ UNCHANGED <<life, memory, disk, tasks, spawn, created, accepted, begun>>

Accept(r) ==
  /\ rpc[r] = "flight"
  /\ rpc' = [rpc EXCEPT ![r] = "ok"]
  /\ accepted' = [accepted EXCEPT ![r] = @ + 1]
  /\ UNCHANGED <<life, memory, disk, tasks, callback, spawn, created, begun>>

Reject(r) ==
  /\ rpc[r] = "flight"
  /\ rpc' = [rpc EXCEPT ![r] = "err"]
  /\ UNCHANGED <<life, memory, disk, tasks, callback, spawn, created, accepted,
                 begun>>

\* Mutant: an answer without an error is a receipt, and so is one with.
ReceiptOfAny(answer) == "sent"
ReceiptOf(answer) == IF answer = "ok" THEN "sent" ELSE "failed"

\* The answer arrives: receipt first (record_delivery_receipt, ignored for an
\* archived thread), then the task that waits, if any.
Respond(r) ==
  LET noted == [rec EXCEPT ![r].receipt = ReceiptOf(rpc[r])] IN
  /\ up
  /\ rpc[r] \in {"ok", "err"}
  /\ rpc' = [rpc EXCEPT ![r] = "none"]
  /\ reply' = [t \in Tasks |->
       IF t.req = r /\ pc[t] \in {"turn", "queue"} THEN rpc[r] ELSE reply[t]]
  /\ callback' = [callback EXCEPT ![r] = FALSE]
  /\ IF callback[r] /\ ~archived[r]
     THEN rec' = noted /\ MaySave(pending, noted)
     ELSE UNCHANGED <<rec, disk>>
  /\ UNCHANGED <<life, pending, archived, pc, spawn, created, accepted, begun>>

\* The 129th callback pushes the oldest out.
EvictCallback(r) ==
  /\ up
  /\ callback[r]
  /\ callback' = [callback EXCEPT ![r] = FALSE]
  /\ UNCHANGED <<life, memory, disk, tasks, provider, begun>>

Succeed(t) ==
  /\ pc[t] \in {"turn", "queue"} /\ reply[t] = "ok"
  /\ Checkpoint(t, "sent")
  /\ UNCHANGED <<life, archived, callback, provider, begun>>

\* The provider refused: try turn/start again after thread/resume, or hand
\* over to `codex queue`, or give up.  The receipt on record is reset first;
\* for an archived thread the reset is skipped.
Refused(t) ==
  LET r == t.req
      blank   == [rec EXCEPT ![r].receipt = "blank"]
      unknown == [blank EXCEPT ![r].status = "unknown"]
  IN
  /\ pc[t] \in {"turn", "queue"} /\ reply[t] = "err"
  /\ \/ Raise(t)
     \/ /\ pc[t] = "turn"
        /\ \/ /\ archived[r]
              /\ UNCHANGED <<rec, disk>>
           \/ /\ ~archived[r]
              /\ rec' = blank
              /\ Saves(pending, blank)
        /\ \E stage \in {"turn", "queue"} : Moves(t, stage)
        /\ UNCHANGED pending
     \/ /\ pc[t] = "turn" /\ ~archived[r]
        /\ EndsAfter(t, pending, unknown,
             {disk, Snapshot(pending, blank), Snapshot(pending, unknown)})
  /\ UNCHANGED <<life, archived, callback, provider, begun>>

\* A timeout, a lost connection, or stop() cancelling the task, during the
\* call or before it.
Abandon(t) ==
  /\ pc[t] \in {"prepare", "turn", "queue"}
  /\ Raise(t)
  /\ UNCHANGED <<life, archived, callback, provider, begun>>

-----------------------------------------------------------------------------
(* The rest of the process.                                                *)

\* _handle_recheck_session_send for a new session: the receipt on record
\* settles a request that is not being worked on.
Recheck(r) ==
  LET settled == WithStatus(r, rec[r].receipt) IN
  /\ up
  /\ ~archived[r]
  /\ rec[r].receipt \in {"sent", "failed"}
  /\ rec[r].status \notin {"pending", "preparing", "sending"}
  /\ rec' = settled
  /\ MaySave(pending, settled)
  /\ UNCHANGED <<life, pending, archived, tasks, callback, provider, begun>>

\* commit_session_archive: rolled back in memory when the save raises.
Archive(r) ==
  LET shut == [archived EXCEPT ![r] = TRUE]
      saved == [pending |-> pending, rec |-> rec, archived |-> shut]
  IN
  /\ up
  /\ Bound(r) /\ ~archived[r]
  /\ \/ archived' = shut /\ disk' = saved
     \/ UNCHANGED archived /\ disk' \in {disk, saved}
  /\ UNCHANGED <<life, pending, rec, tasks, callback, provider, begun>>

\* Any other handler saves the storage.
Flush ==
  /\ up
  /\ Saves(pending, rec)
  /\ UNCHANGED <<life, memory, tasks, callback, provider, begun>>

\* The process dies.  While it is down the memory variables show the disk.
Crash ==
  /\ up
  /\ crashes < MaxCrashes
  /\ up' = FALSE
  /\ crashes' = crashes + 1
  /\ pending' = disk.pending
  /\ rec' = disk.rec
  /\ archived' = disk.archived
  /\ pc' = [t \in Tasks |-> "idle"]
  /\ reply' = [t \in Tasks |-> "none"]
  /\ callback' = [r \in Requests |-> FALSE]
  /\ UNCHANGED <<disk, provider, begun>>

\* Mutant: a status nothing else knows.
RestoredPendingInterrupted(p, rs) ==
  IF p.status = "preparing" THEN [p EXCEPT !.status = "interrupted"] ELSE p

\* Mutant: an interrupted creation is forgotten.
RestoredPendingNone(p, rs) == NoPending

\* restore_send_recoveries: the creation record of a thread that exists is
\* dropped, any other is of unknown outcome.
RestoredPending(p, rs) ==
  IF p.req # NoRequest /\ rs[p.req].status # "none" THEN NoPending
  ELSE IF p.status = "preparing" THEN [p EXCEPT !.status = "unknown"]
  ELSE p

\* Mutant: an interrupted first message is restored as failed.
RestoredAsFailed(record) ==
  [record EXCEPT !.status =
     IF @ \in {"pending", "preparing", "sending"} THEN "failed" ELSE @]

Restored(record) ==
  [record EXCEPT !.status = CASE @ \in {"pending", "preparing"} -> "failed"
                              [] @ = "sending"                  -> "unknown"
                              [] OTHER                          -> @]

Start ==
  LET p  == RestoredPending(pending, rec)
      rs == [r \in Requests |-> IF archived[r] THEN rec[r] ELSE Restored(rec[r])]
  IN
  /\ ~up
  /\ up' = TRUE
  /\ pending' = p
  /\ rec' = rs
  /\ \/ UNCHANGED disk
     \/ \E saved \in SUBSET Requests :
          Saves(p, [r \in Requests |-> IF r \in saved THEN rs[r] ELSE rec[r]])
  /\ UNCHANGED <<crashes, archived, tasks, callback, provider, begun>>

-----------------------------------------------------------------------------
Task(t) ==
  \/ Reuse(t) \/ Create(t) \/ CreateDone(t) \/ CreateFails(t) \/ TopicDone(t)
  \/ PrepareRejected(t) \/ PrepareDone(t) \/ Issue(t) \/ Succeed(t)
  \/ Refused(t) \/ Abandon(t)

Request(r) ==
  \/ SubmitBot(r) \/ Resume(r) \/ Spawn(r) \/ Accept(r) \/ Reject(r)
  \/ Respond(r) \/ EvictCallback(r) \/ Recheck(r) \/ Archive(r)

Next ==
  \/ \E t \in Tasks : Task(t)
  \/ \E r \in Requests : Request(r)
  \/ \E r \in AppRequests : SubmitApp(r)
  \/ Flush \/ Crash \/ Start

Spec == Init /\ [][Next]_vars

-----------------------------------------------------------------------------
\* What a restart would make of the record of r.
Durable(r) == IF disk.archived[r] THEN disk.rec[r] ELSE Restored(disk.rec[r])

\* Whoever asks again, and whatever crashed in between, the provider makes at
\* most one thread for a request.
OneThread == \A r \in Requests : created[r] <= 1

\* The first message is taken at most once, by whichever actor sends it.
FirstMessageOnce == \A r \in Requests : accepted[r] <= 1

\* "failed" invites a resend: the provider has not taken the first message
\* and never will, neither as things stand nor after a restart.
FailedMeansUndelivered ==
  \A r \in Requests : \A record \in {rec[r], Durable(r)} :
    record.status = "failed" => accepted[r] = 0 /\ rpc[r] # "flight"

\* "sent" is only said of a first message the provider took.
SentMeansDelivered ==
  \A r \in Requests : \A record \in {rec[r], Durable(r)} :
    record.status = "sent" => accepted[r] > 0

\* What the record says of the first message is so.
RecordHonest == FailedMeansUndelivered /\ SentMeansDelivered

\* The desktop's input is on disk from before the provider is asked for a
\* thread, as the creation record or as the record of the thread: a crash
\* leaves something to recover from, and it is not overwritten.
InputKept ==
  \A r \in AppRequests :
    (spawn[r] = "flight" \/ created[r] > 0)
      => \/ disk.pending.req = r /\ disk.pending.status \in {"preparing", "unknown"}
         \/ disk.rec[r].status # "none"

\* Two tasks never work on the first message of one thread.
OneSender ==
  \A t, u \in Tasks :
    (t # u /\ t.req = u.req)
      => ~(pc[t] \in {"prepare", "turn", "queue"} /\ pc[u] \in {"prepare", "turn", "queue"})

\* The creation record says "preparing" only while its task is on the way to
\* a thread; from then on the thread's own record takes over.
CreationRecordCurrent ==
  (up /\ pending.status = "preparing")
    => pc[[req |-> pending.req, by |-> "app"]] \in {"lock", "create"}

-----------------------------------------------------------------------------
\* Every wait of a task has a timeout, the lock is handed on, and the desktop
\* host restarts a dead sidecar.
Fairness ==
  /\ WF_vars(Start)
  /\ \A t \in Tasks :
       /\ SF_vars(Reuse(t) \/ Create(t))
       /\ WF_vars(CreateFails(t))
       /\ WF_vars(TopicDone(t))
       /\ WF_vars(Abandon(t))

FairSpec == Spec /\ Fairness

\* Every task comes to an end, the lock notwithstanding.
TasksEnd == \A t \in Tasks : pc[t] # "idle" ~> pc[t] = "idle"
=============================================================================
