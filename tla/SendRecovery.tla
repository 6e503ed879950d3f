---------------------------- MODULE SendRecovery ----------------------------
(***************************************************************************)
(* An ordinary desktop send, from the owner bridge's handler to the        *)
(* provider and back, with the recovery record that makes it survivable.   *)
(*                                                                         *)
(* Each session (a ThreadInfo) keeps ONE recovery record: the latest       *)
(* desktop request, its status and the provider's receipt.  The record is  *)
(* saved before every step that must not be forgotten, and is read back    *)
(* when the process restarts.  The provider (the codex app-server) is a    *)
(* separate process: a call may reach it after its caller has given up or  *)
(* died, and its answer may be late or lost.                               *)
(*                                                                         *)
(* asyncio runs one callback at a time, so an action is the code between   *)
(* two awaits: guards, memory changes and the (synchronous) save.          *)
(*                                                                         *)
(*   pc[m] = "preparing"  handler awaits ensure_connected / prepare_send   *)
(*           "queued"     execute_send is scheduled, has not run           *)
(*           "steer"      awaits turn/steer                                *)
(*           "start"      awaits the first turn/start                      *)
(*           "resume"     awaits thread/resume                             *)
(*           "retry"      awaits the second turn/start                     *)
(*           "queue"      awaits the `codex queue` subprocess              *)
(***************************************************************************)
EXTENDS Naturals

CONSTANTS
  Sessions,    \* provider sessions of the workspace
  Requests,    \* request ids of the desktop composer (tracked sends)
  Untracked,   \* messages sent without a request id: Telegram, other sources
  SessionOf,   \* the session each message is written for
  NoRequest,   \* "no request id"
  MaxCrashes,  \* bound: process deaths in a behaviour
  Repairs      \* TRUE when a wrongly archived session may be un-archived

Messages == Requests \cup Untracked

ASSUME SendRecoveryAssumption ==
  /\ Requests \cap Untracked = {}
  /\ NoRequest \notin Messages
  /\ SessionOf \in [Messages -> Sessions]
  /\ MaxCrashes \in Nat
  /\ Repairs \in BOOLEAN

VARIABLES
  up,        \* the sidecar process runs
  crashes,   \* how often it died
  recovery,  \* thread.send_recovery of each session, in memory
  archived,  \* thread.archived of each session, in memory
  disk,      \* what load_storage would return: recovery and archived
  pc,        \* where the send of each message is
  owner,     \* request id whose receipt the provider call of m records
  reply,     \* answer handed to the waiting call of m
  rpc,       \* the provider call of m, as the provider sees it
  callback,  \* adapter._delivery_receipts: the one entry kept per thread
  accepted,  \* how many times the provider took m (ghost)
  issued,    \* request ids the composer has used
  latest     \* the composer's current request id, per session

life     == <<up, crashes>>
calls    == <<pc, owner, reply>>
provider == <<rpc, accepted>>
client   == <<issued, latest>>
vars     == <<life, recovery, archived, disk, calls, callback, provider, client>>

-----------------------------------------------------------------------------
Status     == {"none", "preparing", "sending", "sent", "failed", "unknown"}
\* Mutant: an unknown fate no longer blocks the next request.
UnresolvedButUnknown == {"preparing", "sending"}
Unresolved == {"preparing", "sending", "unknown"}

\* providerReceipt: absent, reset to {} (only its request id), or an outcome.
Receipt == {"none", "blank", "sent", "failed"}

Record == [req : Requests \cup {NoRequest}, status : Status, receipt : Receipt]

NoRecord == [req |-> NoRequest, status |-> "none", receipt |-> "none"]

RpcStages == {"steer", "start", "retry"}
Calling   == RpcStages \cup {"resume", "queue"}
Stages    == Calling \cup {"idle", "preparing", "queued"}

NoCallback == [msg |-> NoRequest, req |-> NoRequest]

TypeOK ==
  /\ up \in BOOLEAN
  /\ crashes \in 0 .. MaxCrashes
  /\ recovery \in [Sessions -> Record]
  /\ archived \in [Sessions -> BOOLEAN]
  /\ disk \in [recovery : [Sessions -> Record], archived : [Sessions -> BOOLEAN]]
  /\ pc \in [Messages -> Stages]
  /\ owner \in [Messages -> Requests \cup {NoRequest}]
  /\ reply \in [Messages -> {"none", "ok", "err"}]
  /\ rpc \in [Messages -> {"none", "flight", "ok", "err"}]
  /\ callback \in [Sessions -> [msg : Messages \cup {NoRequest},
                                req : Requests \cup {NoRequest}]]
  /\ accepted \in [Messages -> Nat]
  /\ issued \in SUBSET Requests
  /\ latest \in [Sessions -> Requests \cup {NoRequest}]

Init ==
  /\ up = TRUE
  /\ crashes = 0
  /\ recovery = [s \in Sessions |-> NoRecord]
  /\ archived = [s \in Sessions |-> FALSE]
  /\ disk = [recovery |-> recovery, archived |-> archived]
  /\ pc = [m \in Messages |-> "idle"]
  /\ owner = [m \in Messages |-> NoRequest]
  /\ reply = [m \in Messages |-> "none"]
  /\ rpc = [m \in Messages |-> "none"]
  /\ callback = [s \in Sessions |-> NoCallback]
  /\ accepted = [m \in Messages |-> 0]
  /\ issued = {}
  /\ latest = [s \in Sessions |-> NoRequest]

-----------------------------------------------------------------------------
(* Saving.  save_storage writes the WHOLE storage, so any save flushes     *)
(* every session.  It can raise after os.replace has already installed the *)
(* new file (the directory fsync comes later): a failed save leaves either *)
(* the old content or the new one.                                         *)

Snapshot(rec, arch) == [recovery |-> rec, archived |-> arch]

\* Mutant: the caller does not hear of a failed save.
SavesUnheard(rec) == disk' \in {disk, Snapshot(rec, archived)}
Saves(rec)      == disk' = Snapshot(rec, archived)
SaveRaises(rec) == disk' \in {disk, Snapshot(rec, archived)}
MaySave(rec)    == Saves(rec) \/ SaveRaises(rec)

WithStatus(rec, s, st)   == [rec EXCEPT ![s].status = st]
WithReceipt(rec, s, rct) == [rec EXCEPT ![s].receipt = rct]

\* checkpoint(): a no-op once the session's record belongs to another request.
\* Only for the statuses that survive a failed save ("sent", "failed", "unknown").
Checkpoint(s, r, st) ==
  IF recovery[s].req # r
  THEN UNCHANGED <<recovery, disk>>
  ELSE /\ recovery' = WithStatus(recovery, s, st)
       /\ MaySave(recovery')

\* Mutant: an error answer is recorded as accepted.
RecordAnyReceipt(s, r, rct) ==
  IF archived[s] \/ recovery[s].req # r
  THEN UNCHANGED <<recovery, disk>>
  ELSE recovery' = WithReceipt(recovery, s, "sent") /\ MaySave(recovery')

\* record_delivery_receipt: ignored for an archived session and for a record
\* of another request; the receipt stays in memory when its save fails.
RecordReceipt(s, r, rct) ==
  IF archived[s] \/ recovery[s].req # r
  THEN UNCHANGED <<recovery, disk>>
  ELSE /\ recovery' = WithReceipt(recovery, s, rct)
       /\ MaySave(recovery')

-----------------------------------------------------------------------------
(* The handler of a tracked send, up to the first await.                   *)

\* The composer takes a fresh id for every new input and repeats the current
\* one while the input is the same; the bridge answers a known id, a session
\* with an unresolved request and an archived session without sending.
Refuse(r) ==
  LET s == SessionOf[r] IN
  /\ \/ archived[s]
     \/ recovery[s].req = r
     \/ recovery[s].status \in Unresolved
  /\ UNCHANGED <<recovery, disk, pc>>

\* Mutant: the request id on record is not compared.
AdmitRepeated(r) ==
  LET s     == SessionOf[r]
      fresh == [recovery EXCEPT
                  ![s] = [req |-> r, status |-> "preparing", receipt |-> "none"]]
  IN
  /\ ~archived[s] /\ recovery[s].status \notin Unresolved
  /\ recovery' = fresh /\ Saves(fresh)
  /\ pc' = [pc EXCEPT ![r] = "preparing"]

Admit(r) ==
  LET s     == SessionOf[r]
      fresh == [recovery EXCEPT
                  ![s] = [req |-> r, status |-> "preparing", receipt |-> "none"]]
  IN
  /\ ~archived[s]
  /\ recovery[s].req # r
  /\ recovery[s].status \notin Unresolved
  /\ \/ /\ recovery' = fresh
        /\ Saves(fresh)
        /\ pc' = [pc EXCEPT ![r] = "preparing"]
     \/ /\ recovery' = WithStatus(fresh, s, "failed")
        /\ SaveRaises(fresh)
        /\ UNCHANGED pc

Submit(r) ==
  /\ up
  /\ r \notin issued \/ latest[SessionOf[r]] = r
  /\ issued' = issued \cup {r}
  /\ latest' = [latest EXCEPT ![SessionOf[r]] = r]
  /\ Refuse(r) \/ Admit(r)
  /\ UNCHANGED <<life, archived, owner, reply, callback, provider>>

\* Mutant: the exception path of the handler does not settle the record.
PrepareFailsUnsettled(r) ==
  /\ pc[r] = "preparing"
  /\ pc' = [pc EXCEPT ![r] = "idle"]
  /\ UNCHANGED <<life, recovery, archived, disk, owner, reply, callback,
                 provider, client>>

\* ensure_connected, prepare_send, validate_target or the remap save fails.
PrepareFails(r) ==
  /\ pc[r] = "preparing"
  /\ Checkpoint(SessionOf[r], r, "failed")
  /\ pc' = [pc EXCEPT ![r] = "idle"]
  /\ UNCHANGED <<life, archived, owner, reply, callback, provider, client>>

PrepareDone(r) ==
  /\ pc[r] = "preparing"
  /\ pc' = [pc EXCEPT ![r] = "queued"]
  /\ UNCHANGED <<life, recovery, archived, disk, owner, reply, callback,
                 provider, client>>

-----------------------------------------------------------------------------
(* execute_send, the background task, up to the provider call.             *)

\* The binding changed, the session was archived or an attachment is gone.
SendRejected(r) ==
  /\ pc[r] = "queued"
  /\ Checkpoint(SessionOf[r], r, "failed")
  /\ pc' = [pc EXCEPT ![r] = "idle"]
  /\ UNCHANGED <<life, archived, owner, reply, callback, provider, client>>

\* checkpoint("sending") raises, and the handler of that exception saves
\* "failed" in turn, which may raise as well.
SendUnsaved(r) ==
  LET s       == SessionOf[r]
      sending == WithStatus(recovery, s, "sending")
      failed  == WithStatus(recovery, s, "failed")
  IN
  /\ pc[r] = "queued"
  /\ ~archived[s]
  /\ recovery[s].req = r
  /\ recovery' = failed
  /\ disk' \in {disk, Snapshot(sending, archived), Snapshot(failed, archived)}
  /\ pc' = [pc EXCEPT ![r] = "idle"]
  /\ UNCHANGED <<life, archived, owner, reply, callback, provider, client>>

\* "sending" is on disk: enter codex send_message, which steers the active
\* turn or starts one.  The record is new, so it holds no receipt to reset.
SendBegins(r) ==
  LET s == SessionOf[r] IN
  /\ pc[r] = "queued"
  /\ ~archived[s]
  /\ recovery[s].req = r
  /\ recovery' = WithStatus(recovery, s, "sending")
  /\ Saves(recovery')
  /\ owner' = [owner EXCEPT ![r] = r]
  /\ \E stage \in {"steer", "start"} : pc' = [pc EXCEPT ![r] = stage]
  /\ UNCHANGED <<life, archived, reply, callback, provider, client>>

-----------------------------------------------------------------------------
(* The end of a send: the task checkpoints the outcome.  An exception      *)
(* after "sending" was saved always means "unknown".                       *)

Ends(m) ==
  /\ pc' = [pc EXCEPT ![m] = "idle"]
  /\ owner' = [owner EXCEPT ![m] = NoRequest]
  /\ reply' = [reply EXCEPT ![m] = "none"]

Finish(m, st) ==
  /\ Ends(m)
  /\ IF m \in Requests THEN Checkpoint(SessionOf[m], m, st)
                       ELSE UNCHANGED <<recovery, disk>>

\* Mutant: every exception is taken for a refusal.
RaiseAsFailed(m) == Finish(m, "failed")
Raise(m) == Finish(m, "unknown")

(* Moving the ladder on.  Before a second attempt the receipt of the first *)
(* is reset, and the reset must be saved: require_persistence.             *)

Goto(m, stage) ==
  /\ pc' = [pc EXCEPT ![m] = stage]
  /\ reply' = [reply EXCEPT ![m] = "none"]
  /\ UNCHANGED owner

Reset(m, r, stage) ==
  LET s     == SessionOf[m]
      blank == WithReceipt(recovery, s, "blank")
      last  == IF m \in Requests THEN WithStatus(blank, s, "unknown") ELSE blank
  IN
  \/ /\ archived[s] \/ recovery[s].req # r
     /\ UNCHANGED <<recovery, disk>>
     /\ Goto(m, stage)
  \/ /\ ~archived[s] /\ recovery[s].req = r
     /\ \/ /\ recovery' = blank
           /\ Saves(blank)
           /\ Goto(m, stage)
        \/ /\ recovery' = last
           /\ disk' \in {disk, Snapshot(blank, archived), Snapshot(last, archived)}
           /\ Ends(m)

\* send(): an untracked caller looks at the record it read on entry, which a
\* checkpoint may have replaced since, so it may or may not see the receipt.
GotoTurn(m, stage) ==
  LET seen == recovery[SessionOf[m]].receipt # "none" IN
  \/ /\ owner[m] = NoRequest \/ ~seen \/ m \in Untracked
     /\ Goto(m, stage)
     /\ UNCHANGED <<recovery, disk>>
  \/ /\ owner[m] # NoRequest /\ seen
     /\ Reset(m, owner[m], stage)

\* _queue_codex_message resets the receipt of whatever request is "sending".
GotoQueue(m) ==
  LET s == SessionOf[m] IN
  IF recovery[s].status = "sending"
  THEN Reset(m, recovery[s].req, "queue")
  ELSE Goto(m, "queue") /\ UNCHANGED <<recovery, disk>>

-----------------------------------------------------------------------------
(* codex send_message.                                                     *)

\* A message without a request id (bot/handlers/message.py, other sources).
\* send_message looks at the session's record all the same.
UntrackedSend(u) ==
  LET s     == SessionOf[u]
      r     == IF recovery[s].status = "sending" THEN recovery[s].req
                                                 ELSE NoRequest
      stale == r # NoRequest /\ recovery[s].receipt # "none" /\ ~archived[s]
      enter(stage) == /\ pc' = [pc EXCEPT ![u] = stage]
                      /\ owner' = [owner EXCEPT ![u] = r]
  IN
  /\ up
  /\ pc[u] = "idle" /\ rpc[u] = "none" /\ accepted[u] = 0
  /\ \/ enter("steer") /\ UNCHANGED <<recovery, disk>>
     \/ ~stale /\ enter("start") /\ UNCHANGED <<recovery, disk>>
     \/ /\ stale
        /\ recovery' = WithReceipt(recovery, s, "blank")
        /\ \/ Saves(recovery') /\ enter("start")
           \/ SaveRaises(recovery') /\ UNCHANGED <<pc, owner>>
  /\ UNCHANGED <<life, archived, reply, callback, provider, client>>

\* adapter._call (or the subprocess) hands the message to the provider.
\* Registering a callback drops the older one of the same thread.
Issue(m) ==
  LET s == SessionOf[m] IN
  /\ pc[m] \in RpcStages \cup {"queue"}
  /\ rpc[m] = "none" /\ reply[m] = "none"
  /\ rpc' = [rpc EXCEPT ![m] = "flight"]
  /\ callback' = IF pc[m] \in RpcStages /\ owner[m] # NoRequest
                 THEN [callback EXCEPT ![s] = [msg |-> m, req |-> owner[m]]]
                 ELSE callback
  /\ UNCHANGED <<life, recovery, archived, disk, calls, accepted, client>>

\* The provider takes the message, or refuses it; nobody need be waiting.
Accept(m) ==
  /\ rpc[m] = "flight"
  /\ rpc' = [rpc EXCEPT ![m] = "ok"]
  /\ accepted' = [accepted EXCEPT ![m] = @ + 1]
  /\ UNCHANGED <<life, recovery, archived, disk, calls, callback, client>>

Reject(m) ==
  /\ rpc[m] = "flight"
  /\ rpc' = [rpc EXCEPT ![m] = "err"]
  /\ UNCHANGED <<life, recovery, archived, disk, calls, callback, accepted,
                 client>>

\* The answer reaches the adapter: the receipt is recorded first, then the
\* waiting call, if it still waits, is resumed.
Respond(m) ==
  LET s == SessionOf[m] IN
  /\ up
  /\ rpc[m] \in {"ok", "err"}
  /\ rpc' = [rpc EXCEPT ![m] = "none"]
  /\ reply' = IF pc[m] \in Calling THEN [reply EXCEPT ![m] = rpc[m]] ELSE reply
  /\ IF callback[s].msg = m
     THEN /\ RecordReceipt(s, callback[s].req,
                           IF rpc[m] = "ok" THEN "sent" ELSE "failed")
          /\ callback' = [callback EXCEPT ![s] = NoCallback]
     ELSE UNCHANGED <<recovery, disk, callback>>
  /\ UNCHANGED <<life, archived, pc, owner, accepted, client>>

\* At most 128 receipts are kept: calls of other threads push this one out.
EvictCallback(s) ==
  /\ up
  /\ callback[s] # NoCallback
  /\ callback' = [callback EXCEPT ![s] = NoCallback]
  /\ UNCHANGED <<life, recovery, archived, disk, calls, provider, client>>

Succeed(m) ==
  /\ pc[m] \in RpcStages \cup {"queue"}
  /\ reply[m] = "ok"
  /\ Finish(m, "sent")
  /\ UNCHANGED <<life, archived, callback, provider, client>>

\* "no active turn to steer": start one.  An active writer, a moved turn, a
\* review or compact turn: hand over to `codex queue`.
SteerRefused(m) ==
  /\ pc[m] = "steer" /\ reply[m] = "err"
  /\ GotoTurn(m, "start") \/ GotoQueue(m) \/ Raise(m)
  /\ UNCHANGED <<life, archived, callback, provider, client>>

StartRefused(m) ==
  /\ pc[m] = "start" /\ reply[m] = "err"
  /\ \/ GotoQueue(m)
     \/ Goto(m, "resume") /\ UNCHANGED <<recovery, disk>>
     \/ Raise(m)
  /\ UNCHANGED <<life, archived, callback, provider, client>>

Resumed(m) ==
  /\ pc[m] = "resume"
  /\ GotoTurn(m, "retry") \/ GotoQueue(m) \/ Raise(m)
  /\ UNCHANGED <<life, archived, callback, provider, client>>

RetryRefused(m) ==
  /\ pc[m] = "retry" /\ reply[m] = "err"
  /\ GotoQueue(m) \/ Raise(m)
  /\ UNCHANGED <<life, archived, callback, provider, client>>

QueueRefused(m) ==
  /\ pc[m] = "queue" /\ reply[m] = "err"
  /\ Raise(m)
  /\ UNCHANGED <<life, archived, callback, provider, client>>

\* The 30 s RPC timeout, a lost connection, a killed subprocess, or the
\* bridge's stop() cancelling the task: the caller gives up, the provider
\* may still take the message.
Abandon(m) ==
  /\ pc[m] \in Calling
  /\ Raise(m)
  /\ UNCHANGED <<life, archived, callback, provider, client>>

-----------------------------------------------------------------------------
(* The rest of the process.                                                *)

\* _handle_recheck_session_send: the saved receipt settles a resolved or
\* unknown request, and nothing is sent.
Recheck(s) ==
  /\ up
  /\ ~archived[s]
  /\ recovery[s].req # NoRequest
  /\ recovery[s].receipt \in {"sent", "failed"}
  /\ recovery[s].status \notin {"preparing", "sending"}
  /\ Checkpoint(s, recovery[s].req, recovery[s].receipt)
  /\ UNCHANGED <<life, archived, calls, callback, provider, client>>

\* commit_session_archive: rolled back in memory when the save raises.
Archive(s) ==
  LET shut == [archived EXCEPT ![s] = TRUE] IN
  /\ up
  /\ ~archived[s]
  /\ \/ /\ archived' = shut
        /\ disk' = Snapshot(recovery, shut)
     \/ /\ UNCHANGED archived
        /\ disk' \in {disk, Snapshot(recovery, shut)}
  /\ UNCHANGED <<life, recovery, calls, callback, provider, client>>

\* Archive repair: the provider reports the session as active.
Unarchive(s) ==
  /\ up /\ Repairs
  /\ archived[s]
  /\ archived' = [archived EXCEPT ![s] = FALSE]
  /\ UNCHANGED <<life, recovery, disk, calls, callback, provider, client>>

\* Any other handler saves the storage.
Flush ==
  /\ up
  /\ disk' = Snapshot(recovery, archived)
  /\ UNCHANGED <<life, recovery, archived, calls, callback, provider, client>>

\* The process dies between any two steps; memory is gone.  While it is down
\* the memory variables show what load_storage will return.
Crash ==
  /\ up
  /\ crashes < MaxCrashes
  /\ up' = FALSE
  /\ crashes' = crashes + 1
  /\ recovery' = disk.recovery
  /\ archived' = disk.archived
  /\ pc' = [m \in Messages |-> "idle"]
  /\ owner' = [m \in Messages |-> NoRequest]
  /\ reply' = [m \in Messages |-> "none"]
  /\ callback' = [s \in Sessions |-> NoCallback]
  /\ UNCHANGED <<disk, provider, client>>

\* Mutant: an interrupted send is restored as failed.
RestoredAsFailed(rec) ==
  [rec EXCEPT !.status = IF @ \in {"preparing", "sending"} THEN "failed" ELSE @]

\* Mutant: a status nothing else knows.
RestoredAsUncertain(rec) ==
  [rec EXCEPT !.status = IF @ = "sending" THEN "uncertain" ELSE @]

\* restore_send_recoveries, before the bridge accepts requests.
Restored(rec) ==
  [rec EXCEPT !.status = CASE @ = "preparing" -> "failed"
                           [] @ = "sending"   -> "unknown"
                           [] OTHER           -> @]

Start ==
  LET rec == [s \in Sessions |-> IF archived[s] THEN recovery[s]
                                 ELSE Restored(recovery[s])]
  IN
  /\ ~up
  /\ up' = TRUE
  /\ recovery' = rec
  /\ \E saved \in SUBSET Sessions :
       disk' = Snapshot([s \in Sessions |-> IF s \in saved THEN rec[s]
                                            ELSE recovery[s]], archived)
  /\ UNCHANGED <<crashes, archived, calls, callback, provider, client>>

-----------------------------------------------------------------------------
Tracked(r) ==
  \/ Submit(r) \/ PrepareFails(r) \/ PrepareDone(r)
  \/ SendRejected(r) \/ SendUnsaved(r) \/ SendBegins(r)

Call(m) ==
  \/ Issue(m) \/ Accept(m) \/ Reject(m) \/ Respond(m)
  \/ Succeed(m) \/ SteerRefused(m) \/ StartRefused(m) \/ Resumed(m)
  \/ RetryRefused(m) \/ QueueRefused(m) \/ Abandon(m)

Session(s) == EvictCallback(s) \/ Recheck(s) \/ Archive(s) \/ Unarchive(s)

Next ==
  \/ \E r \in Requests : Tracked(r)
  \/ \E u \in Untracked : UntrackedSend(u)
  \/ \E m \in Messages : Call(m)
  \/ \E s \in Sessions : Session(s)
  \/ Flush \/ Crash \/ Start

Spec == Init /\ [][Next]_vars

-----------------------------------------------------------------------------
\* A message the provider may still take, or a caller may still hand over.
InFlight(m) == rpc[m] = "flight" \/ pc[m] \in Calling

\* The record a restart would show for session s.
Durable(s) == IF disk.archived[s] THEN disk.recovery[s]
                                  ELSE Restored(disk.recovery[s])

\* "failed" invites the user to send again: the provider has not taken the
\* request and never will, now or after a restart at this very moment.
FailedMeansUndelivered ==
  \A s \in Sessions : \A rec \in {recovery[s], Durable(s)} :
    rec.status = "failed" => accepted[rec.req] = 0 /\ rpc[rec.req] # "flight"

\* "sent" is only ever said of a request the provider took.
SentMeansDelivered ==
  \A s \in Sessions : \A rec \in {recovery[s], Durable(s)} :
    rec.status = "sent" => accepted[rec.req] > 0

\* Neither a repeated submission nor the fallback ladder nor a restart makes
\* the provider take the same request twice.
AtMostOnce == \A r \in Requests : accepted[r] <= 1

\* While the fate of a request is open, no other tracked request of the
\* session is handed to the provider.
OneAtATime ==
  \A r, q \in Requests :
    (r # q /\ SessionOf[r] = SessionOf[q]) => ~(InFlight(r) /\ InFlight(q))

\* Write-ahead: whatever the provider may take has a saved record that a
\* restart turns into "unknown", so that it is never sent again unasked.
WriteAhead ==
  \A r \in Requests :
    InFlight(r) => LET rec == Durable(SessionOf[r]) IN
                   rec.req = r /\ rec.status \in {"sending", "unknown"}

\* A request the provider took is not forgotten while it is the composer's
\* latest: its record survives every failed save and every restart.
DeliveredIsRemembered ==
  \A s \in Sessions : \A rec \in {recovery[s], Durable(s)} :
    LET r == latest[s] IN
    (r # NoRequest /\ accepted[r] > 0)
      => rec.req = r /\ rec.status \in {"sending", "sent", "unknown"}

-----------------------------------------------------------------------------
\* The event loop runs every ready task, every wait has a timeout, and the
\* desktop host restarts a dead sidecar.
Fairness ==
  /\ WF_vars(Start)
  /\ \A r \in Requests :
       /\ WF_vars(PrepareFails(r) \/ PrepareDone(r))
       /\ WF_vars(SendRejected(r) \/ SendUnsaved(r) \/ SendBegins(r))
       /\ WF_vars(Abandon(r))

FairSpec == Spec /\ Fairness

\* A request never stays "preparing" or "sending": it settles, as long as its
\* session is not archived (a restart leaves the records of those alone).
Settles ==
  \A s \in Sessions :
    recovery[s].status \in {"preparing", "sending"}
      ~> \/ recovery[s].status \notin {"preparing", "sending"}
         \/ archived[s]

-----------------------------------------------------------------------------
(* The abstract promise, and what of this state it sees.                   *)

Verdict(status) == IF status \in {"preparing", "sending"} THEN "pending" ELSE status

Promise == INSTANCE HonestDelivery WITH
  out   <- {r \in Requests : InFlight(r) /\ accepted[r] = 0},
  taken <- {r \in Requests : accepted[r] > 0},
  said  <- [s \in Sessions |-> [req     |-> recovery[s].req,
                                verdict |-> Verdict(recovery[s].status)]]

\* The send with its recovery record implements the promise: a request is
\* handed over only when on record, taken at most once, and neither a late
\* answer nor a failed save nor a restart makes its session lie about it.
KeepsPromise == Promise!Spec

-----------------------------------------------------------------------------
(* The inductive invariants of the proofs.  Delivery holds whoever else    *)
(* writes to the session; Truth needs every message to be tracked and an   *)
(* archived session to stay archived.                                      *)

\* A call that is about to be made, and one that was refused, left the
\* provider without the message.
CallsConsistent ==
  \A r \in Requests :
    /\ accepted[r] \in {0, 1}
    /\ rpc[r] = "ok" \/ reply[r] = "ok" => accepted[r] = 1
    /\ \/ rpc[r] \in {"flight", "err"}
       \/ reply[r] = "err"
       \/ pc[r] # "idle" /\ rpc[r] = "none" /\ reply[r] = "none"
       => accepted[r] = 0
    /\ pc[r] \in {"preparing", "queued", "resume"} => rpc[r] = "none"
    /\ pc[r] \in {"idle", "preparing", "queued", "resume"} => reply[r] = "none"
    /\ reply[r] # "none" => rpc[r] = "none"

\* The record belongs to the request whose handler or task is running.
RecordOwned ==
  \A r \in Requests :
    LET s == SessionOf[r] IN
    /\ pc[r] # "idle" => recovery[s].req = r
    /\ pc[r] \in {"preparing", "queued"} => recovery[s].status = "preparing"
    /\ pc[r] \in Calling
         => /\ recovery[s].status = "sending"
            /\ disk.recovery[s].req = r
            /\ disk.recovery[s].status = "sending"

\* An id the composer has not used is unknown everywhere.
IdsFresh ==
  /\ \A r \in Requests \ issued :
       accepted[r] = 0 /\ rpc[r] = "none" /\ pc[r] = "idle"
  /\ \A s \in Sessions :
       latest[s] # NoRequest => latest[s] \in issued /\ SessionOf[latest[s]] = s

\* The composer's latest request, once handed over, is the one on record.
LatestRemembered ==
  \A s \in Sessions :
    LET r == latest[s] IN
    (r # NoRequest /\ (accepted[r] > 0 \/ rpc[r] # "none"))
      => recovery[s].req = r /\ disk.recovery[s].req = r

\* While the process is down nothing runs and the memory variables mirror
\* the disk.
DownMirrors ==
  ~up => /\ recovery = disk.recovery /\ archived = disk.archived
         /\ \A m \in Messages : pc[m] = "idle"

Delivery ==
  /\ TypeOK /\ CallsConsistent /\ RecordOwned /\ IdsFresh
  /\ LatestRemembered /\ DownMirrors

\* What a record of session s, in memory or on disk, may claim.
Sound(s, rec) ==
  /\ rec.req = NoRequest <=> rec.status = "none"
  /\ rec.req = NoRequest => rec.receipt = "none"
  /\ rec.req # NoRequest => SessionOf[rec.req] = s
  /\ rec.status = "sent" \/ rec.receipt = "sent" => accepted[rec.req] = 1
  /\ \/ rec.status \in {"preparing", "failed"}
     \/ rec.receipt = "failed" /\ ~archived[s]
     => accepted[rec.req] = 0 /\ rpc[rec.req] # "flight"

RecordsSound ==
  \A s \in Sessions : Sound(s, recovery[s]) /\ Sound(s, disk.recovery[s])

\* A message in flight is on record, in memory and on disk, as undecided.
Undecided(r, rec) == rec.req = r /\ rec.status \in {"sending", "unknown"}

FlightRecorded ==
  \A r \in Requests : rpc[r] = "flight" =>
    LET s == SessionOf[r] IN
    Undecided(r, recovery[s]) /\ Undecided(r, disk.recovery[s])

\* No stale outcome is on record when a call is about to be made.
NoStaleReceipt(r) ==
  LET s == SessionOf[r] IN
  /\ pc[r] \in {"preparing", "queued"} => recovery[s].receipt = "none"
  /\ pc[r] \in Calling =>
       /\ owner[r] = r
       /\ recovery[s].receipt = "none" => disk.recovery[s].receipt = "none"
  /\ (/\ pc[r] \in RpcStages \cup {"queue"}
      /\ rpc[r] = "none" /\ reply[r] = "none" /\ ~archived[s])
     => /\ recovery[s].receipt \in {"none", "blank"}
        /\ disk.recovery[s].receipt \in {"none", "blank"}

ReceiptReset == \A r \in Requests : NoStaleReceipt(r)

\* A registered callback waits for the answer to its own request.
CallbacksOwn ==
  \A s \in Sessions :
    callback[s] # NoCallback =>
      /\ callback[s].msg \in Requests
      /\ SessionOf[callback[s].msg] = s
      /\ callback[s].req = callback[s].msg
      /\ rpc[callback[s].msg] # "none"

ArchiveDurable == \A s \in Sessions : archived[s] => disk.archived[s]

\* An undecided request is on record on disk too (needed for the promise: a
\* crash must not make the session drop it).
UnresolvedDurable ==
  \A s \in Sessions :
    recovery[s].status \in Unresolved => disk.recovery[s].req = recovery[s].req

Truth ==
  /\ RecordsSound /\ FlightRecorded /\ ReceiptReset /\ CallbacksOwn
  /\ ArchiveDurable
=============================================================================
