-------------------------- MODULE NewSessionProofs --------------------------
(***************************************************************************)
(* Proofs about NewSession, for any requests of the desktop and of         *)
(* Telegram, any that are resumed, and any number of crashes: the provider *)
(* makes one thread for a request and the input is kept until it is there; *)
(* and, where no other client holds an active turn, the first message is   *)
(* taken once and its record tells the truth.                              *)
(***************************************************************************)
EXTENDS NewSession, TLAPS

Asked(r) == spawn[r] # "none" \/ created[r] > 0

\* The provider has the first message, or may get it, or may have refused it.
Out(r)   == ~Steers /\ (rpc[r] # "none" \/ accepted[r] > 0)

AppTask(r) == [req |-> r, by |-> "app"]
Wanted(r)  == Asked(r) \/ pc[AppTask(r)] = "lock"

\* What a record may say of its request.
Honest(record, r) ==
  /\ record.status # "none" => created[r] > 0
  /\ record.status = "none" => record.receipt = "none"
  /\ record.status \in {"none", "pending", "preparing", "failed"} => ~Out(r)
  /\ record.status = "sent" => accepted[r] > 0
  /\ record.receipt = "sent" => accepted[r] > 0
  /\ record.receipt = "failed" /\ ~archived[r] => ~Out(r)

\* The input of r is there.
Kept(p, record, r) ==
  Wanted(r) => \/ p.req = r /\ p.status \in {"preparing", "unknown"}
               \/ record.status # "none"

\* A storage, in memory or on disk, that a restart may find.
Good(p, rs) ==
  /\ p \in Pending /\ rs \in [Requests -> Record]
  /\ \A r \in Requests : Honest(rs[r], r)
  /\ \A r \in AppRequests : Kept(p, rs[r], r)

Stored ==
  /\ Good(pending, rec) /\ Good(disk.pending, disk.rec)
  /\ \A r \in Requests : archived[r] => disk.archived[r]

RequestRight(r) ==
  /\ created[r] <= 1
  /\ spawn[r] = "flight" => created[r] = 0
  /\ spawn[r] = "done" => created[r] = 1
  /\ r \in BotRequests /\ Asked(r) => r \in begun
  /\ callback[r] => Bound(r)
  /\ rpc[r] = "ok" => accepted[r] > 0
  /\ ~Steers => accepted[r] <= 1 /\ (rpc[r] \in {"flight", "err"} => accepted[r] = 0)

Calling == {"turn", "queue"}
Sending == Calling \cup {"prepare"}

\* The call of a task that has no answer yet.
Fresh(record, t) ==
  record.status = "sending" /\ (~Steers /\ reply[t] = "none" /\ ~archived[t.req] => record.receipt # "failed")

TaskRight(t) ==
  LET r == t.req IN
  /\ pc[t] # "idle" => up
  /\ t.by = "bot" /\ pc[t] # "idle" => IF r \in AppRequests THEN Bound(r) ELSE r \in begun
  /\ pc[t] = "lock" /\ ~Bound(r) => ~Asked(r)
  /\ pc[t] = "create" => ~Bound(r)
  /\ pc[t] = "prepare" => rec[r].status = "preparing"
  /\ pc[t] \in Calling => Fresh(rec[r], t) /\ Fresh(disk.rec[r], t)
  /\ reply[t] # "none" => pc[t] \in Calling
  /\ reply[t] = "ok" => accepted[r] > 0
  /\ reply[t] = "err" => ~Out(r)
  /\ pc[t] \in Calling /\ reply[t] = "none" /\ rpc[r] = "none" => ~Out(r)

RequestsRight == \A r \in Requests : RequestRight(r)
TasksRight    == \A t \in Tasks : TaskRight(t)

NewInv == TypeOK /\ Stored /\ OneSender /\ RequestsRight /\ TasksRight

-----------------------------------------------------------------------------
(* The types, in groups.                                                   *)

Disks == [pending : Pending, rec : [Requests -> Record], archived : [Requests -> BOOLEAN]]

LifeTypes ==
  /\ up \in BOOLEAN /\ crashes \in 0 .. MaxCrashes /\ begun \in SUBSET BotRequests
  /\ archived \in [Requests -> BOOLEAN] /\ callback \in [Requests -> BOOLEAN]

TaskTypes ==
  pc \in [Tasks -> Stages] /\ reply \in [Tasks -> {"none", "ok", "err"}]

CallTypes ==
  /\ spawn \in [Requests -> {"none", "flight", "done"}] /\ created \in [Requests -> Nat]
  /\ rpc \in [Requests -> {"none", "flight", "ok", "err"}] /\ accepted \in [Requests -> Nat]

FlatTypes == LifeTypes /\ TaskTypes /\ CallTypes /\ disk \in Disks

\* The parts of the invariant.
LEMMA InvParts ==
  NewInv => /\ FlatTypes /\ Stored /\ OneSender
            /\ (\A r \in Requests : RequestRight(r)) /\ (\A t \in Tasks : TaskRight(t))
BY DEF NewInv, RequestsRight, TasksRight, TypeOK, FlatTypes, LifeTypes, TaskTypes, CallTypes, Disks

\* And the invariant of its parts.
LEMMA InvWhole == FlatTypes /\ Stored /\ OneSender /\ RequestsRight /\ TasksRight => NewInv
<1> SUFFICES ASSUME FlatTypes, Stored, OneSender, RequestsRight, TasksRight
             PROVE  NewInv
  OBVIOUS
<1>1. pending \in Pending /\ rec \in [Requests -> Record]
  BY DEF Stored, Good
<1>2. TypeOK
  BY <1>1 DEF TypeOK, FlatTypes, LifeTypes, TaskTypes, CallTypes, Disks
<1> QED BY <1>2 DEF NewInv

\* A task is of its request and of one of the two actors.
LEMMA TaskFields ==
  ASSUME NEW t \in Tasks
  PROVE  /\ t \in [req : Requests, by : {"app", "bot"}]
         /\ t.req \in Requests /\ t.by \in {"app", "bot"}
         /\ t.by = "app" => t.req \in AppRequests /\ t = AppTask(t.req)
BY DEF Tasks, AppTask

\* Two tasks share a request of the desktop's only, and one of them is the bot's.
LEMMA SameReq ==
  ASSUME NEW t \in Tasks, NEW u \in Tasks, t # u, t.req = u.req
  PROVE  t.req \in AppRequests /\ (t.by = "bot" \/ u.by = "bot")
<1>1. t.by # u.by
  BY TaskFields
<1> QED BY <1>1, TaskFields

\* The desktop's task of a request.
LEMMA AppTaskIs ==
  ASSUME NEW r \in AppRequests
  PROVE  AppTask(r) \in Tasks /\ AppTask(r).req = r /\ AppTask(r).by = "app" /\ r \in Requests
BY DEF AppTask, Tasks, Requests

-----------------------------------------------------------------------------
(* Records and storages.                                                   *)

Marked(rs, r, st) == [rs EXCEPT ![r].status = st]
Noted(rs, r, rc)  == [rs EXCEPT ![r].receipt = rc]

\* A record with another status.
LEMMA StatusSet ==
  ASSUME NEW rs \in [Requests -> Record], NEW r \in Requests, NEW st \in Status
  PROVE  /\ Marked(rs, r, st) \in [Requests -> Record]
         /\ Marked(rs, r, st)[r].status = st
         /\ Marked(rs, r, st)[r].receipt = rs[r].receipt
         /\ \A x \in Requests \ {r} : Marked(rs, r, st)[x] = rs[x]
<1> DEFINE one == [rs[r] EXCEPT !.status = st]
<1>1. one \in Record /\ one.status = st /\ one.receipt = rs[r].receipt
  BY DEF Record
<1>2. Marked(rs, r, st) = [rs EXCEPT ![r] = one]
  BY DEF Marked
<1> HIDE DEF one
<1> QED BY <1>1, <1>2

\* A record with another receipt.
LEMMA ReceiptSet ==
  ASSUME NEW rs \in [Requests -> Record], NEW r \in Requests, NEW rc \in Receipt
  PROVE  /\ Noted(rs, r, rc) \in [Requests -> Record]
         /\ Noted(rs, r, rc)[r].receipt = rc
         /\ Noted(rs, r, rc)[r].status = rs[r].status
         /\ \A x \in Requests \ {r} : Noted(rs, r, rc)[x] = rs[x]
<1> DEFINE one == [rs[r] EXCEPT !.receipt = rc]
<1>1. one \in Record /\ one.receipt = rc /\ one.status = rs[r].status
  BY DEF Record
<1>2. Noted(rs, r, rc) = [rs EXCEPT ![r] = one]
  BY DEF Noted
<1> HIDE DEF one
<1> QED BY <1>1, <1>2

\* What is written is what was asked for.
LEMMA SnapshotIs ==
  ASSUME NEW p, NEW rs
  PROVE  /\ Snapshot(p, rs).pending = p /\ Snapshot(p, rs).rec = rs
         /\ Snapshot(p, rs).archived = archived
         /\ p \in Pending /\ rs \in [Requests -> Record] /\ archived \in [Requests -> BOOLEAN]
              => Snapshot(p, rs) \in Disks
BY DEF Snapshot, Disks

\* A record stays honest as long as the provider does not get more.
LEMMA HonestStays ==
  ASSUME NEW record, NEW r, Honest(record, r),
         created[r] > 0 => created'[r] > 0, Out(r)' => Out(r),
         accepted[r] > 0 => accepted'[r] > 0, archived[r] => archived'[r]
  PROVE  Honest(record, r)'
BY DEF Honest

\* And a storage stays good.
LEMMA GoodStays ==
  ASSUME NEW p, NEW rs, Good(p, rs),
         \A r \in Requests : /\ created[r] > 0 => created'[r] > 0 /\ (Out(r)' => Out(r))
                             /\ accepted[r] > 0 => accepted'[r] > 0
                             /\ archived[r] => archived'[r]
                             /\ Out(r)' => Out(r),
         \A r \in AppRequests : Wanted(r)' => Wanted(r)
  PROVE  Good(p, rs)'
<1>1. \A r \in Requests : Honest(rs[r], r)'
  BY HonestStays DEF Good
<1>2. \A r \in AppRequests : Kept(p, rs[r], r)'
  BY DEF Good, Kept
<1> QED BY <1>1, <1>2 DEF Good

-----------------------------------------------------------------------------
(* What a task may write.                                                  *)

\* A storage that changes the record of t's request only, and not while another
\* task works on its first message.
Over(p, rs, t) ==
  /\ Good(p, rs)
  /\ \A x \in Requests \ {t.req} : rs[x] = rec[x]
  /\ Bound(t.req) => rs[t.req].status # "none"
  /\ pc[t] \notin Sending /\ rec[t.req].status \in {"preparing", "sending"}
       => rs[t.req] = rec[t.req]

Saved(d, t) == d = disk \/ \E q, s : Over(q, s, t) /\ d = Snapshot(q, s)

\* A record that the call of the first message may be made under.
Ready(record, t) ==
  record.status = "sending" /\ (~Steers /\ ~archived[t.req] => record.receipt # "failed")

\* What no such step touches.
Frame(t) ==
  /\ pc[t] # "idle"
  /\ UNCHANGED <<life, archived, callback, created, rpc, accepted, begun>>
  /\ \/ UNCHANGED spawn
     \/ spawn[t.req] = "done" /\ spawn' = [spawn EXCEPT ![t.req] = "none"]

\* As things stand.
LEMMA OverNow ==
  ASSUME NewInv, NEW t \in Tasks
  PROVE  Over(pending, rec, t) /\ Saved(disk, t)
BY InvParts DEF Stored, Over, Saved, Bound

\* Another status.
LEMMA OverStatus ==
  ASSUME NewInv, NEW t \in Tasks, NEW p, NEW rs, Over(p, rs, t), NEW st \in Status \ {"none"},
         st \in {"pending", "preparing", "failed"} => ~Out(t.req),
         st = "sent" => accepted[t.req] > 0, rs[t.req].status # "none",
         pc[t] \in Sending \/ rec[t.req].status \notin {"preparing", "sending"}
  PROVE  Over(p, Marked(rs, t.req, st), t)
<1> DEFINE r == t.req
           new == Marked(rs, r, st)
<1>1. r \in Requests /\ rs \in [Requests -> Record] /\ p \in Pending
  BY TaskFields DEF Over, Good
<1>2. /\ new \in [Requests -> Record] /\ new[r].status = st /\ new[r].receipt = rs[r].receipt
      /\ \A x \in Requests \ {r} : new[x] = rs[x]
  BY <1>1, StatusSet
<1> HIDE DEF new, r
<1>3. Honest(rs[r], r) /\ (\A x \in Requests : Honest(rs[x], x))
  BY <1>1 DEF Over, Good
<1>4. Honest(new[r], r)
  BY <1>2, <1>3 DEF Honest, r
<1>5. \A x \in Requests : Honest(new[x], x)
  BY <1>2, <1>3, <1>4
<1>6. \A x \in AppRequests : Kept(p, new[x], x)
  BY <1>2 DEF Over, Good, Kept, r, Requests
<1>7. Good(p, new)
  BY <1>1, <1>2, <1>5, <1>6 DEF Good
<1> QED BY <1>2, <1>7 DEF Over, r, new

\* Another receipt.
LEMMA OverReceipt ==
  ASSUME NewInv, NEW t \in Tasks, NEW p, NEW rs, Over(p, rs, t), pc[t] \in Sending
  PROVE  Over(p, Noted(rs, t.req, "blank"), t)
<1> DEFINE r == t.req
           new == Noted(rs, r, "blank")
<1>1. r \in Requests /\ rs \in [Requests -> Record] /\ p \in Pending
  BY TaskFields DEF Over, Good
<1>2. /\ new \in [Requests -> Record] /\ new[r].receipt = "blank" /\ new[r].status = rs[r].status
      /\ \A x \in Requests \ {r} : new[x] = rs[x]
  BY <1>1, ReceiptSet DEF Receipt
<1> HIDE DEF new, r
<1>3. Honest(rs[r], r) /\ (\A x \in Requests : Honest(rs[x], x))
  BY <1>1 DEF Over, Good
<1>s. rs[r].status # "none"
  BY InvParts DEF TaskRight, Sending, Fresh, Over, r, Bound
<1>4. Honest(new[r], r)
  BY <1>2, <1>3, <1>s DEF Honest, r
<1>5. \A x \in Requests : Honest(new[x], x)
  BY <1>2, <1>3, <1>4
<1>6. \A x \in AppRequests : Kept(p, new[x], x)
  BY <1>2 DEF Over, Good, Kept, r, Requests
<1>7. Good(p, new)
  BY <1>1, <1>2, <1>5, <1>6 DEF Good
<1> QED BY <1>2, <1>7 DEF Over, r, new

\* A step of a task that neither waits for the lock nor creates a thread next.
LEMMA TaskStep ==
  ASSUME NewInv, NEW t \in Tasks, NEW stage \in Stages \ {"lock", "create"}, NEW p, NEW rs, NEW d,
         Frame(t), Moves(t, stage), pending' = p, rec' = rs, disk' = d,
         Over(p, rs, t), Saved(d, t),
         stage = "prepare" => /\ rs[t.req].status = "preparing"
                              /\ pc[t] \notin Sending
                              /\ rec[t.req].status \notin {"preparing", "sending"},
         stage \in Calling => /\ pc[t] \in Sending
                              /\ Ready(rs[t.req], t) /\ Ready(d.rec[t.req], t)
                              /\ rpc[t.req] = "none" => ~Out(t.req)
  PROVE  NewInv'
<1>1. /\ FlatTypes /\ Stored /\ OneSender
      /\ (\A r \in Requests : RequestRight(r)) /\ (\A u \in Tasks : TaskRight(u))
  BY InvParts
<1>2. t.req \in Requests
  BY TaskFields
<1>3. /\ pc' = [pc EXCEPT ![t] = stage] /\ reply' = [reply EXCEPT ![t] = "none"]
      /\ pc'[t] = stage /\ reply'[t] = "none"
      /\ \A u \in Tasks : u # t => pc'[u] = pc[u] /\ reply'[u] = reply[u]
  BY <1>1 DEF Moves, FlatTypes, TaskTypes
<1>4. /\ up' = up /\ crashes' = crashes /\ archived' = archived /\ callback' = callback
      /\ created' = created /\ rpc' = rpc /\ accepted' = accepted /\ begun' = begun
      /\ pc[t] # "idle"
  BY DEF Frame, life
<1>5. \A r \in Requests : Out(r)' = Out(r)
  BY <1>4 DEF Out
<1>6. /\ spawn' \in [Requests -> {"none", "flight", "done"}]
      /\ \A r \in Requests : /\ spawn'[r] = spawn[r] \/ (spawn'[r] = "none" /\ spawn[r] = "done")
                             /\ Asked(r)' = Asked(r)
  <2>1. /\ spawn' \in [Requests -> {"none", "flight", "done"}]
        /\ \A r \in Requests : spawn'[r] = spawn[r] \/ (spawn'[r] = "none" /\ spawn[r] = "done")
    BY <1>1, <1>2 DEF Frame, FlatTypes, CallTypes
  <2>2. \A r \in Requests : spawn[r] = "done" => created[r] > 0
    BY <1>1 DEF RequestRight
  <2> QED BY <1>4, <2>1, <2>2 DEF Asked
<1>7. \A r \in AppRequests : Wanted(r)' => Wanted(r)
  <2> SUFFICES ASSUME NEW r \in AppRequests, Wanted(r)'
               PROVE  Wanted(r)
    OBVIOUS
  <2>1. r \in Requests /\ AppTask(r) \in Tasks
    BY AppTaskIs
  <2>2. Asked(r) \/ pc'[AppTask(r)] = "lock"
    BY <1>6, <2>1 DEF Wanted, AppTask
  <2>3. pc'[AppTask(r)] = "lock" => pc[AppTask(r)] = "lock"
    BY <1>3, <2>1
  <2> QED BY <2>2, <2>3 DEF Wanted
<1>8. ASSUME NEW q, NEW s, Good(q, s)
      PROVE  Good(q, s)'
  BY <1>4, <1>5, <1>7, <1>8, GoodStays
<1>9. Good(pending, rec)'
  <2>1. Good(p, rs)'
    BY <1>8 DEF Over
  <2> QED BY <2>1
<1>10. /\ d \in Disks /\ Good(d.pending, d.rec)
       /\ \A r \in Requests : archived[r] => d.archived[r]
       /\ \A x \in Requests \ {t.req} : d.rec[x] \in {rec[x], disk.rec[x]}
       /\ pc[t] \notin Sending /\ rec[t.req].status \in {"preparing", "sending"}
            => d.rec[t.req] \in {rec[t.req], disk.rec[t.req]}
  <2>1. CASE d = disk
    BY <1>1, <2>1 DEF Stored, FlatTypes
  <2>2. CASE \E q, s : Over(q, s, t) /\ d = Snapshot(q, s)
    <3>1. PICK q, s : Over(q, s, t) /\ d = Snapshot(q, s)
      BY <2>2
    <3>2. d.pending = q /\ d.rec = s /\ d.archived = archived /\ d \in Disks
      BY <1>1, <3>1, SnapshotIs DEF Over, Good, FlatTypes, LifeTypes
    <3> QED BY <1>2, <3>1, <3>2 DEF Over
  <2> QED BY <2>1, <2>2 DEF Saved
<1>11. Stored'
  <2>1. Good(d.pending, d.rec)'
    BY <1>8, <1>10
  <2> QED BY <1>4, <1>9, <1>10, <2>1 DEF Stored
<1>12. FlatTypes'
  <2>1. LifeTypes'
    BY <1>1, <1>4 DEF FlatTypes, LifeTypes
  <2>2. TaskTypes'
    BY <1>1, <1>3 DEF FlatTypes, TaskTypes
  <2>3. CallTypes'
    BY <1>1, <1>4, <1>6 DEF FlatTypes, CallTypes
  <2> QED BY <1>10, <2>1, <2>2, <2>3 DEF FlatTypes
<1>13. ASSUME NEW u \in Tasks, u # t, u.req = t.req, pc[u] \in Sending
       PROVE  pc[t] \notin Sending /\ rec[t.req].status \in {"preparing", "sending"}
  <2>1. pc[t] \notin Sending
    BY <1>1, <1>13 DEF OneSender, Sending, Calling
  <2> QED BY <1>1, <1>13, <2>1 DEF TaskRight, Sending, Fresh
<1>14. OneSender'
  <2> SUFFICES ASSUME NEW a \in Tasks, NEW b \in Tasks, a # b, a.req = b.req,
                      pc'[a] \in Sending, pc'[b] \in Sending
               PROVE  FALSE
    BY DEF OneSender, Sending, Calling
  <2>1. CASE a # t /\ b # t
    BY <1>1, <1>3, <2>1 DEF OneSender, Sending, Calling
  <2>2. ASSUME NEW u \in Tasks, u # t, u.req = t.req, pc'[u] \in Sending, stage \in Sending
        PROVE  FALSE
    BY <1>3, <1>13, <2>2 DEF Sending
  <2> QED BY <1>3, <2>1, <2>2
<1>16. \A r \in Requests : Bound(r) => Bound(r)'
  BY DEF Over, Bound
<1>15. ASSUME NEW r \in Requests
       PROVE  RequestRight(r)'
  BY <1>1, <1>4, <1>6, <1>16 DEF RequestRight
<1>17. TaskRight(t)'
  <2>1. TaskRight(t) /\ stage \notin {"lock", "create"}
    BY <1>1
  <2>2. Ready(rs[t.req], t) => Fresh(rec[t.req], t)'
    BY <1>4 DEF Ready, Fresh
  <2>3. Ready(d.rec[t.req], t) => Fresh(disk.rec[t.req], t)'
    BY <1>4 DEF Ready, Fresh
  <2> QED BY <1>2, <1>3, <1>4, <1>5, <1>16, <2>1, <2>2, <2>3 DEF TaskRight
<1>18. ASSUME NEW u \in Tasks, u # t
       PROVE  TaskRight(u)'
  <2>1. u.req \in Requests /\ TaskRight(u)
    BY <1>1, TaskFields
  <2>2. pc[u] = "create" => u.req # t.req
    BY <1>1, <1>4, <1>18, SameReq DEF TaskRight
  <2>3. u.req # t.req => rec'[u.req] = rec[u.req]
    BY <2>1 DEF Over
  <2>4. pc[u] \in Sending => /\ rec'[u.req] = rec[u.req]
                             /\ disk'.rec[u.req] \in {rec[u.req], disk.rec[u.req]}
    BY <1>10, <1>13, <1>18, <2>1 DEF Over
  <2>5. pc[u] \in Calling => Fresh(rec[u.req], u)' /\ Fresh(disk.rec[u.req], u)'
    BY <1>3, <1>4, <1>18, <2>1, <2>4 DEF TaskRight, Fresh, Sending
  <2>6. pc[u] = "create" => ~Bound(u.req)'
    BY <2>1, <2>2, <2>3 DEF TaskRight, Bound
  <2>7. pc[u] = "prepare" => rec'[u.req].status = "preparing"
    BY <2>1, <2>4 DEF TaskRight, Sending
  <2> QED BY <1>3, <1>4, <1>5, <1>6, <1>16, <1>18, <2>1, <2>5, <2>6, <2>7 DEF TaskRight
<1>19. RequestsRight' /\ TasksRight'
  BY <1>15, <1>17, <1>18 DEF RequestsRight, TasksRight
<1> QED BY <1>11, <1>12, <1>14, <1>19, InvWhole, PTL
-----------------------------------------------------------------------------
(* The tasks that write.                                                   *)

\* Nothing is written that may not be.
LEMMA SavedIs ==
  ASSUME NEW t \in Tasks, NEW p, NEW rs, Over(p, rs, t)
  PROVE  Saved(Snapshot(p, rs), t)
BY DEF Saved

\* A task that ends by an exception.
LEMMA EndsStep ==
  ASSUME NewInv, NEW t \in Tasks, Frame(t), NEW p, NEW rs, NEW first,
         Over(p, rs, t), \A d \in first : Saved(d, t), EndsAfter(t, p, rs, first)
  PROVE  NewInv'
<1>1. PICK d : disk' = d /\ Saved(d, t)
  BY SavedIs DEF EndsAfter
<1>2. Moves(t, "idle") /\ pending' = p /\ rec' = rs
  BY DEF EndsAfter
<1>3. "idle" \in Stages \ {"lock", "create"} /\ "idle" # "prepare" /\ "idle" \notin Calling
  BY DEF Stages, Calling
<1> QED BY <1>1, <1>2, <1>3, TaskStep

\* A task that ends with the outcome on record.
LEMMA CheckpointStep ==
  ASSUME NewInv, NEW t \in Tasks, Frame(t), pc[t] \in Sending, NEW st \in Status \ {"none"},
         st \in {"pending", "preparing", "failed"} => ~Out(t.req),
         st = "sent" => accepted[t.req] > 0, Checkpoint(t, st)
  PROVE  NewInv'
<1> DEFINE new == Marked(rec, t.req, st)
<1>1. new = WithStatus(t.req, st)
  BY DEF Marked, WithStatus
<1>2. rec[t.req].status # "none"
  BY InvParts DEF TaskRight, Sending, Fresh
<1>3. Over(pending, new, t)
  BY <1>2, OverNow, OverStatus
<1> HIDE DEF new
<1>4. EndsAfter(t, pending, new, {disk, Snapshot(pending, new)})
  BY <1>1 DEF Checkpoint
<1>5. \A d \in {disk, Snapshot(pending, new)} : Saved(d, t)
  BY <1>3, OverNow, SavedIs
<1> QED BY <1>3, <1>4, <1>5, EndsStep

\* The first message, up to its first await.
LEMMA FirstMessageStep ==
  ASSUME NewInv, NEW t \in Tasks, Frame(t), pc[t] \notin Sending, NEW p, NEW rs, NEW d,
         Over(p, rs, t), Saved(d, t), FirstMessage(t, p, rs, d)
  PROVE  NewInv'
<1> DEFINE r == t.req
           preparing == Marked(rs, r, "preparing")
           again     == Marked(rs, r, "pending")
<1>0. r \in Requests /\ rs \in [Requests -> Record] /\ "idle" \in Stages \ {"lock", "create"}
      /\ "prepare" \in Stages \ {"lock", "create"} /\ "idle" # "prepare"
      /\ "idle" \notin Calling /\ "prepare" \notin Calling
  BY TaskFields DEF Over, Good, Stages, Calling
<1>1. CASE /\ rs[r].status = "sent" /\ pending' = p /\ rec' = rs
           /\ disk' \in {d, Snapshot(p, rs)} /\ Moves(t, "idle")
  <2>1. Saved(disk', t)
    BY <1>1, SavedIs
  <2>2. PICK e : e = disk' /\ Saved(e, t)
    BY <2>1
  <2> QED BY <1>0, <1>1, <2>2, TaskStep
<1>2. CASE EndsAfter(t, p, rs, {d})
  BY <1>2, EndsStep
<1>3. CASE /\ rs[r].status \in {"pending", "failed"}
           /\ \/ /\ pending' = p /\ rec' = preparing /\ Saves(p, preparing) /\ Moves(t, "prepare")
              \/ EndsAfter(t, p, again, {d, Snapshot(p, preparing)})
  <2>1. ~Out(r) /\ rs[r].status # "none"
    BY <1>0, <1>3 DEF Over, Good, Honest
  <2>2. rec[r].status \notin {"preparing", "sending"}
    BY <1>3 DEF Over
  <2>3. Over(p, preparing, t) /\ Over(p, again, t)
    BY <2>1, <2>2, OverStatus DEF Status
  <2>4. preparing[r].status = "preparing"
    BY <1>0, StatusSet DEF Status
  <2> HIDE DEF preparing, again
  <2>5. CASE /\ pending' = p /\ rec' = preparing /\ Saves(p, preparing) /\ Moves(t, "prepare")
    <3>1. PICK e : e = disk' /\ Saved(e, t)
      BY <2>3, <2>5, SavedIs DEF Saves
    <3> QED BY <1>0, <2>2, <2>3, <2>4, <2>5, <3>1, TaskStep
  <2>6. CASE EndsAfter(t, p, again, {d, Snapshot(p, preparing)})
    <3>1. \A e \in {d, Snapshot(p, preparing)} : Saved(e, t)
      BY <2>3, SavedIs
    <3> QED BY <2>3, <2>6, <3>1, EndsStep
  <2> QED BY <1>3, <2>5, <2>6
<1>4. \/ /\ rs[r].status = "sent" /\ pending' = p /\ rec' = rs
         /\ disk' \in {d, Snapshot(p, rs)} /\ Moves(t, "idle")
      \/ EndsAfter(t, p, rs, {d})
      \/ /\ rs[r].status \in {"pending", "failed"}
         /\ \/ /\ pending' = p /\ rec' = preparing /\ Saves(p, preparing) /\ Moves(t, "prepare")
            \/ EndsAfter(t, p, again, {d, Snapshot(p, preparing)})
  BY DEF FirstMessage, Marked
<1> QED BY <1>1, <1>2, <1>3, <1>4

\* The caller of start_real_provider_thread has its thread.
LEMMA HasThreadStep ==
  ASSUME NewInv, NEW t \in Tasks, Frame(t), pc[t] \notin Sending, NEW rs, NEW d,
         Over(pending, rs, t), rs[t.req].status # "none", Saved(d, t), HasThread(t, rs, d)
  PROVE  NewInv'
<1>1. ASSUME NEW p, p = pending \/ (t.by = "app" /\ pending.req = t.req /\ p = NoPending),
             FirstMessage(t, p, rs, d)
      PROVE  NewInv'
  <2>1. CASE p = pending
    BY <1>1, <2>1, FirstMessageStep
  <2>2. CASE pending.req = t.req /\ p = NoPending
    <3>1. p \in Pending
      BY <2>2 DEF NoPending, Pending
    <3>2. \A x \in AppRequests : Kept(p, rs[x], x)
      BY <2>2 DEF Over, Good, Kept
    <3>3. Over(p, rs, t)
      BY <3>1, <3>2 DEF Over, Good
    <3> QED BY <1>1, <3>3, FirstMessageStep
  <2> QED BY <1>1, <2>1, <2>2
<1>2. CASE Moves(t, "bind") /\ pending' = pending /\ rec' = rs /\ disk' = d
  <2>1. "bind" \in Stages \ {"lock", "create"} /\ "bind" # "prepare" /\ "bind" \notin Calling
    BY DEF Stages, Calling
  <2>2. PICK p : p = pending
    OBVIOUS
  <2> QED BY <1>2, <2>1, <2>2, TaskStep
<1> QED BY <1>1, <1>2 DEF HasThread

\* The thread is known already and the lock is given back.
LEMMA ReuseStep == ASSUME NewInv, NEW t \in Tasks, Reuse(t) PROVE NewInv'
<1>1. Frame(t) /\ pc[t] \notin Sending /\ HasThread(t, rec, disk) /\ rec[t.req].status # "none"
  BY DEF Reuse, Frame, provider, Sending, Calling, Bound
<1>2. PICK rs, d : rs = rec /\ d = disk
  OBVIOUS
<1> QED BY <1>1, <1>2, OverNow, HasThreadStep

\* The thread of a request that just got it.
NewThread(r, st) == [rec EXCEPT ![r] = [status |-> st, receipt |-> "none"]]

\* The provider made the thread.
LEMMA CreateDoneStep == ASSUME NewInv, NEW t \in Tasks, CreateDone(t) PROVE NewInv'
<1> DEFINE r == t.req
<1>0. /\ FlatTypes /\ Stored /\ OneSender /\ r \in Requests /\ TaskRight(t) /\ RequestRight(r)
      /\ rec \in [Requests -> Record]
  BY InvParts, TaskFields DEF Stored, Good
<1>1. /\ pc[t] = "create" /\ spawn[r] = "done" /\ spawn' = [spawn EXCEPT ![r] = "none"]
      /\ UNCHANGED <<life, archived, callback, created, rpc, accepted, begun>>
      /\ \/ HasThread(t, NewThread(r, "pending"), Snapshot(pending, NewThread(r, "pending")))
         \/ \E st \in {"pending", "failed"} :
              EndsAfter(t, pending, NewThread(r, st),
                {disk, Snapshot(pending, NewThread(r, "pending")), Snapshot(pending, NewThread(r, st))})
  BY DEF CreateDone, NewThread
<1>2. Frame(t) /\ pc[t] \notin Sending
  BY <1>1 DEF Frame, Sending, Calling
<1>3. rec[r].status = "none" /\ created[r] > 0
  BY <1>0, <1>1 DEF TaskRight, RequestRight, Bound
<1>4. Over(pending, rec, t) /\ ~Out(r)
  BY <1>0, <1>3, OverNow DEF Over, Good, Honest
<1>5. ASSUME NEW st \in {"pending", "failed"}
      PROVE  Over(pending, NewThread(r, st), t) /\ NewThread(r, st)[r].status # "none"
  <2> DEFINE new == NewThread(r, st)
             one == [status |-> st, receipt |-> "none"]
  <2>1. one \in Record /\ one.status = st /\ one.receipt = "none"
    BY DEF Record, Status, Receipt
  <2>2. new = [rec EXCEPT ![r] = one]
    BY DEF NewThread
  <2> HIDE DEF one, new
  <2>3. new \in [Requests -> Record] /\ new[r] = one /\ \A x \in Requests \ {r} : new[x] = rec[x]
    BY <1>0, <2>1, <2>2
  <2>4. \A x \in Requests : Honest(rec[x], x)
    BY <1>4 DEF Over, Good
  <2>5. Honest(new[r], r)
    BY <1>3, <1>4, <2>1, <2>3 DEF Honest
  <2>6. \A x \in Requests : Honest(new[x], x)
    BY <2>3, <2>4, <2>5
  <2>7. \A x \in AppRequests : Kept(pending, new[x], x)
    BY <1>4, <2>1, <2>3 DEF Over, Good, Kept, Requests
  <2>8. Good(pending, new)
    BY <1>4, <2>3, <2>6, <2>7 DEF Over, Good
  <2>9. new[r].status # "none"
    BY <2>1, <2>3
  <2> QED BY <1>3, <2>3, <2>8, <2>9 DEF Over, new, Bound
<1>6. CASE HasThread(t, NewThread(r, "pending"), Snapshot(pending, NewThread(r, "pending")))
  <2>1. PICK rs : rs = NewThread(r, "pending")
    OBVIOUS
  <2>2. Over(pending, rs, t) /\ rs[r].status # "none"
    BY <1>5, <2>1
  <2>3. PICK d : d = Snapshot(pending, rs) /\ Saved(d, t)
    BY <2>2, SavedIs
  <2> QED BY <1>2, <1>6, <2>1, <2>2, <2>3, HasThreadStep
<1>7. ASSUME NEW st \in {"pending", "failed"},
             EndsAfter(t, pending, NewThread(r, st),
               {disk, Snapshot(pending, NewThread(r, "pending")), Snapshot(pending, NewThread(r, st))})
      PROVE  NewInv'
  <2>1. PICK p, rs, first :
          /\ p = pending /\ rs = NewThread(r, st)
          /\ first = {disk, Snapshot(pending, NewThread(r, "pending")),
                      Snapshot(pending, NewThread(r, st))}
    OBVIOUS
  <2>2. \A d \in first : Saved(d, t)
    BY <1>5, <2>1, OverNow, SavedIs
  <2> QED BY <1>2, <1>5, <1>7, <2>1, <2>2, EndsStep
<1> QED BY <1>1, <1>6, <1>7

\* Telegram made the topic of the thread.
LEMMA TopicDoneStep == ASSUME NewInv, NEW t \in Tasks, TopicDone(t) PROVE NewInv'
<1>1. Frame(t) /\ pc[t] \notin Sending
  BY DEF TopicDone, Frame, provider, Sending, Calling
<1>2. CASE FirstMessage(t, pending, rec, Snapshot(pending, rec))
  <2>1. PICK p, rs, d : p = pending /\ rs = rec /\ d = Snapshot(pending, rec)
    OBVIOUS
  <2> QED BY <1>1, <1>2, <2>1, OverNow, SavedIs, FirstMessageStep
<1>3. CASE EndsAfter(t, pending, rec, {disk})
  <2>1. PICK p, rs, first : p = pending /\ rs = rec /\ first = {disk}
    OBVIOUS
  <2> QED BY <1>1, <1>3, <2>1, OverNow, EndsStep
<1> QED BY <1>2, <1>3 DEF TopicDone

\* A creation that fails leaves the input behind.
LEMMA CreateFailsStep == ASSUME NewInv, NEW t \in Tasks, CreateFails(t) PROVE NewInv'
<1> DEFINE unknown == [pending EXCEPT !.status = "unknown"]
<1>1. /\ pc[t] = "create" /\ Moves(t, "idle") /\ rec' = rec
      /\ \/ t.by = "app" /\ pending.req = t.req /\ pending' = unknown /\ MaySave(unknown, rec)
         \/ UNCHANGED <<pending, disk>>
  BY DEF CreateFails
<1>2. Frame(t)
  BY <1>1 DEF CreateFails, Frame, provider
<1>3. "idle" \in Stages \ {"lock", "create"} /\ "idle" # "prepare" /\ "idle" \notin Calling
  BY DEF Stages, Calling
<1>4. CASE t.by = "app" /\ pending.req = t.req /\ pending' = unknown /\ MaySave(unknown, rec)
  <2>1. pending \in Pending
    BY OverNow DEF Over, Good
  <2>2. unknown \in Pending /\ unknown.req = pending.req /\ unknown.status = "unknown"
    BY <2>1 DEF Pending
  <2> HIDE DEF unknown
  <2>3. \A x \in AppRequests : Kept(unknown, rec[x], x)
    BY <2>2, OverNow DEF Over, Good, Kept
  <2>4. Over(unknown, rec, t)
    BY <2>2, <2>3, OverNow DEF Over, Good
  <2>5. PICK p, rs, d : p = unknown /\ rs = rec /\ d = disk' /\ Saved(d, t)
    BY <1>4, <2>4, OverNow, SavedIs DEF MaySave
  <2> QED BY <1>1, <1>2, <1>3, <1>4, <2>4, <2>5, TaskStep
<1>5. CASE UNCHANGED <<pending, disk>>
  <2>1. PICK p, rs, d : p = pending /\ rs = rec /\ d = disk
    OBVIOUS
  <2> QED BY <1>1, <1>2, <1>3, <1>5, <2>1, OverNow, TaskStep
<1> QED BY <1>1, <1>4, <1>5

\* What a task that works on the first message knows.
LEMMA SenderKnows ==
  ASSUME NewInv, NEW t \in Tasks, pc[t] \in Sending
  PROVE  /\ t.req \in Requests /\ rec \in [Requests -> Record]
         /\ rec[t.req].status # "none" /\ Over(pending, rec, t) /\ Honest(rec[t.req], t.req)
BY InvParts, OverNow, TaskFields DEF TaskRight, Sending, Fresh, Over, Good

\* The first message is given up before the provider is called.
LEMMA PrepareRejectedStep == ASSUME NewInv, NEW t \in Tasks, PrepareRejected(t) PROVE NewInv'
<1> DEFINE r == t.req
           failed  == Marked(rec, r, "failed")
           sending == Marked(rec, r, "sending")
<1>1. pc[t] = "prepare" /\ Frame(t) /\ pc[t] \in Sending
  BY DEF PrepareRejected, Frame, provider, Sending
<1>2. ~Out(r) /\ "failed" \in Status \ {"none"} /\ "sending" \in Status \ {"none"}
  BY <1>1, SenderKnows, InvParts DEF TaskRight, Honest, Status
<1>3. CASE Checkpoint(t, "failed")
  BY <1>1, <1>2, <1>3, CheckpointStep
<1>4. CASE EndsAfter(t, pending, failed,
             {disk, Snapshot(pending, sending), Snapshot(pending, failed)})
  <2>1. Over(pending, failed, t) /\ Over(pending, sending, t)
    BY <1>1, <1>2, SenderKnows, OverStatus
  <2> HIDE DEF failed, sending
  <2>2. \A d \in {disk, Snapshot(pending, sending), Snapshot(pending, failed)} : Saved(d, t)
    BY <2>1, OverNow, SavedIs
  <2> QED BY <1>1, <1>4, <2>1, <2>2, EndsStep
<1> QED BY <1>3, <1>4 DEF PrepareRejected, WithStatus, Marked

\* The record says sending and the provider is called next.
LEMMA PrepareDoneStep == ASSUME NewInv, NEW t \in Tasks, PrepareDone(t) PROVE NewInv'
<1> DEFINE r == t.req
           sending == Marked(rec, r, "sending")
           blank   == Noted(sending, r, "blank")
           unknown == Marked(blank, r, "unknown")
<1>1. pc[t] = "prepare" /\ Frame(t) /\ pc[t] \in Sending
  BY DEF PrepareDone, Frame, provider, Sending
<1>2. \/ /\ rec[r].receipt = "none" \/ Steers
         /\ rec' = sending /\ Saves(pending, sending) /\ Moves(t, "turn") /\ UNCHANGED pending
      \/ rec' = blank /\ Saves(pending, blank) /\ Moves(t, "turn") /\ UNCHANGED pending
      \/ EndsAfter(t, pending, unknown,
           {Snapshot(pending, sending), Snapshot(pending, blank), Snapshot(pending, unknown)})
  BY DEF PrepareDone, WithStatus, Marked, Noted
<1>3. ~Out(r) /\ "unknown" \in Status \ {"none"} /\ "sending" \in Status \ {"none"}
      /\ "blank" \in Receipt
  BY <1>1, SenderKnows, InvParts DEF TaskRight, Honest, Status, Receipt
<1>4. /\ Over(pending, sending, t)
      /\ sending \in [Requests -> Record]
      /\ sending[r].status = "sending" /\ sending[r].receipt = rec[r].receipt
  BY <1>1, <1>3, SenderKnows, OverStatus, StatusSet
<1> HIDE DEF sending
<1>5. /\ Over(pending, blank, t)
      /\ blank[r].status = "sending" /\ blank[r].receipt = "blank"
  BY <1>1, <1>3, <1>4, SenderKnows, OverReceipt, ReceiptSet
<1> HIDE DEF blank
<1>6. Over(pending, unknown, t)
  BY <1>1, <1>3, <1>5, OverStatus
<1> HIDE DEF unknown
<1>7. "turn" \in Stages \ {"lock", "create"} /\ "turn" # "prepare" /\ "turn" \in Calling
  BY DEF Stages, Calling
<1>8. ASSUME NEW rs, Over(pending, rs, t), Ready(rs[r], t),
             rec' = rs, Saves(pending, rs), Moves(t, "turn"), UNCHANGED pending
      PROVE  NewInv'
  <2>1. PICK d : d = Snapshot(pending, rs) /\ Saved(d, t) /\ d.rec = rs
    BY <1>8, SavedIs, SnapshotIs
  <2>2. PICK p : p = pending
    OBVIOUS
  <2> QED BY <1>1, <1>3, <1>7, <1>8, <2>1, <2>2, TaskStep DEF Saves
<1>9. CASE /\ rec[r].receipt = "none" \/ Steers
           /\ rec' = sending /\ Saves(pending, sending) /\ Moves(t, "turn") /\ UNCHANGED pending
  BY <1>4, <1>8, <1>9 DEF Ready
<1>10. CASE rec' = blank /\ Saves(pending, blank) /\ Moves(t, "turn") /\ UNCHANGED pending
  BY <1>5, <1>8, <1>10 DEF Ready
<1>11. CASE EndsAfter(t, pending, unknown,
              {Snapshot(pending, sending), Snapshot(pending, blank), Snapshot(pending, unknown)})
  <2>1. \A d \in {Snapshot(pending, sending), Snapshot(pending, blank), Snapshot(pending, unknown)} :
          Saved(d, t)
    BY <1>4, <1>5, <1>6, SavedIs
  <2> QED BY <1>1, <1>6, <1>11, <2>1, EndsStep
<1> QED BY <1>2, <1>9, <1>10, <1>11

\* The call was answered and the request is marked.
LEMMA SucceedStep == ASSUME NewInv, NEW t \in Tasks, Succeed(t) PROVE NewInv'
<1>1. Frame(t) /\ pc[t] \in Sending /\ reply[t] = "ok" /\ Checkpoint(t, "sent")
  BY DEF Succeed, Frame, provider, Sending, Calling
<1>2. accepted[t.req] > 0 /\ "sent" \in Status \ {"none"}
  BY <1>1, InvParts DEF TaskRight, Status
<1> QED BY <1>1, <1>2, CheckpointStep

\* The call was refused: another one follows, or the request is failed.
LEMMA RefusedStep == ASSUME NewInv, NEW t \in Tasks, Refused(t) PROVE NewInv'
<1> DEFINE r == t.req
           blank   == Noted(rec, r, "blank")
           unknown == Marked(blank, r, "unknown")
<1>1. pc[t] \in Calling /\ Frame(t) /\ pc[t] \in Sending /\ reply[t] = "err"
  BY DEF Refused, Frame, provider, Sending, Calling
<1>2. \/ Checkpoint(t, "unknown")
      \/ /\ \/ archived[r] /\ UNCHANGED <<rec, disk>>
            \/ ~archived[r] /\ rec' = blank /\ Saves(pending, blank)
         /\ \E stage \in Calling : Moves(t, stage)
         /\ UNCHANGED pending
      \/ EndsAfter(t, pending, unknown,
           {disk, Snapshot(pending, blank), Snapshot(pending, unknown)})
  BY DEF Refused, Raise, Marked, Noted, Calling
<1>3. /\ ~Out(r) /\ rec[r].status = "sending" /\ disk.rec[r].status = "sending"
      /\ "unknown" \in Status \ {"none"} /\ "blank" \in Receipt
  BY <1>1, InvParts DEF TaskRight, Fresh, Status, Receipt
<1>4. /\ Over(pending, blank, t)
      /\ blank[r].status = "sending" /\ blank[r].receipt = "blank"
  BY <1>1, <1>3, SenderKnows, OverReceipt, ReceiptSet
<1> HIDE DEF blank
<1>5. Over(pending, unknown, t)
  BY <1>1, <1>3, <1>4, OverStatus
<1> HIDE DEF unknown
<1>6. CASE Checkpoint(t, "unknown")
  BY <1>1, <1>3, <1>6, CheckpointStep
<1>7. ASSUME NEW rs, NEW d, Over(pending, rs, t), Saved(d, t), Ready(rs[r], t), Ready(d.rec[r], t),
             rec' = rs, disk' = d, UNCHANGED pending, NEW stage \in Calling, Moves(t, stage)
      PROVE  NewInv'
  <2>1. stage \in Stages \ {"lock", "create"} /\ stage # "prepare"
    BY DEF Stages, Calling
  <2>2. PICK p : p = pending
    OBVIOUS
  <2> QED BY <1>1, <1>3, <1>7, <2>1, <2>2, TaskStep
<1>8. ASSUME archived[r], UNCHANGED <<rec, disk>>, UNCHANGED pending,
             NEW stage \in Calling, Moves(t, stage)
      PROVE  NewInv'
  <2>1. PICK rs, d : rs = rec /\ d = disk
    OBVIOUS
  <2>2. Ready(rs[r], t) /\ Ready(d.rec[r], t)
    BY <1>3, <1>8, <2>1 DEF Ready
  <2> QED BY <1>7, <1>8, <2>1, <2>2, OverNow
<1>9. ASSUME rec' = blank, Saves(pending, blank), UNCHANGED pending,
             NEW stage \in Calling, Moves(t, stage)
      PROVE  NewInv'
  <2>1. PICK rs, d : rs = blank /\ d = Snapshot(pending, rs) /\ Saved(d, t) /\ d.rec = rs
    BY <1>4, SavedIs, SnapshotIs
  <2>2. Ready(rs[r], t)
    BY <1>4, <2>1 DEF Ready
  <2> QED BY <1>4, <1>7, <1>9, <2>1, <2>2 DEF Saves
<1>10. CASE EndsAfter(t, pending, unknown,
              {disk, Snapshot(pending, blank), Snapshot(pending, unknown)})
  <2>1. \A d \in {disk, Snapshot(pending, blank), Snapshot(pending, unknown)} : Saved(d, t)
    BY <1>4, <1>5, OverNow, SavedIs
  <2> QED BY <1>1, <1>5, <1>10, <2>1, EndsStep
<1> QED BY <1>2, <1>6, <1>8, <1>9, <1>10

\* A call times out, or its task is cancelled.
LEMMA AbandonStep == ASSUME NewInv, NEW t \in Tasks, Abandon(t) PROVE NewInv'
<1>1. Frame(t) /\ pc[t] \in Sending /\ Checkpoint(t, "unknown")
  BY DEF Abandon, Raise, Frame, provider, Sending, Calling
<1>2. "unknown" \in Status \ {"none"}
  BY DEF Status
<1> QED BY <1>1, <1>2, CheckpointStep

-----------------------------------------------------------------------------
(* The steps that write outside of any task.                               *)

\* Any step that writes the storage and leaves the tasks alone.
LEMMA StoreStep ==
  ASSUME NewInv, NEW p, NEW rs, NEW d \in Disks, NEW a \in [Requests -> BOOLEAN],
         UNCHANGED <<life, tasks, callback, provider, begun>>,
         pending' = p, rec' = rs, disk' = d, archived' = a,
         \A x \in Requests : (archived[x] => a[x]) /\ (a[x] => d.archived[x]),
         Good(p, rs), Good(d.pending, d.rec),
         \A x \in Requests : rs[x].status = "none" <=> rec[x].status = "none",
         \A x \in Requests : rec[x].status \in {"preparing", "sending"} =>
           rs[x] = rec[x] /\ d.rec[x] \in {disk.rec[x], rec[x]}
  PROVE  NewInv'
<1>1. /\ FlatTypes /\ Stored /\ OneSender
      /\ (\A r \in Requests : RequestRight(r)) /\ (\A u \in Tasks : TaskRight(u))
  BY InvParts
<1>2. /\ up' = up /\ crashes' = crashes /\ callback' = callback /\ begun' = begun
      /\ created' = created /\ rpc' = rpc /\ accepted' = accepted /\ spawn' = spawn
      /\ pc' = pc /\ reply' = reply
  BY DEF life, tasks, provider
<1>3. \A r \in Requests : Out(r)' = Out(r) /\ Asked(r)' = Asked(r)
  BY <1>2 DEF Out, Asked
<1>4. \A r \in AppRequests : Wanted(r)' => Wanted(r)
  BY <1>2, <1>3, AppTaskIs DEF Wanted, AppTask
<1>5. ASSUME NEW q, NEW s, Good(q, s)
      PROVE  Good(q, s)'
  BY <1>2, <1>3, <1>4, <1>5, GoodStays
<1>6. Stored'
  <2>1. Good(p, rs)' /\ Good(d.pending, d.rec)'
    BY <1>5
  <2> QED BY <2>1 DEF Stored
<1>7. FlatTypes'
  BY <1>1, <1>2 DEF FlatTypes, LifeTypes, TaskTypes, CallTypes
<1>8. OneSender'
  BY <1>1, <1>2 DEF OneSender
<1>9. RequestsRight'
  <2>1. ASSUME NEW r \in Requests
        PROVE  RequestRight(r)'
    BY <1>1, <1>2, <1>3 DEF RequestRight, Bound
  <2> QED BY <2>1 DEF RequestsRight
<1>10. ASSUME NEW u \in Tasks
       PROVE  TaskRight(u)'
  <2>1. u.req \in Requests /\ TaskRight(u)
    BY <1>1, TaskFields
  <2>2. Bound(u.req)' = Bound(u.req)
    BY <2>1 DEF Bound
  <2>3. pc[u] \in Calling => Fresh(rec[u.req], u)' /\ Fresh(disk.rec[u.req], u)'
    <3> SUFFICES ASSUME pc[u] \in Calling
                 PROVE  Fresh(rec[u.req], u)' /\ Fresh(disk.rec[u.req], u)'
      OBVIOUS
    <3>1. Fresh(rec[u.req], u) /\ Fresh(disk.rec[u.req], u)
      BY <2>1 DEF TaskRight
    <3>2. rec'[u.req] = rec[u.req] /\ disk'.rec[u.req] \in {disk.rec[u.req], rec[u.req]}
      BY <2>1, <3>1 DEF Fresh
    <3> QED BY <1>2, <2>1, <3>1, <3>2 DEF Fresh
  <2>4. pc[u] = "prepare" => rec'[u.req].status = "preparing"
    BY <2>1 DEF TaskRight
  <2> QED BY <1>2, <1>3, <2>1, <2>2, <2>3, <2>4 DEF TaskRight
<1>11. TasksRight'
  BY <1>10 DEF TasksRight
<1> QED BY <1>6, <1>7, <1>8, <1>9, <1>11, InvWhole, PTL

\* What the storage is, in memory and on disk.
LEMMA StoredIs ==
  ASSUME NewInv
  PROVE  /\ pending \in Pending /\ rec \in [Requests -> Record] /\ Good(pending, rec)
         /\ disk \in Disks /\ Good(disk.pending, disk.rec)
         /\ archived \in [Requests -> BOOLEAN]
         /\ \A x \in Requests : archived[x] => disk.archived[x]
BY InvParts DEF Stored, Good, FlatTypes, LifeTypes

\* The storage in memory is written.
LEMMA FlushStep == ASSUME NewInv, Flush PROVE NewInv'
<1>1. PICK p, rs, a, d : p = pending /\ rs = rec /\ a = archived /\ d = Snapshot(p, rs)
  OBVIOUS
<1>2. /\ d \in Disks /\ d.pending = p /\ d.rec = rs /\ d.archived = a
      /\ a \in [Requests -> BOOLEAN] /\ Good(p, rs) /\ disk' = d
      /\ pending' = p /\ rec' = rs /\ archived' = a
      /\ UNCHANGED <<life, tasks, callback, provider, begun>>
  BY <1>1, StoredIs, SnapshotIs DEF Flush, Saves, memory
<1> QED BY <1>1, <1>2, StoreStep

\* The receipt on record settles a request that is not worked on.
LEMMA RecheckStep == ASSUME NewInv, NEW r \in Requests, Recheck(r) PROVE NewInv'
<1> DEFINE settled == Marked(rec, r, rec[r].receipt)
<1>1. /\ ~archived[r] /\ rec[r].receipt \in {"sent", "failed"}
      /\ rec[r].status \notin {"pending", "preparing", "sending"}
      /\ rec' = settled /\ disk' \in {disk, Snapshot(pending, settled)}
      /\ pending' = pending /\ archived' = archived
      /\ UNCHANGED <<life, tasks, callback, provider, begun>>
  BY DEF Recheck, MaySave, WithStatus, Marked
<1>s. rec[r].receipt # "none" /\ rec[r].receipt \in Status
  BY <1>1 DEF Status
<1>2. /\ settled \in [Requests -> Record] /\ settled[r].status = rec[r].receipt
      /\ settled[r].receipt = rec[r].receipt
      /\ \A x \in Requests \ {r} : settled[x] = rec[x]
  BY <1>s, StatusSet, StoredIs
<1> HIDE DEF settled
<1>3. Honest(rec[r], r) /\ \A x \in Requests : Honest(rec[x], x)
  BY StoredIs DEF Good
<1>b. rec[r].status # "none"
  BY <1>1, <1>3 DEF Honest
<1>4. Honest(settled[r], r)
  BY <1>1, <1>2, <1>3, <1>b DEF Honest
<1>5. \A x \in Requests : Honest(settled[x], x)
  BY <1>2, <1>3, <1>4
<1>6. \A x \in AppRequests : Kept(pending, settled[x], x)
  BY <1>1, <1>2, StoredIs DEF Good, Kept, Requests
<1>7. Good(pending, settled)
  BY <1>2, <1>5, <1>6, StoredIs DEF Good
<1>8. PICK p, rs, a, d : p = pending /\ rs = settled /\ a = archived /\ d = disk'
  OBVIOUS
<1>9. /\ d \in Disks /\ Good(d.pending, d.rec)
      /\ \A x \in Requests : a[x] => d.archived[x]
      /\ d = disk \/ d.rec = rs
  <2>1. CASE d = disk
    BY <1>8, <2>1, StoredIs
  <2>2. CASE d = Snapshot(p, rs)
    BY <1>2, <1>7, <1>8, <2>2, StoredIs, SnapshotIs
  <2> QED BY <1>1, <1>8, <2>1, <2>2
<1>10. \A x \in Requests : rs[x].status = "none" <=> rec[x].status = "none"
  BY <1>1, <1>2, <1>8, <1>b
<1>11. \A x \in Requests : rec[x].status \in {"preparing", "sending"} =>
         rs[x] = rec[x] /\ d.rec[x] \in {disk.rec[x], rec[x]}
  BY <1>1, <1>2, <1>8, <1>9
<1> QED BY <1>1, <1>7, <1>8, <1>9, <1>10, <1>11, StoredIs, StoreStep

\* The session is archived.
LEMMA ArchiveStep == ASSUME NewInv, NEW r \in Requests, Archive(r) PROVE NewInv'
<1> DEFINE shut  == [archived EXCEPT ![r] = TRUE]
           saved == [pending |-> pending, rec |-> rec, archived |-> shut]
<1>1. /\ \/ archived' = shut /\ disk' = saved
         \/ UNCHANGED archived /\ disk' \in {disk, saved}
      /\ pending' = pending /\ rec' = rec
      /\ UNCHANGED <<life, tasks, callback, provider, begun>>
  BY DEF Archive
<1>2. /\ shut \in [Requests -> BOOLEAN] /\ \A x \in Requests : archived[x] => shut[x]
      /\ saved \in Disks /\ saved.pending = pending /\ saved.rec = rec /\ saved.archived = shut
  BY StoredIs DEF Disks
<1> HIDE DEF shut, saved
<1>3. PICK p, rs, a, d : p = pending /\ rs = rec /\ a = archived' /\ d = disk'
  OBVIOUS
<1>4. /\ d \in Disks /\ Good(d.pending, d.rec) /\ a \in [Requests -> BOOLEAN]
      /\ \A x \in Requests : (archived[x] => a[x]) /\ (a[x] => d.archived[x])
      /\ d.rec \in {disk.rec, rec}
  BY <1>1, <1>2, <1>3, StoredIs
<1> QED BY <1>1, <1>3, <1>4, StoredIs, StoreStep

-----------------------------------------------------------------------------
(* The steps of the provider's side.                                       *)

\* Any step that only moves the calls and what the provider took.
LEMMA CallStep ==
  ASSUME NewInv, UNCHANGED <<life, memory, disk, tasks, begun>>,
         CallTypes', callback' \in [Requests -> BOOLEAN], RequestsRight',
         \A r \in Requests : /\ Asked(r)' <=> Asked(r)
                             /\ accepted[r] > 0 => accepted'[r] > 0
                             /\ Honest(rec[r], r)' /\ Honest(disk.rec[r], r)',
         \A t \in Tasks : /\ reply[t] = "err" => ~Out(t.req)'
                          /\ pc[t] \in Calling /\ reply[t] = "none" /\ rpc'[t.req] = "none"
                               => ~Out(t.req)'
  PROVE  NewInv'
<1>1. /\ FlatTypes /\ Stored /\ OneSender
      /\ (\A r \in Requests : RequestRight(r)) /\ (\A u \in Tasks : TaskRight(u))
  BY InvParts
<1>2. /\ up' = up /\ crashes' = crashes /\ begun' = begun /\ disk' = disk
      /\ pc' = pc /\ reply' = reply /\ pending' = pending /\ rec' = rec /\ archived' = archived
  BY DEF life, tasks, memory
<1>3. FlatTypes'
  BY <1>1, <1>2 DEF FlatTypes, LifeTypes, TaskTypes
<1>4. \A r \in AppRequests : Wanted(r)' => Wanted(r)
  BY <1>2, AppTaskIs DEF Wanted, AppTask
<1>5. Stored'
  <2>1. Good(pending, rec) /\ Good(disk.pending, disk.rec)
    BY <1>1 DEF Stored
  <2>2. \A r \in AppRequests : Kept(pending, rec[r], r)' /\ Kept(disk.pending, disk.rec[r], r)'
    BY <1>2, <1>4, <2>1 DEF Good, Kept
  <2>3. Good(pending, rec)' /\ Good(disk.pending, disk.rec)'
    BY <1>2, <2>1, <2>2 DEF Good
  <2> QED BY <1>1, <1>2, <2>3 DEF Stored
<1>6. OneSender'
  BY <1>1, <1>2 DEF OneSender
<1>7. ASSUME NEW u \in Tasks
      PROVE  TaskRight(u)'
  <2>1. u.req \in Requests /\ TaskRight(u)
    BY <1>1, TaskFields
  <2>2. Bound(u.req)' = Bound(u.req)
    BY <1>2 DEF Bound
  <2>3. Fresh(rec[u.req], u)' = Fresh(rec[u.req], u)
        /\ Fresh(disk.rec[u.req], u)' = Fresh(disk.rec[u.req], u)
    BY <1>2 DEF Fresh
  <2> QED BY <1>2, <2>1, <2>2, <2>3 DEF TaskRight
<1>8. TasksRight'
  BY <1>7 DEF TasksRight
<1> QED BY <1>3, <1>5, <1>6, <1>8, InvWhole, PTL

\* The answers a task has are those of calls that are over.
LEMMA Answered ==
  ASSUME NewInv, \A r \in Requests : Out(r)' => Out(r),
         \A r \in Requests : rpc'[r] = "none" => rpc[r] = "none"
  PROVE  \A t \in Tasks :
           /\ reply[t] = "err" => ~Out(t.req)'
           /\ pc[t] \in Calling /\ reply[t] = "none" /\ rpc'[t.req] = "none" => ~Out(t.req)'
BY InvParts, TaskFields DEF TaskRight

\* The provider makes a thread.
LEMMA SpawnStep == ASSUME NewInv, NEW r \in Requests, Spawn(r) PROVE NewInv'
<1>1. /\ FlatTypes /\ \A x \in Requests : RequestRight(x)
      /\ UNCHANGED <<life, memory, disk, tasks, begun>>
      /\ rpc' = rpc /\ accepted' = accepted /\ callback' = callback /\ spawn[r] = "flight"
      /\ created[r] = 0
  BY InvParts DEF Spawn, RequestRight
<1>2. /\ CallTypes' /\ created'[r] = 1 /\ spawn'[r] = "done"
      /\ \A x \in Requests : x # r => created'[x] = created[x] /\ spawn'[x] = spawn[x]
  BY <1>1 DEF FlatTypes, CallTypes, Spawn
<1>3. \A x \in Requests : Out(x)' = Out(x) /\ (Asked(x)' <=> Asked(x))
  BY <1>1, <1>2 DEF Out, Asked
<1>4. ASSUME NEW x \in Requests
      PROVE  RequestRight(x)' /\ Honest(rec[x], x)' /\ Honest(disk.rec[x], x)'
  <2>1. RequestRight(x) /\ Honest(rec[x], x) /\ Honest(disk.rec[x], x)
        /\ UNCHANGED <<rec, disk, archived, begun>>
    BY <1>1, StoredIs DEF Good, memory
  <2>2. created[x] > 0 => created'[x] > 0
    BY <1>1, <1>2
  <2>3. RequestRight(x)'
    BY <1>1, <1>2, <1>3, <2>1 DEF RequestRight, Bound
  <2> QED BY <1>1, <1>3, <2>1, <2>2, <2>3 DEF Honest
<1>5. RequestsRight' /\ callback' \in [Requests -> BOOLEAN]
  BY <1>1, <1>4 DEF RequestsRight, FlatTypes, LifeTypes
<1> QED BY <1>1, <1>2, <1>3, <1>4, <1>5, Answered, CallStep

\* The provider takes a call, or refuses it.
LEMMA AcceptRejectStep ==
  ASSUME NewInv, NEW r \in Requests, Accept(r) \/ Reject(r)
  PROVE  NewInv'
<1>1. /\ FlatTypes /\ \A x \in Requests : RequestRight(x)
      /\ UNCHANGED <<life, memory, disk, tasks, begun>>
      /\ spawn' = spawn /\ created' = created /\ callback' = callback /\ rpc[r] = "flight"
      /\ \/ /\ rpc' = [rpc EXCEPT ![r] = "ok"] /\ accepted' = [accepted EXCEPT ![r] = @ + 1]
         \/ rpc' = [rpc EXCEPT ![r] = "err"] /\ accepted' = accepted
  BY InvParts DEF Accept, Reject
<1>2. /\ CallTypes' /\ \A x \in Requests : x # r => rpc'[x] = rpc[x] /\ accepted'[x] = accepted[x]
      /\ \/ rpc'[r] = "ok" /\ accepted'[r] = accepted[r] + 1
         \/ rpc'[r] = "err" /\ accepted'[r] = accepted[r]
      /\ accepted \in [Requests -> Nat]
  BY <1>1 DEF FlatTypes, CallTypes
<1>3. \A x \in Requests : (Out(x)' => Out(x)) /\ (Asked(x)' <=> Asked(x))
                          /\ (rpc'[x] = "none" => rpc[x] = "none")
  BY <1>1, <1>2 DEF Out, Asked
<1>4. ASSUME NEW x \in Requests
      PROVE  RequestRight(x)' /\ Honest(rec[x], x)' /\ Honest(disk.rec[x], x)'
             /\ (accepted[x] > 0 => accepted'[x] > 0)
  <2>1. RequestRight(x) /\ Honest(rec[x], x) /\ Honest(disk.rec[x], x)
        /\ UNCHANGED <<rec, disk, archived, begun>>
    BY <1>1, StoredIs DEF Good, memory
  <2>2. accepted[x] > 0 => accepted'[x] > 0
    BY <1>2
  <2>3. RequestRight(x)'
    BY <1>1, <1>2, <1>3, <2>1 DEF RequestRight, Bound
  <2> QED BY <1>1, <1>3, <2>1, <2>2, <2>3 DEF Honest
<1>5. RequestsRight' /\ callback' \in [Requests -> BOOLEAN]
  BY <1>1, <1>4 DEF RequestsRight, FlatTypes, LifeTypes
<1> QED BY <1>1, <1>2, <1>3, <1>4, <1>5, Answered, CallStep

\* The callback of a thread is pushed out.
LEMMA EvictStep == ASSUME NewInv, NEW r \in Requests, EvictCallback(r) PROVE NewInv'
<1>1. /\ FlatTypes /\ \A x \in Requests : RequestRight(x)
      /\ UNCHANGED <<life, memory, disk, tasks, begun>>
      /\ spawn' = spawn /\ created' = created /\ rpc' = rpc /\ accepted' = accepted
      /\ callback' = [callback EXCEPT ![r] = FALSE]
  BY InvParts DEF EvictCallback, provider
<1>2. CallTypes' /\ callback' \in [Requests -> BOOLEAN]
      /\ \A x \in Requests : callback'[x] => callback[x]
  BY <1>1 DEF FlatTypes, CallTypes, LifeTypes
<1>3. \A x \in Requests : Out(x)' = Out(x) /\ (Asked(x)' <=> Asked(x))
  BY <1>1 DEF Out, Asked
<1>4. ASSUME NEW x \in Requests
      PROVE  RequestRight(x)' /\ Honest(rec[x], x)' /\ Honest(disk.rec[x], x)'
  <2>1. RequestRight(x) /\ Honest(rec[x], x) /\ Honest(disk.rec[x], x)
        /\ UNCHANGED <<rec, disk, archived, begun>>
    BY <1>1, StoredIs DEF Good, memory
  <2>2. RequestRight(x)'
    BY <1>1, <1>2, <1>3, <2>1 DEF RequestRight, Bound
  <2> QED BY <1>1, <1>3, <2>1, <2>2 DEF Honest
<1>5. RequestsRight'
  BY <1>4 DEF RequestsRight
<1> QED BY <1>1, <1>2, <1>3, <1>4, <1>5, Answered, CallStep

\* The call reaches the provider.
LEMMA IssueStep == ASSUME NewInv, NEW t \in Tasks, Issue(t) PROVE NewInv'
<1> DEFINE r == t.req
<1>1. /\ FlatTypes /\ (\A x \in Requests : RequestRight(x)) /\ r \in Requests
      /\ OneSender /\ (\A u \in Tasks : TaskRight(u))
      /\ UNCHANGED <<life, memory, disk, tasks, begun>>
      /\ spawn' = spawn /\ created' = created /\ accepted' = accepted
      /\ rpc[r] = "none" /\ reply[t] = "none" /\ pc[t] \in Calling
      /\ rpc' = [rpc EXCEPT ![r] = "flight"]
      /\ callback' = [callback EXCEPT ![r] = @ \/ pc[t] = "turn"]
  BY InvParts, TaskFields DEF Issue, Calling
<1>2. /\ CallTypes' /\ rpc'[r] = "flight" /\ callback' \in [Requests -> BOOLEAN]
      /\ \A x \in Requests : x # r => rpc'[x] = rpc[x] /\ callback'[x] = callback[x]
  BY <1>1 DEF FlatTypes, CallTypes, LifeTypes
<1>3. \A x \in Requests : Asked(x)' <=> Asked(x)
  BY <1>1 DEF Asked
<1>4. ~Out(r) /\ Fresh(rec[r], t) /\ Fresh(disk.rec[r], t) /\ RequestRight(r)
  BY <1>1 DEF TaskRight
<1>5. \A x \in Requests : x # r => Out(x)' = Out(x)
  BY <1>1, <1>2 DEF Out
<1>6. ASSUME NEW x \in Requests
      PROVE  RequestRight(x)' /\ Honest(rec[x], x)' /\ Honest(disk.rec[x], x)'
  <2>1. RequestRight(x) /\ Honest(rec[x], x) /\ Honest(disk.rec[x], x)
        /\ UNCHANGED <<rec, disk, archived, begun>>
    BY <1>1, StoredIs DEF Good, memory
  <2>2. CASE x # r
    BY <1>1, <1>2, <1>3, <1>5, <2>1, <2>2 DEF RequestRight, Honest, Bound
  <2>3. CASE x = r
    <3>1. Bound(r) /\ (~Steers => accepted[r] = 0) /\ accepted[r] \in Nat
      BY <1>1, <1>4 DEF Fresh, Bound, Out, FlatTypes, CallTypes
    <3>2. RequestRight(r)'
      BY <1>1, <1>2, <1>3, <2>1, <2>3, <3>1 DEF RequestRight, Bound
    <3>3. /\ rec[r].status = "sending" /\ disk.rec[r].status = "sending"
          /\ ~Steers /\ ~archived[r] => rec[r].receipt # "failed" /\ disk.rec[r].receipt # "failed"
      BY <1>1, <1>4 DEF Fresh
    <3>4. Honest(rec[r], r)' /\ Honest(disk.rec[r], r)'
      BY <1>1, <2>1, <2>3, <3>3 DEF Honest, Out
    <3> QED BY <2>3, <3>2, <3>4
  <2> QED BY <2>2, <2>3
<1>7. RequestsRight'
  BY <1>6 DEF RequestsRight
<1>8. ASSUME NEW u \in Tasks
      PROVE  /\ reply[u] = "err" => ~Out(u.req)'
             /\ pc[u] \in Calling /\ reply[u] = "none" /\ rpc'[u.req] = "none" => ~Out(u.req)'
  <2>1. TaskRight(u) /\ u.req \in Requests
    BY <1>1, TaskFields
  <2>2. CASE u.req # r
    BY <1>2, <1>5, <2>1, <2>2 DEF TaskRight
  <2>3. CASE u.req = r
    <3>1. pc[u] \in Calling => u = t
      BY <1>1, <2>3 DEF OneSender, Calling
    <3> QED BY <1>1, <1>2, <2>1, <2>3, <3>1 DEF TaskRight
  <2> QED BY <2>2, <2>3
<1> QED BY <1>1, <1>2, <1>3, <1>6, <1>7, <1>8, CallStep

-----------------------------------------------------------------------------
(* The steps that bring a task to the lock, and past it.                   *)

\* A task that waits for the lock next, or creates a thread next.
LEMMA QueueStep ==
  ASSUME NewInv, NEW t \in Tasks, NEW stage \in {"lock", "create"}, up, pc[t] \notin Sending,
         Moves(t, stage), UNCHANGED <<life, callback, created, rpc, accepted>>,
         UNCHANGED <<rec, archived>>, disk' \in Disks,
         Good(pending, rec)', Good(disk.pending, disk.rec)',
         \A x \in Requests : archived[x] => disk'.archived[x],
         \A x \in Requests : disk'.rec[x] \in {disk.rec[x], rec[x]},
         begun \subseteq begun' /\ begun' \subseteq BotRequests,
         spawn' \in [Requests -> {"none", "flight", "done"}], RequestsRight',
         \A x \in Requests : Asked(x)' => Asked(x) \/ (stage = "create" /\ x = t.req),
         t.by = "bot" => IF t.req \in AppRequests THEN Bound(t.req) ELSE t.req \in begun',
         stage = "lock" => Bound(t.req) \/ ~Asked(t.req),
         stage = "create" => ~Bound(t.req) /\ pc[t] # "idle"
  PROVE  NewInv'
<1>1. /\ FlatTypes /\ Stored /\ OneSender
      /\ (\A r \in Requests : RequestRight(r)) /\ (\A u \in Tasks : TaskRight(u))
      /\ t.req \in Requests
  BY InvParts, TaskFields
<1>2. /\ pc' = [pc EXCEPT ![t] = stage] /\ reply' = [reply EXCEPT ![t] = "none"]
      /\ pc'[t] = stage /\ reply'[t] = "none" /\ stage \in Stages
      /\ stage \notin Sending /\ stage # "idle" /\ stage # "prepare" /\ stage \notin Calling
      /\ \A u \in Tasks : u # t => pc'[u] = pc[u] /\ reply'[u] = reply[u]
  BY <1>1 DEF Moves, FlatTypes, TaskTypes, Stages, Sending, Calling
<1>3. /\ up' = up /\ crashes' = crashes /\ callback' = callback
      /\ created' = created /\ rpc' = rpc /\ accepted' = accepted
      /\ rec' = rec /\ archived' = archived
  BY DEF life
<1>4. FlatTypes'
  <2>1. LifeTypes'
    BY <1>1, <1>3 DEF FlatTypes, LifeTypes
  <2>2. TaskTypes'
    BY <1>1, <1>2 DEF FlatTypes, TaskTypes
  <2>3. CallTypes'
    BY <1>1, <1>3 DEF FlatTypes, CallTypes
  <2> QED BY <2>1, <2>2, <2>3 DEF FlatTypes
<1>5. Stored'
  BY <1>1, <1>3 DEF Stored
<1>6. OneSender'
  <2> SUFFICES ASSUME NEW a \in Tasks, NEW b \in Tasks, a # b, a.req = b.req,
                      pc'[a] \in Sending, pc'[b] \in Sending
               PROVE  FALSE
    BY DEF OneSender, Sending, Calling
  <2>1. a # t /\ b # t
    BY <1>2
  <2> QED BY <1>1, <1>2, <2>1 DEF OneSender, Sending, Calling
<1>7. \A x \in Requests : Out(x)' = Out(x) /\ Bound(x)' = Bound(x)
  BY <1>3 DEF Out, Bound
<1>8. TaskRight(t)'
  <2>1. t.by = "bot" => IF t.req \in AppRequests THEN Bound(t.req)' ELSE t.req \in begun'
    BY <1>1, <1>7
  <2>2. stage = "lock" /\ ~Bound(t.req)' => ~Asked(t.req)'
    BY <1>1, <1>7
  <2>3. stage = "create" => ~Bound(t.req)'
    BY <1>1, <1>7
  <2> QED BY <1>2, <1>3, <2>1, <2>2, <2>3 DEF TaskRight
<1>9. ASSUME NEW u \in Tasks, u # t
      PROVE  TaskRight(u)'
  <2>1. u.req \in Requests /\ TaskRight(u)
    BY <1>1, TaskFields
  <2>2. pc[u] = "lock" /\ ~Bound(u.req) => ~Asked(u.req)'
    <3> SUFFICES ASSUME pc[u] = "lock", ~Bound(u.req), Asked(u.req)'
                 PROVE  FALSE
      OBVIOUS
    <3>1. ~Asked(u.req)
      BY <2>1 DEF TaskRight
    <3>2. stage = "create" /\ u.req = t.req
      BY <2>1, <3>1
    <3>3. t.req \in AppRequests /\ (t.by = "bot" \/ u.by = "bot")
      BY <1>9, <3>2, SameReq
    <3> QED BY <2>1, <3>2, <3>3 DEF TaskRight
  <2>3. pc[u] \in Calling => Fresh(rec[u.req], u)' /\ Fresh(disk.rec[u.req], u)'
    BY <1>2, <1>3, <1>9, <2>1 DEF TaskRight, Fresh
  <2>4. u.by = "bot" /\ pc[u] # "idle" => IF u.req \in AppRequests THEN Bound(u.req)'
                                                                   ELSE u.req \in begun'
    BY <1>7, <2>1 DEF TaskRight
  <2> QED BY <1>2, <1>3, <1>7, <1>9, <2>1, <2>2, <2>3, <2>4 DEF TaskRight
<1>10. TasksRight'
  BY <1>8, <1>9 DEF TasksRight
<1> QED BY <1>4, <1>5, <1>6, <1>10, InvWhole, PTL

\* What the bot's task begins with.
LEMMA BotStarts ==
  ASSUME NewInv, NEW t \in Tasks, t.by = "bot", up, pc[t] = "idle", Moves(t, "lock"),
         UNCHANGED <<life, memory, disk, callback, provider>>,
         begun \subseteq begun' /\ begun' \subseteq BotRequests,
         IF t.req \in AppRequests THEN Bound(t.req) ELSE t.req \in begun',
         Bound(t.req) \/ ~Asked(t.req)
  PROVE  NewInv'
<1>1. FlatTypes /\ (\A x \in Requests : RequestRight(x)) /\ t.req \in Requests
      /\ pc[t] \notin Sending
  BY InvParts, TaskFields DEF Sending, Calling
<1>2. /\ UNCHANGED <<life, callback, created, rpc, accepted>> /\ UNCHANGED <<rec, archived>>
      /\ spawn' = spawn /\ disk' = disk /\ pending' = pending
  BY DEF memory, provider
<1>3. \A x \in Requests : Out(x)' = Out(x) /\ Asked(x)' = Asked(x)
  BY <1>2 DEF Out, Asked
<1>4. \A r \in AppRequests : Wanted(r)' => Wanted(r)
  <2> SUFFICES ASSUME NEW r \in AppRequests, Wanted(r)'
               PROVE  Wanted(r)
    OBVIOUS
  <2>1. AppTask(r) \in Tasks /\ AppTask(r) # t /\ r \in Requests
    BY AppTaskIs
  <2>2. pc'[AppTask(r)] = pc[AppTask(r)]
    BY <1>1, <2>1 DEF Moves, FlatTypes, TaskTypes
  <2>3. Asked(r) \/ pc'[AppTask(r)] = "lock"
    BY <1>3, <2>1 DEF Wanted, AppTask
  <2> QED BY <2>2, <2>3 DEF Wanted
<1>5. ASSUME NEW q, NEW s, Good(q, s)
      PROVE  Good(q, s)'
  BY <1>2, <1>3, <1>4, <1>5, GoodStays
<1>6. Good(pending, rec)' /\ Good(disk.pending, disk.rec)'
  BY <1>2, <1>5, StoredIs
<1>7. RequestsRight'
  <2>1. ASSUME NEW x \in Requests
        PROVE  RequestRight(x)'
    BY <1>1, <1>2, <1>3 DEF RequestRight, Bound
  <2> QED BY <2>1 DEF RequestsRight
<1>8. /\ spawn' \in [Requests -> {"none", "flight", "done"}] /\ disk' \in Disks
      /\ \A x \in Requests : archived[x] => disk'.archived[x]
      /\ \A x \in Requests : disk'.rec[x] \in {disk.rec[x], rec[x]}
  BY <1>1, <1>2, StoredIs DEF FlatTypes, CallTypes
<1> QED BY <1>1, <1>2, <1>3, <1>6, <1>7, <1>8, QueueStep

\* Telegram asks for a session.
LEMMA SubmitBotStep == ASSUME NewInv, NEW r \in Requests, SubmitBot(r) PROVE NewInv'
<1> DEFINE t == [req |-> r, by |-> "bot"]
<1>1. /\ up /\ r \in BotRequests /\ r \notin begun /\ begun' = begun \cup {r} /\ Moves(t, "lock")
      /\ UNCHANGED <<life, memory, disk, callback, provider>>
  BY DEF SubmitBot
<1>2. t \in Tasks /\ t.req = r /\ t.by = "bot" /\ r \notin AppRequests
  BY <1>1, NewSessionAssumption DEF Tasks, Requests
<1> HIDE DEF t
<1>3. TaskRight(t) /\ RequestRight(r) /\ begun \subseteq BotRequests
  BY <1>2, InvParts DEF FlatTypes, LifeTypes
<1>4. pc[t] = "idle" /\ ~Asked(r)
  BY <1>1, <1>2, <1>3 DEF TaskRight, RequestRight
<1> QED BY <1>1, <1>2, <1>3, <1>4, BotStarts

\* Telegram resumes the request that is on record.
LEMMA ResumeStep == ASSUME NewInv, NEW r \in Requests, Resume(r) PROVE NewInv'
<1> DEFINE t == [req |-> r, by |-> "bot"]
<1>1. /\ up /\ r \in Resumable /\ Bound(r) /\ pc[t] = "idle" /\ Moves(t, "lock")
      /\ UNCHANGED <<life, memory, disk, callback, provider, begun>>
  BY DEF Resume
<1>2. t \in Tasks /\ t.req = r /\ t.by = "bot"
  BY <1>1 DEF Tasks
<1> HIDE DEF t
<1>3. RequestRight(r) /\ begun \subseteq BotRequests /\ Honest(rec[r], r)
  BY InvParts, StoredIs DEF FlatTypes, LifeTypes, Good
<1>4. Asked(r) /\ (r \in AppRequests \/ r \in begun)
  BY <1>1, <1>3 DEF Bound, Honest, Asked, RequestRight, Requests
<1> QED BY <1>1, <1>2, <1>3, <1>4, BotStarts

\* The desktop's request.
LEMMA SubmitAppStep == ASSUME NewInv, NEW r \in AppRequests, SubmitApp(r) PROVE NewInv'
<1> DEFINE t == AppTask(r)
           fresh  == [req |-> r, status |-> "preparing"]
           failed == [fresh EXCEPT !.status = "failed"]
<1>1. /\ up /\ pc[t] = "idle"
      /\ \/ Bound(r) /\ Moves(t, "lock") /\ UNCHANGED <<pending, disk>>
         \/ /\ ~Bound(r) /\ pending.status \notin {"preparing", "unknown"}
            /\ \/ pending' = fresh /\ Saves(fresh, rec) /\ Moves(t, "lock")
               \/ pending' = failed /\ MaySave(fresh, rec) /\ UNCHANGED tasks
      /\ UNCHANGED <<life, rec, archived, callback, provider, begun>>
  BY DEF SubmitApp, AppTask
<1>2. t \in Tasks /\ t.req = r /\ t.by = "app" /\ r \in Requests
  BY AppTaskIs
<1>3. /\ fresh \in Pending /\ fresh.req = r /\ fresh.status = "preparing"
      /\ failed \in Pending
  BY <1>2 DEF Pending
<1>4. /\ FlatTypes /\ (\A x \in Requests : RequestRight(x)) /\ begun \subseteq BotRequests
      /\ pc[t] \notin Sending
  BY <1>1, InvParts DEF FlatTypes, LifeTypes, Sending, Calling
<1>5. /\ UNCHANGED <<life, callback, created, rpc, accepted>> /\ UNCHANGED <<rec, archived>>
      /\ spawn' = spawn /\ begun' = begun
  BY <1>1 DEF provider
<1>6. \A x \in Requests : Out(x)' = Out(x) /\ Asked(x)' = Asked(x)
  BY <1>5 DEF Out, Asked
<1>7. RequestsRight'
  <2>1. ASSUME NEW x \in Requests
        PROVE  RequestRight(x)'
    BY <1>4, <1>5, <1>6 DEF RequestRight, Bound
  <2> QED BY <2>1 DEF RequestsRight
<1>8. ASSUME NEW x \in AppRequests, x # r
      PROVE  Wanted(x)' => Wanted(x)
  <2>1. AppTask(x) \in Tasks /\ AppTask(x) # t /\ x \in Requests
    BY <1>2, <1>8, AppTaskIs
  <2>2. pc'[AppTask(x)] = pc[AppTask(x)]
    BY <1>1, <1>4, <2>1 DEF Moves, FlatTypes, TaskTypes, tasks
  <2>3. Wanted(x)' => Asked(x) \/ pc'[AppTask(x)] = "lock"
    BY <1>6, <2>1 DEF Wanted, AppTask
  <2> QED BY <2>2, <2>3 DEF Wanted
<1>9. ASSUME NEW q, NEW s, Good(q, s), Kept(q, s[r], r)'
      PROVE  Good(q, s)'
  <2>1. \A x \in Requests : Honest(s[x], x)'
    BY <1>5, <1>6, <1>9, HonestStays DEF Good
  <2>2. \A x \in AppRequests : Kept(q, s[x], x)'
    BY <1>8, <1>9 DEF Good, Kept
  <2> QED BY <1>9, <2>1, <2>2 DEF Good
<1>10. spawn' \in [Requests -> {"none", "flight", "done"}]
  BY <1>4, <1>5 DEF FlatTypes, CallTypes
<1> HIDE DEF t, fresh, failed
<1>11. CASE Bound(r) /\ Moves(t, "lock") /\ UNCHANGED <<pending, disk>>
  <2>1. Wanted(r)
    BY <1>2, <1>11, StoredIs DEF Good, Honest, Bound, Wanted, Asked
  <2>2. PICK q, s : q = disk.pending /\ s = disk.rec
    OBVIOUS
  <2>3. Kept(q, s[r], r)' /\ Good(q, s)
    BY <2>1, <2>2, StoredIs DEF Good, Kept
  <2>4. Good(disk.pending, disk.rec)'
    BY <1>9, <1>11, <2>2, <2>3
  <2>5. PICK p, m : p = pending /\ m = rec
    OBVIOUS
  <2>6. Kept(p, m[r], r)' /\ Good(p, m)
    BY <1>11, <2>5, StoredIs DEF Kept, Bound
  <2>7. Good(pending, rec)'
    BY <1>5, <1>9, <1>11, <2>5, <2>6
  <2>8. /\ disk' \in Disks /\ \A x \in Requests : archived[x] => disk'.archived[x]
        /\ \A x \in Requests : disk'.rec[x] \in {disk.rec[x], rec[x]}
    BY <1>11, StoredIs
  <2> QED BY <1>1, <1>2, <1>4, <1>5, <1>6, <1>7, <1>10, <1>11, <2>4, <2>7, <2>8, QueueStep
<1>12. ASSUME ~Bound(r), pending.status \notin {"preparing", "unknown"}
       PROVE  /\ ~Asked(r)
              /\ \A q \in Pending : \A x \in AppRequests : Kept(q, rec[x], x)
  BY <1>2, <1>12, StoredIs DEF Good, Kept, Wanted, Bound
<1>13. ASSUME ~Bound(r), pending.status \notin {"preparing", "unknown"}
       PROVE  Good(fresh, rec) /\ Good(failed, rec)
  BY <1>3, <1>12, <1>13, StoredIs DEF Good
<1>14. CASE /\ ~Bound(r) /\ pending.status \notin {"preparing", "unknown"}
            /\ pending' = fresh /\ Saves(fresh, rec) /\ Moves(t, "lock")
  <2>1. PICK q, s : q = fresh /\ s = rec
    OBVIOUS
  <2>2. Good(q, s) /\ Kept(q, s[r], r)'
    BY <1>3, <1>13, <1>14, <2>1 DEF Kept
  <2>3. Good(q, s)'
    BY <1>9, <2>2
  <2>4. /\ disk'.pending = q /\ disk'.rec = s /\ disk'.archived = archived /\ disk' \in Disks
    BY <1>3, <1>14, <2>1, SnapshotIs, StoredIs DEF Saves
  <2>5. Good(pending, rec)' /\ Good(disk.pending, disk.rec)'
    BY <1>5, <1>14, <2>1, <2>3, <2>4
  <2>6. /\ \A x \in Requests : archived[x] => disk'.archived[x]
        /\ \A x \in Requests : disk'.rec[x] \in {disk.rec[x], rec[x]}
    BY <2>1, <2>4
  <2>7. ~Asked(r)
    BY <1>12, <1>14
  <2> QED BY <1>1, <1>2, <1>4, <1>5, <1>6, <1>7, <1>10, <1>14, <2>4, <2>5, <2>6, <2>7, QueueStep
<1>15. CASE /\ ~Bound(r) /\ pending.status \notin {"preparing", "unknown"}
            /\ pending' = failed /\ MaySave(fresh, rec) /\ UNCHANGED tasks
  <2>1. PICK p, rs, a, d : p = failed /\ rs = rec /\ a = archived /\ d = disk'
    OBVIOUS
  <2>2. /\ d \in Disks /\ Good(d.pending, d.rec) /\ \A x \in Requests : a[x] => d.archived[x]
        /\ d.rec \in {disk.rec, rec}
    <3>1. CASE d = disk
      BY <2>1, <3>1, StoredIs
    <3>2. CASE d = Snapshot(fresh, rec)
      BY <1>3, <1>13, <1>15, <2>1, <3>2, SnapshotIs, StoredIs
    <3> QED BY <1>15, <2>1, <3>1, <3>2 DEF MaySave
  <2>3. Good(p, rs)
    BY <1>13, <1>15, <2>1
  <2>4. UNCHANGED <<life, tasks, callback, provider, begun>> /\ pending' = p /\ rec' = rs
        /\ disk' = d /\ archived' = a /\ a \in [Requests -> BOOLEAN]
    BY <1>1, <1>15, <2>1, StoredIs
  <2> QED BY <2>1, <2>2, <2>3, <2>4, StoreStep
<1> QED BY <1>1, <1>11, <1>14, <1>15

\* The provider is asked for a thread.
LEMMA CreateStep == ASSUME NewInv, NEW t \in Tasks, Create(t) PROVE NewInv'
<1> DEFINE r == t.req
<1>1. /\ pc[t] = "lock" /\ ~Bound(r) /\ Moves(t, "create")
      /\ spawn' = [spawn EXCEPT ![r] = "flight"]
      /\ UNCHANGED <<life, memory, disk, callback, created, rpc, accepted, begun>>
  BY DEF Create
<1>2. /\ FlatTypes /\ (\A x \in Requests : RequestRight(x)) /\ TaskRight(t)
      /\ begun \subseteq BotRequests /\ r \in Requests
  BY InvParts, TaskFields DEF FlatTypes, LifeTypes
<1>3. up /\ ~Asked(r) /\ pc[t] \notin Sending
  BY <1>1, <1>2 DEF TaskRight, Sending, Calling
<1>4. /\ spawn' \in [Requests -> {"none", "flight", "done"}] /\ spawn'[r] = "flight"
      /\ \A x \in Requests : x # r => spawn'[x] = spawn[x]
      /\ pending' = pending /\ rec' = rec /\ archived' = archived /\ disk' = disk
      /\ created' = created /\ rpc' = rpc /\ accepted' = accepted
  BY <1>1, <1>2 DEF FlatTypes, CallTypes, memory
<1>5. \A x \in Requests : Out(x)' = Out(x) /\ (x # r => Asked(x)' = Asked(x))
  BY <1>4 DEF Out, Asked
<1>6. r \in AppRequests => t = AppTask(r) /\ t.by = "app"
  BY <1>1, <1>2, TaskFields DEF TaskRight
<1>7. \A x \in AppRequests : Wanted(x)' => Wanted(x)
  <2> SUFFICES ASSUME NEW x \in AppRequests, Wanted(x)'
               PROVE  Wanted(x)
    OBVIOUS
  <2>1. AppTask(x) \in Tasks /\ x \in Requests /\ AppTask(x).req = x
    BY AppTaskIs
  <2>2. CASE x = r
    BY <1>1, <1>6, <2>2 DEF Wanted
  <2>3. CASE x # r
    <3>1. pc'[AppTask(x)] = pc[AppTask(x)]
      BY <1>1, <1>2, <2>1, <2>3 DEF Moves, FlatTypes, TaskTypes
    <3>2. Asked(x) \/ pc'[AppTask(x)] = "lock"
      BY <1>5, <2>1, <2>3 DEF Wanted, AppTask
    <3> QED BY <3>1, <3>2 DEF Wanted
  <2> QED BY <2>2, <2>3
<1>8. ASSUME NEW q, NEW s, Good(q, s)
      PROVE  Good(q, s)'
  BY <1>4, <1>5, <1>7, <1>8, GoodStays
<1>9. Good(pending, rec)' /\ Good(disk.pending, disk.rec)'
  BY <1>4, <1>8, StoredIs
<1>10. RequestsRight'
  <2>1. ASSUME NEW x \in Requests
        PROVE  RequestRight(x)'
    <3>1. RequestRight(x) /\ UNCHANGED <<callback, begun>> /\ Bound(x)' = Bound(x)
      BY <1>1, <1>2, <1>4 DEF Bound
    <3>2. CASE x # r
      BY <1>4, <1>5, <3>1, <3>2 DEF RequestRight
    <3>3. CASE x = r
      <4>1. created[r] = 0
        BY <1>2, <1>3 DEF Asked, FlatTypes, CallTypes
      <4>2. r \in BotRequests => r \in begun
        BY <1>1, <1>2, TaskFields, NewSessionAssumption DEF TaskRight
      <4> QED BY <1>4, <3>1, <3>3, <4>1, <4>2 DEF RequestRight
    <3> QED BY <3>2, <3>3
  <2> QED BY <2>1 DEF RequestsRight
<1>11. /\ disk' \in Disks
       /\ \A x \in Requests : archived[x] => disk'.archived[x]
       /\ \A x \in Requests : disk'.rec[x] \in {disk.rec[x], rec[x]}
       /\ \A x \in Requests : Asked(x)' => Asked(x) \/ x = r
  BY <1>4, <1>5, StoredIs
<1>12. t.by = "bot" => IF r \in AppRequests THEN Bound(r) ELSE r \in begun'
  BY <1>1, <1>2 DEF TaskRight
<1> QED BY <1>1, <1>2, <1>3, <1>4, <1>9, <1>10, <1>11, <1>12, QueueStep

-----------------------------------------------------------------------------
(* The answer of the provider.                                             *)

\* The answer of the call arrives.
LEMMA RespondStep == ASSUME NewInv, NEW r \in Requests, Respond(r) PROVE NewInv'
<1> DEFINE noted == Noted(rec, r, ReceiptOf(rpc[r]))
<1>1. /\ FlatTypes /\ Stored /\ OneSender
      /\ (\A x \in Requests : RequestRight(x)) /\ (\A u \in Tasks : TaskRight(u))
  BY InvParts
<1>2. /\ rpc[r] \in {"ok", "err"} /\ rpc' = [rpc EXCEPT ![r] = "none"]
      /\ reply' = [t \in Tasks |->
           IF t.req = r /\ pc[t] \in Calling THEN rpc[r] ELSE reply[t]]
      /\ callback' = [callback EXCEPT ![r] = FALSE]
      /\ \/ callback[r] /\ ~archived[r] /\ rec' = noted /\ MaySave(pending, noted)
         \/ UNCHANGED <<rec, disk>>
      /\ up' = up /\ crashes' = crashes /\ begun' = begun /\ pending' = pending
      /\ archived' = archived /\ pc' = pc /\ spawn' = spawn /\ created' = created
      /\ accepted' = accepted
  BY DEF Respond, Noted, Calling, life
<1>3. /\ rpc'[r] = "none" /\ (\A x \in Requests : x # r => rpc'[x] = rpc[x])
      /\ CallTypes' /\ callback' \in [Requests -> BOOLEAN]
      /\ ~callback'[r] /\ (\A x \in Requests : callback'[x] => callback[x])
  BY <1>1, <1>2 DEF FlatTypes, CallTypes, LifeTypes
<1>4. \A x \in Requests : /\ Out(x)' => Out(x)
                          /\ x # r => Out(x)' = Out(x)
                          /\ Asked(x)' = Asked(x)
  BY <1>2, <1>3 DEF Out, Asked
<1>5. /\ rpc[r] = "err" => ~Out(r)'
      /\ rpc[r] = "ok" => accepted[r] > 0
  BY <1>1, <1>2, <1>3 DEF RequestRight, Out
<1>6. \A x \in AppRequests : Wanted(x)' => Wanted(x)
  BY <1>2, <1>4, AppTaskIs DEF Wanted, AppTask
<1>7. ASSUME NEW q, NEW s, Good(q, s)
      PROVE  Good(q, s)'
  BY <1>2, <1>4, <1>6, <1>7, GoodStays
<1>8. /\ noted \in [Requests -> Record] /\ noted[r].receipt = ReceiptOf(rpc[r])
      /\ noted[r].status = rec[r].status
      /\ \A x \in Requests \ {r} : noted[x] = rec[x]
  BY StoredIs, ReceiptSet DEF ReceiptOf, Receipt
<1> HIDE DEF noted
<1>9. PICK q, s, n, d : q = pending /\ s = rec /\ n = noted /\ d = disk'
  OBVIOUS
<1>10. Good(q, s) /\ Good(q, s)' /\ Good(disk.pending, disk.rec) /\ disk \in Disks
  BY <1>7, <1>9, StoredIs
<1>11. ASSUME callback[r]
       PROVE  Good(q, n)'
  <2>1. s[r].status # "none"
    BY <1>1, <1>9, <1>11 DEF RequestRight, Bound
  <2>2. n[r].status = s[r].status /\ n[r].receipt = ReceiptOf(rpc[r])
    BY <1>8, <1>9
  <2>3. /\ n[r].receipt = "sent" => accepted'[r] > 0
        /\ n[r].receipt = "failed" => ~Out(r)'
    BY <1>2, <1>5, <2>2 DEF ReceiptOf
  <2>4. Honest(s[r], r)'
    BY <1>10 DEF Good
  <2>5. Honest(n[r], r)'
    BY <2>1, <2>2, <2>3, <2>4 DEF Honest
  <2>6. \A x \in Requests : Honest(n[x], x)'
    BY <1>8, <1>9, <1>10, <2>5 DEF Good
  <2>7. \A x \in AppRequests : Kept(q, n[x], x)'
    BY <1>8, <1>9, <1>10, <2>1 DEF Good, Kept, Requests
  <2> QED BY <1>8, <1>9, <1>10, <2>6, <2>7 DEF Good
<1>12. Good(pending, rec)'
  BY <1>2, <1>9, <1>10, <1>11
<1>13. /\ d \in Disks /\ Good(d.pending, d.rec)'
       /\ \A x \in Requests : archived[x] => d.archived[x]
       /\ d = disk \/ d.rec = n
  <2>1. CASE d = disk
    <3>1. PICK p, m : p = disk.pending /\ m = disk.rec /\ Good(p, m)
      BY <1>10
    <3>2. Good(p, m)'
      BY <1>7, <3>1
    <3> QED BY <2>1, <3>1, <3>2, StoredIs
  <2>2. CASE callback[r] /\ d = Snapshot(pending, noted)
    <3>1. d.pending = q /\ d.rec = n /\ d.archived = archived /\ d \in Disks
      BY <1>8, <1>9, <2>2, SnapshotIs, StoredIs
    <3> QED BY <1>11, <2>2, <3>1
  <2> QED BY <1>2, <1>9, <2>1, <2>2 DEF MaySave
<1>14. Stored'
  BY <1>2, <1>9, <1>12, <1>13 DEF Stored
<1>15. FlatTypes'
  <2>1. LifeTypes'
    BY <1>1, <1>2, <1>3 DEF FlatTypes, LifeTypes
  <2>2. TaskTypes'
    BY <1>1, <1>2 DEF FlatTypes, TaskTypes
  <2> QED BY <1>3, <1>9, <1>13, <2>1, <2>2 DEF FlatTypes
<1>16. OneSender'
  BY <1>1, <1>2 DEF OneSender
<1>17. /\ rec' = rec \/ rec' = n
       /\ n[r].status = rec[r].status /\ \A x \in Requests : x # r => n[x] = rec[x]
  BY <1>2, <1>8, <1>9
<1>18. \A x \in Requests : Bound(x)' = Bound(x)
  BY <1>17 DEF Bound
<1>19. RequestsRight'
  <2>1. ASSUME NEW x \in Requests
        PROVE  RequestRight(x)'
    <3>1. RequestRight(x) /\ Asked(x)' = Asked(x) /\ Bound(x)' = Bound(x)
      BY <1>1, <1>4, <1>18
    <3> QED BY <1>2, <1>3, <3>1 DEF RequestRight
  <2> QED BY <2>1 DEF RequestsRight
<1>20. ASSUME NEW u \in Tasks
       PROVE  TaskRight(u)'
  <2>1. u.req \in Requests /\ TaskRight(u)
    BY <1>1, TaskFields
  <2>2. CASE u.req # r
    <3>1. /\ reply'[u] = reply[u] /\ rec'[u.req] = rec[u.req] /\ rpc'[u.req] = rpc[u.req]
          /\ disk'.rec[u.req] \in {disk.rec[u.req], rec[u.req]}
      BY <1>2, <1>3, <1>9, <1>13, <1>17, <2>1, <2>2
    <3>2. /\ Fresh(rec[u.req], u) => Fresh(rec[u.req], u)'
          /\ Fresh(rec[u.req], u) /\ Fresh(disk.rec[u.req], u) => Fresh(disk.rec[u.req], u)'
      BY <1>2, <3>1 DEF Fresh
    <3>3. Bound(u.req)' = Bound(u.req) /\ Asked(u.req)' = Asked(u.req) /\ Out(u.req)' = Out(u.req)
      BY <1>4, <1>18, <2>1, <2>2
    <3> QED BY <1>2, <2>1, <3>1, <3>2, <3>3 DEF TaskRight
  <2>3. CASE u.req = r
    <3>1. pc[u] \in Calling => reply'[u] \in {"ok", "err"} /\ reply'[u] = rpc[r]
      BY <1>2, <2>3
    <3>2. pc[u] \notin Calling => reply'[u] = reply[u]
      BY <1>2
    <3>3. rec'[u.req].status = rec[u.req].status
      BY <1>17, <2>3
    <3>4. disk'.rec[u.req].status \in {disk.rec[u.req].status, rec[u.req].status}
      BY <1>9, <1>13, <1>17, <2>3
    <3>5. pc[u] \in Calling => Fresh(rec[u.req], u)' /\ Fresh(disk.rec[u.req], u)'
      BY <2>1, <3>1, <3>3, <3>4 DEF TaskRight, Fresh
    <3>6. Bound(u.req)' = Bound(u.req) /\ Asked(u.req)' = Asked(u.req)
      BY <1>4, <1>18, <2>1
    <3>7. /\ reply'[u] = "ok" => accepted'[u.req] > 0
          /\ reply'[u] = "err" => ~Out(u.req)'
      BY <1>2, <1>5, <2>1, <2>3, <3>1, <3>2 DEF TaskRight
    <3> QED BY <1>2, <2>1, <3>1, <3>2, <3>3, <3>5, <3>6, <3>7 DEF TaskRight
  <2> QED BY <2>2, <2>3
<1>21. TasksRight'
  BY <1>20 DEF TasksRight
<1> QED BY <1>14, <1>15, <1>16, <1>19, <1>21, InvWhole, PTL

-----------------------------------------------------------------------------
(* The process dies, and starts.                                           *)

\* No task is left.
LEMMA IdleStep ==
  ASSUME FlatTypes', Stored', RequestsRight',
         pc' = [t \in Tasks |-> "idle"], reply' = [t \in Tasks |-> "none"]
  PROVE  NewInv'
<1>1. OneSender'
  BY DEF OneSender
<1>2. TasksRight'
  <2>1. ASSUME NEW u \in Tasks
        PROVE  TaskRight(u)'
    BY DEF TaskRight, Calling
  <2> QED BY <2>1 DEF TasksRight
<1> QED BY <1>1, <1>2, InvWhole, PTL

\* The process dies.
LEMMA CrashStep == ASSUME NewInv, Crash PROVE NewInv'
<1>1. /\ up' = FALSE /\ crashes' = crashes + 1 /\ crashes < MaxCrashes
      /\ pending' = disk.pending /\ rec' = disk.rec /\ archived' = disk.archived
      /\ pc' = [t \in Tasks |-> "idle"] /\ reply' = [t \in Tasks |-> "none"]
      /\ callback' = [r \in Requests |-> FALSE] /\ disk' = disk /\ begun' = begun
      /\ spawn' = spawn /\ created' = created /\ rpc' = rpc /\ accepted' = accepted
  BY DEF Crash, provider
<1>2. FlatTypes /\ (\A x \in Requests : RequestRight(x))
      /\ disk.archived \in [Requests -> BOOLEAN]
  BY InvParts DEF FlatTypes, Disks
<1>3. FlatTypes'
  <2>1. crashes' \in 0 .. MaxCrashes
    BY <1>1, <1>2, NewSessionAssumption DEF FlatTypes, LifeTypes
  <2>2. LifeTypes'
    BY <1>1, <1>2, <2>1 DEF FlatTypes, LifeTypes
  <2>3. TaskTypes'
    BY <1>1 DEF TaskTypes, Stages
  <2>4. CallTypes'
    BY <1>1, <1>2 DEF FlatTypes, CallTypes
  <2> QED BY <1>1, <1>2, <2>2, <2>3, <2>4 DEF FlatTypes
<1>4. \A x \in Requests : Out(x)' = Out(x) /\ Asked(x)' = Asked(x)
  BY <1>1 DEF Out, Asked
<1>5. \A x \in AppRequests : Wanted(x)' => Wanted(x)
  BY <1>1, <1>4, AppTaskIs DEF Wanted, AppTask
<1>6. PICK q, s : q = disk.pending /\ s = disk.rec /\ Good(q, s)
  BY StoredIs
<1>7. Good(q, s)'
  BY <1>1, <1>4, <1>5, <1>6, StoredIs, GoodStays
<1>8. Stored'
  BY <1>1, <1>6, <1>7 DEF Stored
<1>9. RequestsRight'
  <2>1. ASSUME NEW x \in Requests
        PROVE  RequestRight(x)'
    BY <1>1, <1>2, <1>4 DEF RequestRight
  <2> QED BY <2>1 DEF RequestsRight
<1> QED BY <1>1, <1>3, <1>8, <1>9, IdleStep

\* What a restart makes of a record.
LEMMA RestoredIs ==
  ASSUME NEW record \in Record, NEW r, Honest(record, r)
  PROVE  /\ Restored(record) \in Record /\ Honest(Restored(record), r)
         /\ Restored(record).status = "none" <=> record.status = "none"
<1> DEFINE st == CASE record.status \in {"pending", "preparing"} -> "failed"
                   [] record.status = "sending"                  -> "unknown"
                   [] OTHER                                      -> record.status
           new == [record EXCEPT !.status = st]
<1>1. new = Restored(record)
  BY DEF Restored
<1>2. /\ record.status \in {"pending", "preparing"} => st = "failed"
      /\ record.status = "sending" => st = "unknown"
      /\ record.status \notin {"pending", "preparing", "sending"} => st = record.status
  OBVIOUS
<1> HIDE DEF st
<1>3. st \in Status
  BY <1>2 DEF Record, Status
<1>4. new \in Record /\ new.status = st /\ new.receipt = record.receipt
  BY <1>3 DEF Record
<1> HIDE DEF new
<1>5. Honest(new, r)
  BY <1>2, <1>4 DEF Honest
<1> QED BY <1>1, <1>2, <1>4, <1>5

\* The process comes back and reads its storage.
LEMMA StartStep == ASSUME NewInv, Start PROVE NewInv'
<1> DEFINE p  == RestoredPending(pending, rec)
           rs == [r \in Requests |-> IF archived[r] THEN rec[r] ELSE Restored(rec[r])]
           Mix(saved) == [r \in Requests |-> IF r \in saved THEN rs[r] ELSE rec[r]]
<1>1. /\ ~up /\ up' = TRUE /\ pending' = p /\ rec' = rs
      /\ disk' = disk \/ \E saved \in SUBSET Requests : disk' = Snapshot(p, Mix(saved))
      /\ crashes' = crashes /\ archived' = archived /\ pc' = pc /\ reply' = reply
      /\ callback' = callback /\ begun' = begun
      /\ spawn' = spawn /\ created' = created /\ rpc' = rpc /\ accepted' = accepted
  BY DEF Start, Saves, tasks, provider
<1>2. FlatTypes /\ (\A x \in Requests : RequestRight(x)) /\ (\A t \in Tasks : TaskRight(t))
  BY InvParts
<1>3. pc' = [t \in Tasks |-> "idle"] /\ reply' = [t \in Tasks |-> "none"]
  <2>1. \A t \in Tasks : pc[t] = "idle" /\ reply[t] = "none"
    BY <1>1, <1>2 DEF TaskRight, Calling
  <2> QED BY <1>1, <1>2, <2>1 DEF FlatTypes, TaskTypes
<1>4. \A x \in Requests : /\ rec[x] \in Record /\ Honest(rec[x], x)
                          /\ rs[x] \in Record /\ Honest(rs[x], x)
                          /\ rs[x].status = "none" <=> rec[x].status = "none"
  BY StoredIs, RestoredIs DEF Good
<1>5. /\ p \in Pending
      /\ \A x \in AppRequests : Kept(p, rec[x], x)
  <2>1. pending \in Pending /\ \A x \in AppRequests : Kept(pending, rec[x], x)
    BY StoredIs DEF Good
  <2>2. CASE pending.req # NoRequest /\ rec[pending.req].status # "none"
    <3>1. p = NoPending
      BY <2>2 DEF RestoredPending
    <3> QED BY <2>1, <2>2, <3>1 DEF Kept, NoPending, Pending
  <2>3. CASE ~(pending.req # NoRequest /\ rec[pending.req].status # "none")
    <3>1. p = pending \/ (pending.status = "preparing" /\ p = [pending EXCEPT !.status = "unknown"])
      BY <2>3 DEF RestoredPending
    <3>2. p \in Pending /\ p.req = pending.req
          /\ (p.status = pending.status \/ (pending.status = "preparing" /\ p.status = "unknown"))
      BY <2>1, <3>1 DEF Pending
    <3> HIDE DEF p
    <3> QED BY <2>1, <3>2 DEF Kept
  <2> QED BY <2>2, <2>3
<1> HIDE DEF p
<1>6. rs \in [Requests -> Record]
  BY <1>4
<1>7. ASSUME NEW m \in [Requests -> Record], \A x \in Requests : m[x] \in {rs[x], rec[x]}
      PROVE  Good(p, m)
  <2>1. \A x \in Requests : Honest(m[x], x)
    BY <1>4, <1>7
  <2>2. \A x \in AppRequests : Kept(p, m[x], x)
    BY <1>4, <1>5, <1>7 DEF Kept, Requests
  <2> QED BY <1>5, <1>7, <2>1, <2>2 DEF Good
<1>8. Good(p, rs)
  BY <1>6, <1>7
<1>9. ASSUME NEW saved \in SUBSET Requests
      PROVE  Good(p, Mix(saved)) /\ Mix(saved) \in [Requests -> Record]
  <2>1. Mix(saved) \in [Requests -> Record] /\ \A x \in Requests : Mix(saved)[x] \in {rs[x], rec[x]}
    BY <1>4
  <2> HIDE DEF Mix
  <2> QED BY <1>7, <2>1
<1> HIDE DEF Mix, rs
<1>10. disk' \in Disks /\ Good(disk'.pending, disk'.rec)
       /\ \A x \in Requests : archived[x] => disk'.archived[x]
  <2>1. CASE disk' = disk
    BY <2>1, StoredIs
  <2>2. ASSUME NEW saved \in SUBSET Requests, disk' = Snapshot(p, Mix(saved))
        PROVE  disk' \in Disks /\ Good(disk'.pending, disk'.rec)
               /\ \A x \in Requests : archived[x] => disk'.archived[x]
    <3>1. disk'.pending = p /\ disk'.rec = Mix(saved) /\ disk'.archived = archived /\ disk' \in Disks
      BY <1>5, <1>9, <2>2, SnapshotIs, StoredIs
    <3> QED BY <1>9, <3>1
  <2> QED BY <1>1, <2>1, <2>2
<1>11. \A x \in Requests : Out(x)' = Out(x) /\ Asked(x)' = Asked(x)
  BY <1>1 DEF Out, Asked
<1>12. \A x \in AppRequests : Wanted(x)' => Wanted(x)
  BY <1>1, <1>11, AppTaskIs DEF Wanted, AppTask
<1>13. ASSUME NEW q, NEW s, Good(q, s)
       PROVE  Good(q, s)'
  BY <1>1, <1>11, <1>12, <1>13, GoodStays
<1>14. Stored'
  <2>1. PICK q, s, qd, sd : q = p /\ s = rs /\ qd = disk'.pending /\ sd = disk'.rec
    OBVIOUS
  <2>2. Good(q, s)' /\ Good(qd, sd)'
    BY <1>8, <1>10, <1>13, <2>1
  <2> QED BY <1>1, <1>10, <2>1, <2>2 DEF Stored
<1>15. FlatTypes'
  <2>1. LifeTypes'
    BY <1>1, <1>2 DEF FlatTypes, LifeTypes
  <2>2. TaskTypes' /\ CallTypes'
    BY <1>1, <1>2 DEF FlatTypes, TaskTypes, CallTypes
  <2> QED BY <1>10, <2>1, <2>2 DEF FlatTypes
<1>16. RequestsRight'
  <2>1. ASSUME NEW x \in Requests
        PROVE  RequestRight(x)'
    <3>1. Bound(x)' = Bound(x)
      <4>1. rec'[x].status = rs[x].status
        BY <1>1
      <4> QED BY <1>4, <4>1 DEF Bound
    <3> QED BY <1>1, <1>2, <1>11, <3>1 DEF RequestRight
  <2> QED BY <2>1 DEF RequestsRight
<1> QED BY <1>3, <1>14, <1>15, <1>16, IdleStep

-----------------------------------------------------------------------------
(* The theorems.                                                           *)

\* Every step of the specification keeps the invariant.
LEMMA NewStep == ASSUME NewInv, [Next]_vars PROVE NewInv'
<1>1. CASE UNCHANGED vars
  <2>1. /\ UNCHANGED <<life, tasks, callback, provider, begun>>
        /\ pending' = pending /\ rec' = rec /\ disk' = disk /\ archived' = archived
    BY <1>1 DEF vars, memory
  <2>2. PICK p, rs, d, a : p = pending /\ rs = rec /\ d = disk /\ a = archived
    OBVIOUS
  <2> QED BY <2>1, <2>2, StoredIs, StoreStep
<1>2. ASSUME NEW t \in Tasks, Task(t)
      PROVE  NewInv'
  BY <1>2, ReuseStep, CreateStep, CreateDoneStep, CreateFailsStep, TopicDoneStep,
     PrepareRejectedStep, PrepareDoneStep, IssueStep, SucceedStep, RefusedStep, AbandonStep
  DEF Task
<1>3. ASSUME NEW r \in Requests, Request(r)
      PROVE  NewInv'
  BY <1>3, SubmitBotStep, ResumeStep, SpawnStep, AcceptRejectStep, RespondStep, EvictStep,
     RecheckStep, ArchiveStep
  DEF Request
<1> QED BY <1>1, <1>2, <1>3, SubmitAppStep, FlushStep, CrashStep, StartStep DEF Next

\* The types hold, the storage is one that a restart may find, in memory and on
\* disk, and every task knows how its request stands: whatever the requests, the
\* crashes, and the other clients.
THEOREM NewSessionInvariant == Spec => []NewInv
<1>1. Init => NewInv
  <2> SUFFICES ASSUME Init
               PROVE  NewInv
    OBVIOUS
  <2> DEFINE blank == [r \in Requests |-> [status |-> "none", receipt |-> "none"]]
  <2>1. /\ blank \in [Requests -> Record] /\ NoPending \in Pending
        /\ \A r \in Requests : blank[r].status = "none" /\ blank[r].receipt = "none"
    BY DEF Record, Status, Receipt, NoPending, Pending
  <2>2. /\ pending = NoPending /\ rec = blank
        /\ disk.pending = pending /\ disk.rec = rec /\ disk.archived = archived
    BY DEF Init
  <2> HIDE DEF blank
  <2>3. FlatTypes
    <3>1. LifeTypes /\ CallTypes
      BY NewSessionAssumption DEF Init, LifeTypes, CallTypes
    <3>2. TaskTypes
      BY DEF Init, TaskTypes, Stages
    <3>3. disk \in Disks
      <4>1. disk = [pending |-> pending, rec |-> rec, archived |-> archived]
        BY DEF Init
      <4>2. archived \in [Requests -> BOOLEAN]
        BY <3>1 DEF LifeTypes
      <4> QED BY <2>1, <2>2, <4>1, <4>2 DEF Disks
    <3> QED BY <3>1, <3>2, <3>3 DEF FlatTypes
  <2>4. \A r \in Requests : /\ ~Out(r) /\ ~Asked(r) /\ spawn[r] = "none" /\ rpc[r] = "none"
                            /\ created[r] = 0 /\ accepted[r] = 0 /\ ~callback[r]
    BY DEF Init, Out, Asked
  <2>5. \A t \in Tasks : pc[t] = "idle" /\ reply[t] = "none"
    BY DEF Init
  <2>6. Good(pending, rec)
    <3>1. \A r \in Requests : Honest(rec[r], r)
      BY <2>1, <2>2, <2>4 DEF Honest
    <3>2. \A r \in AppRequests : ~Wanted(r)
      BY <2>4, <2>5, AppTaskIs DEF Wanted
    <3> QED BY <2>1, <2>2, <3>1, <3>2 DEF Good, Kept
  <2>7. Stored
    BY <2>2, <2>6 DEF Stored
  <2>8. RequestsRight
    BY <2>4 DEF RequestsRight, RequestRight
  <2>9. TasksRight /\ OneSender
    BY <2>5 DEF TasksRight, TaskRight, OneSender, Calling
  <2> QED BY <2>3, <2>7, <2>8, <2>9, InvWhole
<1>2. NewInv /\ [Next]_vars => NewInv'
  BY NewStep
<1> QED BY <1>1, <1>2, PTL DEF Spec

\* The provider makes one thread for a request at most, whoever asks again, and
\* whatever crashed in between.
THEOREM ThreadIsOne == Spec => []OneThread
<1>1. NewInv => OneThread
  BY DEF NewInv, RequestsRight, RequestRight, OneThread
<1> QED BY <1>1, NewSessionInvariant, PTL

\* The desktop's input is on disk from before the provider is asked for a thread.
THEOREM InputIsKept == Spec => []InputKept
<1>1. NewInv => InputKept
  <2> SUFFICES ASSUME NewInv, NEW r \in AppRequests, spawn[r] = "flight" \/ created[r] > 0
               PROVE  \/ disk.pending.req = r /\ disk.pending.status \in {"preparing", "unknown"}
                      \/ disk.rec[r].status # "none"
    BY DEF InputKept
  <2>1. Wanted(r)
    BY DEF Wanted, Asked
  <2> QED BY <2>1, StoredIs DEF Good, Kept
<1> QED BY <1>1, NewSessionInvariant, PTL

\* Two tasks never work on the first message of one thread.
THEOREM SenderIsOne == Spec => []OneSender
<1>1. NewInv => OneSender
  BY DEF NewInv
<1> QED BY <1>1, NewSessionInvariant, PTL

\* Where no other client holds an active turn, the first message is taken once at
\* most, by whichever actor sends it.
THEOREM FirstMessageIsOnce == ASSUME Steers = FALSE PROVE Spec => []FirstMessageOnce
<1>1. NewInv => FirstMessageOnce
  BY DEF NewInv, RequestsRight, RequestRight, FirstMessageOnce
<1> QED BY <1>1, NewSessionInvariant, PTL

\* And what its record says of it is so, in memory and after a restart: "sent" of
\* a message the provider took, "failed" of one it has not taken and never will.
THEOREM RecordIsHonest == ASSUME Steers = FALSE PROVE Spec => []RecordHonest
<1>1. NewInv => RecordHonest
  <2> SUFFICES ASSUME NewInv
               PROVE  RecordHonest
    OBVIOUS
  <2>1. ASSUME NEW r \in Requests, NEW record \in {rec[r], Durable(r)}
        PROVE  Honest(record, r)
    <3>1. /\ rec[r] \in Record /\ Honest(rec[r], r)
          /\ disk.rec[r] \in Record /\ Honest(disk.rec[r], r)
      BY StoredIs DEF Good, Disks
    <3> QED BY <3>1, RestoredIs DEF Durable
  <2>2. ASSUME NEW r \in Requests, NEW record \in {rec[r], Durable(r)}
        PROVE  /\ record.status = "failed" => accepted[r] = 0 /\ rpc[r] # "flight"
               /\ record.status = "sent" => accepted[r] > 0
    <3>1. Honest(record, r)
      BY <2>1
    <3>2. accepted[r] \in Nat
      BY InvParts DEF FlatTypes, CallTypes
    <3> QED BY <3>1, <3>2 DEF Honest, Out
  <2> QED BY <2>2 DEF RecordHonest, FailedMeansUndelivered, SentMeansDelivered
<1> QED BY <1>1, NewSessionInvariant, PTL
=============================================================================
