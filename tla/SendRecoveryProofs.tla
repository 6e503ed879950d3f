------------------------ MODULE SendRecoveryProofs ------------------------
(***************************************************************************)
(* Proofs about SendRecovery, for every set of sessions, requests and      *)
(* untracked messages and every number of crashes.                         *)
(***************************************************************************)
EXTENDS SendRecovery, TLAPS

DiskType == [recovery : [Sessions -> Record], archived : [Sessions -> BOOLEAN]]

-----------------------------------------------------------------------------
(* What the helpers return.                                                *)

\* Setting a status or a receipt keeps the records well-formed.
LEMMA RecordTypes ==
  ASSUME NEW rec \in [Sessions -> Record], NEW s \in Sessions
  PROVE  /\ \A st \in Status : WithStatus(rec, s, st) \in [Sessions -> Record]
         /\ \A rct \in Receipt : WithReceipt(rec, s, rct) \in [Sessions -> Record]
BY DEF WithStatus, WithReceipt, Record

\* Only one field of one session's record changes.
LEMMA RecordFields ==
  ASSUME NEW rec \in [Sessions -> Record], NEW s \in Sessions, NEW x
  PROVE  /\ \A t \in Sessions \ {s} : /\ WithStatus(rec, s, x)[t] = rec[t]
                                     /\ WithReceipt(rec, s, x)[t] = rec[t]
         /\ WithStatus(rec, s, x)[s].req = rec[s].req
         /\ WithStatus(rec, s, x)[s].status = x
         /\ WithStatus(rec, s, x)[s].receipt = rec[s].receipt
         /\ WithReceipt(rec, s, x)[s].req = rec[s].req
         /\ WithReceipt(rec, s, x)[s].status = rec[s].status
         /\ WithReceipt(rec, s, x)[s].receipt = x
BY DEF WithStatus, WithReceipt, Record

\* Every way of saving leaves a well-formed storage.
LEMMA SaveTypes ==
  ASSUME TypeOK, NEW rec \in [Sessions -> Record]
  PROVE  /\ Snapshot(rec, archived) \in DiskType
         /\ Saves(rec) => disk' \in DiskType
         /\ SaveRaises(rec) => disk' \in DiskType
         /\ MaySave(rec) => disk' \in DiskType
BY DEF TypeOK, Snapshot, Saves, SaveRaises, MaySave, DiskType

\* Checkpoints and receipts keep memory and disk well-formed.
LEMMA WriteTypes ==
  ASSUME TypeOK, NEW s \in Sessions, NEW r
  PROVE  /\ \A st \in Status : Checkpoint(s, r, st) =>
              recovery' \in [Sessions -> Record] /\ disk' \in DiskType
         /\ \A rct \in Receipt : RecordReceipt(s, r, rct) =>
              recovery' \in [Sessions -> Record] /\ disk' \in DiskType
<1>0. recovery \in [Sessions -> Record] /\ disk \in DiskType
  BY DEF TypeOK, DiskType
<1>1. ASSUME NEW st \in Status, Checkpoint(s, r, st)
      PROVE  recovery' \in [Sessions -> Record] /\ disk' \in DiskType
  <2>1. CASE recovery[s].req # r
    BY <1>0, <1>1, <2>1 DEF Checkpoint
  <2>2. CASE recovery[s].req = r
    <3>1. recovery' = WithStatus(recovery, s, st) /\ MaySave(recovery')
      BY <1>1, <2>2 DEF Checkpoint
    <3>2. recovery' \in [Sessions -> Record]
      BY <1>0, <3>1, RecordTypes
    <3> QED BY <3>1, <3>2, SaveTypes
  <2> QED BY <2>1, <2>2
<1>2. ASSUME NEW rct \in Receipt, RecordReceipt(s, r, rct)
      PROVE  recovery' \in [Sessions -> Record] /\ disk' \in DiskType
  <2>1. CASE archived[s] \/ recovery[s].req # r
    BY <1>0, <1>2, <2>1 DEF RecordReceipt
  <2>2. CASE ~(archived[s] \/ recovery[s].req # r)
    <3>1. recovery' = WithReceipt(recovery, s, rct) /\ MaySave(recovery')
      BY <1>2, <2>2 DEF RecordReceipt
    <3>2. recovery' \in [Sessions -> Record]
      BY <1>0, <3>1, RecordTypes
    <3> QED BY <3>1, <3>2, SaveTypes
  <2> QED BY <2>1, <2>2
<1> QED BY <1>1, <1>2

-----------------------------------------------------------------------------
(* The fallback ladder.  Its seven actions make four kinds of step.        *)

Refused(m) == reply[m] = "err" \/ pc[m] = "resume"

\* On to the next call, with no receipt to reset.
Moves(m) ==
  /\ Refused(m)
  /\ UNCHANGED <<recovery, disk>>
  /\ \E stage \in Calling :
       /\ Goto(m, stage)
       /\ \/ stage = "resume"
          \/ owner[m] = NoRequest \/ m \in Untracked
          \/ recovery[SessionOf[m]].receipt = "none"
          \/ recovery[SessionOf[m]].status # "sending"

\* On to the next call after the receipt is reset, or the end if that fails.
Resets(m) ==
  /\ Refused(m)
  /\ \E stage \in Calling, r \in {owner[m], recovery[SessionOf[m]].req} :
       Reset(m, r, stage)

Ladder(m) ==
  /\ pc[m] \in Calling
  /\ UNCHANGED <<life, archived, callback, provider, client>>
  /\ \/ reply[m] = "ok" /\ Finish(m, "sent")
     \/ Finish(m, "unknown")
     \/ Moves(m)
     \/ Resets(m)

\* Every step of the ladder is of one of these kinds.
LEMMA LadderSteps ==
  ASSUME NEW m \in Messages, TypeOK,
         \/ Succeed(m) \/ SteerRefused(m) \/ StartRefused(m) \/ Resumed(m)
         \/ RetryRefused(m) \/ QueueRefused(m) \/ Abandon(m)
  PROVE  Ladder(m)
<1>1. ASSUME Refused(m), NEW stage \in Calling, GotoTurn(m, stage)
      PROVE  Moves(m) \/ Resets(m)
  BY <1>1 DEF GotoTurn, Moves, Resets
<1>2. ASSUME Refused(m), GotoQueue(m)
      PROVE  Moves(m) \/ Resets(m)
  BY <1>2 DEF GotoQueue, Moves, Resets, Calling
<1>3. CASE Succeed(m)
  BY <1>3 DEF Succeed, Ladder, Calling
<1>4. CASE SteerRefused(m)
  BY <1>1, <1>2, <1>4
  DEF SteerRefused, Ladder, Raise, Refused, Calling, RpcStages
<1>5. CASE StartRefused(m)
  BY <1>2, <1>5
  DEF StartRefused, Ladder, Raise, Refused, Moves, Calling, RpcStages
<1>6. CASE Resumed(m)
  BY <1>1, <1>2, <1>6
  DEF Resumed, Ladder, Raise, Refused, Calling, RpcStages
<1>7. CASE RetryRefused(m)
  BY <1>2, <1>7 DEF RetryRefused, Ladder, Raise, Refused, Calling, RpcStages
<1>8. CASE QueueRefused(m)
  BY <1>8 DEF QueueRefused, Ladder, Raise, Calling
<1>9. CASE Abandon(m)
  BY <1>9 DEF Abandon, Ladder, Raise
<1> QED BY <1>3, <1>4, <1>5, <1>6, <1>7, <1>8, <1>9

-----------------------------------------------------------------------------
(* Type correctness.                                                       *)

\* The steps of the ladder preserve the types.
LEMMA LadderTypes ==
  ASSUME NEW m \in Messages, TypeOK, Ladder(m)
  PROVE  TypeOK'
<1> DEFINE s == SessionOf[m]
<1>0. /\ recovery \in [Sessions -> Record] /\ disk \in DiskType /\ s \in Sessions
      /\ pc[m] \in Stages /\ {"idle"} \cup Calling \subseteq Stages
  BY SendRecoveryAssumption DEF TypeOK, DiskType, Stages
<1>1. UNCHANGED <<life, archived, callback, provider, client>>
  BY DEF Ladder
<1>2. SUFFICES /\ recovery' \in [Sessions -> Record]
               /\ disk' \in DiskType
               /\ \/ Ends(m)
                  \/ \E stage \in Calling : Goto(m, stage)
  <2>1. CASE Ends(m)
    BY <1>0, <1>1, <1>2, <2>1
    DEF TypeOK, DiskType, Ends, life, provider, client
  <2>2. CASE \E stage \in Calling : Goto(m, stage)
    BY <1>0, <1>1, <1>2, <2>2
    DEF TypeOK, DiskType, Goto, life, provider, client
  <2> QED BY <1>2, <2>1, <2>2
<1>3. ASSUME NEW st \in Status, Finish(m, st)
      PROVE  recovery' \in [Sessions -> Record] /\ disk' \in DiskType /\ Ends(m)
  BY <1>0, <1>3, WriteTypes DEF Finish
<1>4. ASSUME NEW r, NEW stage \in Calling, Reset(m, r, stage)
      PROVE  /\ recovery' \in [Sessions -> Record] /\ disk' \in DiskType
             /\ Ends(m) \/ Goto(m, stage)
  <2> DEFINE blank == WithReceipt(recovery, s, "blank")
             last  == IF m \in Requests THEN WithStatus(blank, s, "unknown")
                                        ELSE blank
  <2>1. blank \in [Sessions -> Record] /\ last \in [Sessions -> Record]
    BY <1>0, RecordTypes DEF Receipt, Status
  <2>2. Snapshot(blank, archived) \in DiskType /\ Snapshot(last, archived) \in DiskType
    BY <2>1, SaveTypes
  <2> QED BY <1>0, <1>4, <2>1, <2>2 DEF Reset, Saves
<1>5. CASE Moves(m)
  BY <1>0, <1>5 DEF Moves
<1>6. CASE Resets(m)
  BY <1>4, <1>6 DEF Resets
<1> QED BY <1>3, <1>5, <1>6 DEF Ladder, Status

\* Every step preserves the types.
LEMMA TypeStep ==
  ASSUME TypeOK, [Next]_vars
  PROVE  TypeOK'
<1> USE SendRecoveryAssumption
<1>0. /\ recovery \in [Sessions -> Record] /\ disk \in DiskType
      /\ \A m \in Messages : SessionOf[m] \in Sessions
      /\ \A r \in Requests : r \in Messages
      /\ {"preparing", "sending", "sent", "failed", "unknown"} \subseteq Status
  BY DEF TypeOK, DiskType, Messages, Status
<1>1. ASSUME NEW r \in Requests, Submit(r)
      PROVE  TypeOK'
  <2> DEFINE s     == SessionOf[r]
             fresh == [recovery EXCEPT ![s] =
                        [req |-> r, status |-> "preparing", receipt |-> "none"]]
  <2>0. s \in Sessions /\ r \in Messages
    BY <1>0
  <2>1. fresh \in [Sessions -> Record] /\ WithStatus(fresh, s, "failed") \in [Sessions -> Record]
    <3>1. fresh \in [Sessions -> Record]
      BY <1>0 DEF Record, Status, Receipt
    <3> QED BY <1>0, <2>0, <3>1, RecordTypes
  <2>2. /\ recovery' \in [Sessions -> Record] /\ disk' \in DiskType
        /\ pc' \in [Messages -> Stages]
    <3>1. CASE Refuse(r)
      BY <1>0, <3>1 DEF Refuse, TypeOK
    <3>2. CASE Admit(r)
      <4> HIDE DEF fresh
      <4>1. recovery' \in [Sessions -> Record]
        BY <2>1, <3>2 DEF Admit, fresh
      <4>2. disk' \in DiskType
        BY <2>1, <3>2, SaveTypes DEF Admit, fresh
      <4>3. pc' \in [Messages -> Stages]
        BY <3>2 DEF Admit, TypeOK, Stages
      <4> QED BY <4>1, <4>2, <4>3
    <3> QED BY <1>1, <3>1, <3>2 DEF Submit
  <2> QED BY <1>0, <1>1, <2>0, <2>2 DEF Submit, TypeOK, DiskType, life, provider
<1>2. ASSUME NEW r \in Requests, PrepareFails(r) \/ SendRejected(r)
      PROVE  TypeOK'
  <2>1. recovery' \in [Sessions -> Record] /\ disk' \in DiskType
    BY <1>0, <1>2, WriteTypes DEF PrepareFails, SendRejected
  <2> QED BY <1>0, <1>2, <2>1
    DEF PrepareFails, SendRejected, TypeOK, DiskType, Stages, life, provider, client
<1>3. ASSUME NEW r \in Requests, PrepareDone(r)
      PROVE  TypeOK'
  BY <1>3 DEF PrepareDone, TypeOK, Stages, life, provider, client
<1>4. ASSUME NEW r \in Requests, SendUnsaved(r)
      PROVE  TypeOK'
  <2> DEFINE s       == SessionOf[r]
             sending == WithStatus(recovery, s, "sending")
             failed  == WithStatus(recovery, s, "failed")
  <2>1. sending \in [Sessions -> Record] /\ failed \in [Sessions -> Record]
    BY <1>0, RecordTypes
  <2>2. Snapshot(sending, archived) \in DiskType /\ Snapshot(failed, archived) \in DiskType
    BY <2>1, SaveTypes
  <2>3. recovery' \in [Sessions -> Record] /\ disk' \in DiskType
    BY <1>0, <1>4, <2>1, <2>2 DEF SendUnsaved
  <2> QED BY <1>0, <1>4, <2>3
    DEF SendUnsaved, TypeOK, DiskType, Stages, life, provider, client
<1>5. ASSUME NEW r \in Requests, SendBegins(r)
      PROVE  TypeOK'
  <2>1. recovery' \in [Sessions -> Record]
    BY <1>0, <1>5, RecordTypes DEF SendBegins
  <2>2. disk' \in DiskType
    BY <1>5, <2>1, SaveTypes DEF SendBegins
  <2> QED BY <1>0, <1>5, <2>1, <2>2
    DEF SendBegins, TypeOK, DiskType, Stages, Calling, RpcStages, life, provider, client
<1>6. ASSUME NEW u \in Untracked, UntrackedSend(u)
      PROVE  TypeOK'
  <2> DEFINE s == SessionOf[u]
             blank == WithReceipt(recovery, s, "blank")
             r == IF recovery[s].status = "sending" THEN recovery[s].req
                                                   ELSE NoRequest
  <2>0. s \in Sessions /\ u \in Messages
    BY <1>0 DEF Messages
  <2>1. blank \in [Sessions -> Record] /\ r \in Requests \cup {NoRequest}
    <3>1. blank \in [Sessions -> Record]
      BY <1>0, <2>0, RecordTypes DEF Receipt
    <3>2. r \in Requests \cup {NoRequest}
      BY <1>0, <2>0 DEF Record
    <3> QED BY <3>1, <3>2
  <2>2. recovery' \in [Sessions -> Record] /\ disk' \in DiskType
    <3>1. CASE UNCHANGED <<recovery, disk>>
      BY <1>0, <3>1
    <3>2. CASE recovery' = blank /\ (Saves(blank) \/ SaveRaises(blank))
      BY <2>1, <3>2, SaveTypes
    <3> QED BY <1>6, <3>1, <3>2 DEF UntrackedSend
  <2>3. pc' \in [Messages -> Stages] /\ owner' \in [Messages -> Requests \cup {NoRequest}]
    BY <1>6, <2>0, <2>1 DEF UntrackedSend, TypeOK, Stages, Calling, RpcStages
  <2> QED BY <1>6, <2>2, <2>3
    DEF UntrackedSend, TypeOK, DiskType, life, provider, client
<1>7. ASSUME NEW m \in Messages, Issue(m) \/ Accept(m) \/ Reject(m)
      PROVE  TypeOK'
  <2>1. CASE Issue(m)
    <3>1. owner[m] \in Requests \cup {NoRequest} /\ SessionOf[m] \in Sessions
      BY <1>0 DEF TypeOK
    <3>2. callback' \in [Sessions -> [msg : Messages \cup {NoRequest},
                                      req : Requests \cup {NoRequest}]]
      BY <2>1, <3>1 DEF Issue, TypeOK
    <3> QED BY <2>1, <3>2 DEF Issue, TypeOK, life, calls, client
  <2>2. CASE Accept(m)
    BY <2>2 DEF Accept, TypeOK, life, calls, client
  <2>3. CASE Reject(m)
    BY <2>3 DEF Reject, TypeOK, life, calls, client
  <2> QED BY <1>7, <2>1, <2>2, <2>3
<1>8. ASSUME NEW m \in Messages, Respond(m)
      PROVE  TypeOK'
  <2>1. recovery' \in [Sessions -> Record] /\ disk' \in DiskType
    BY <1>0, <1>8, WriteTypes DEF Respond, Receipt
  <2>2. reply' \in [Messages -> {"none", "ok", "err"}]
    BY <1>8 DEF Respond, TypeOK
  <2>3. callback' \in [Sessions -> [msg : Messages \cup {NoRequest},
                                    req : Requests \cup {NoRequest}]]
    BY <1>8 DEF Respond, TypeOK, NoCallback
  <2> QED BY <1>8, <2>1, <2>2, <2>3 DEF Respond, TypeOK, DiskType, life, client
<1>9. ASSUME NEW m \in Messages,
             \/ Succeed(m) \/ SteerRefused(m) \/ StartRefused(m) \/ Resumed(m)
             \/ RetryRefused(m) \/ QueueRefused(m) \/ Abandon(m)
      PROVE  TypeOK'
  BY <1>9, LadderSteps, LadderTypes
<1>10. ASSUME NEW s \in Sessions, EvictCallback(s)
       PROVE  TypeOK'
  BY <1>10 DEF EvictCallback, TypeOK, NoCallback, life, calls, provider, client
<1>11. ASSUME NEW s \in Sessions, Recheck(s)
       PROVE  TypeOK'
  <2>1. recovery' \in [Sessions -> Record] /\ disk' \in DiskType
    BY <1>0, <1>11, WriteTypes DEF Recheck
  <2> QED BY <1>11, <2>1
    DEF Recheck, TypeOK, DiskType, life, calls, provider, client
<1>12. ASSUME NEW s \in Sessions, Archive(s) \/ Unarchive(s)
       PROVE  TypeOK'
  <2> DEFINE shut == [archived EXCEPT ![s] = TRUE]
             open == [archived EXCEPT ![s] = FALSE]
  <2>1. shut \in [Sessions -> BOOLEAN] /\ open \in [Sessions -> BOOLEAN]
    BY DEF TypeOK
  <2>2. Snapshot(recovery, shut) \in DiskType
    BY <1>0, <2>1 DEF Snapshot, DiskType
  <2>3. archived' \in [Sessions -> BOOLEAN] /\ disk' \in DiskType
    <3>1. CASE Archive(s)
      <4> HIDE DEF shut
      <4> QED BY <1>0, <2>1, <2>2, <3>1 DEF Archive, TypeOK, shut
    <3>2. CASE Unarchive(s)
      BY <1>0, <2>1, <3>2 DEF Unarchive
    <3> QED BY <1>12, <3>1, <3>2
  <2> QED BY <1>12, <2>3
    DEF Archive, Unarchive, TypeOK, DiskType, life, calls, provider, client
<1>13. CASE Flush
  BY <1>13 DEF Flush, Snapshot, TypeOK, life, calls, provider, client
<1>14. CASE Crash
  <2>1. crashes' \in 0 .. MaxCrashes
    BY <1>14 DEF Crash, TypeOK
  <2> QED BY <1>14, <2>1 DEF Crash, TypeOK, NoCallback, Stages, provider, client
<1>15. CASE Start
  <2>1. ASSUME NEW rec \in Record
        PROVE  Restored(rec) \in Record
    BY <2>1 DEF Restored, Record, Status
  <2> DEFINE rec == [s \in Sessions |-> IF archived[s] THEN recovery[s]
                                        ELSE Restored(recovery[s])]
  <2>2. rec \in [Sessions -> Record]
    BY <1>0, <2>1
  <2>3. \A saved \in SUBSET Sessions :
          [s \in Sessions |-> IF s \in saved THEN rec[s] ELSE recovery[s]]
            \in [Sessions -> Record]
    BY <1>0, <2>2
  <2> HIDE DEF rec
  <2>4. recovery' = rec /\ disk' \in DiskType
    BY <1>15, <2>3, SaveTypes DEF Start, rec
  <2> QED BY <1>15, <2>2, <2>4
    DEF Start, TypeOK, DiskType, calls, provider, client
<1>16. CASE UNCHANGED vars
  BY <1>16 DEF vars, TypeOK, life, calls, provider, client
<1> QED BY <1>1, <1>2, <1>3, <1>4, <1>5, <1>6, <1>7, <1>8, <1>9, <1>10, <1>11,
           <1>12, <1>13, <1>14, <1>15, <1>16
        DEF Next, Tracked, Call, Session

\* The variables keep their types in every behaviour: in particular no code
\* path writes a status or a receipt outside the protocol's.
THEOREM TypeCorrect == Spec => []TypeOK
<1>1. Init => TypeOK
  BY SendRecoveryAssumption
  DEF Init, TypeOK, NoRecord, Record, Status, Receipt, NoCallback, Stages
<1> QED BY <1>1, TypeStep, PTL DEF Spec

-----------------------------------------------------------------------------
(* At most once.  Delivery is inductive: what a step may do to the records *)
(* comes in two shapes, and each shape preserves the ownership.            *)

\* Requests and statuses stay; the disk is brought up to date or not.
KeepsRecords ==
  \A t \in Sessions :
    /\ recovery'[t].req = recovery[t].req
    /\ recovery'[t].status = recovery[t].status
    /\ \/ /\ disk'.recovery[t].req = disk.recovery[t].req
          /\ disk'.recovery[t].status = disk.recovery[t].status
       \/ /\ disk'.recovery[t].req = recovery[t].req
          /\ disk'.recovery[t].status = recovery[t].status

\* The record of session s may change its status, but not its request.
Resettles(s) ==
  /\ \A t \in Sessions \ {s} :
       /\ recovery'[t] = recovery[t]
       /\ disk'.recovery[t] \in {disk.recovery[t], recovery[t]}
  /\ recovery'[s].req = recovery[s].req
  /\ disk'.recovery[s].req \in {disk.recovery[s].req, recovery[s].req}

\* Saving nothing new keeps the records.
LEMMA FlushKeeps ==
  ASSUME TypeOK, NEW arch, UNCHANGED recovery,
         disk' \in {disk, Snapshot(recovery, arch)}
  PROVE  KeepsRecords
BY DEF TypeOK, KeepsRecords, Snapshot

\* A checkpoint changes one status.
LEMMA CheckpointResettles ==
  ASSUME TypeOK, NEW s \in Sessions, NEW r, NEW st, Checkpoint(s, r, st)
  PROVE  Resettles(s)
BY DEF TypeOK, Checkpoint, WithStatus, MaySave, Saves, SaveRaises, Snapshot,
       Resettles, Record

\* A receipt changes no status.
LEMMA ReceiptKeeps ==
  ASSUME TypeOK, NEW s \in Sessions, NEW rct,
         \/ UNCHANGED <<recovery, disk>>
         \/ recovery' = WithReceipt(recovery, s, rct) /\ MaySave(recovery')
  PROVE  KeepsRecords
<1>1. CASE UNCHANGED <<recovery, disk>>
  BY <1>1 DEF KeepsRecords
<1>2. CASE recovery' = WithReceipt(recovery, s, rct) /\ MaySave(recovery')
  <2>1. /\ \A t \in Sessions \ {s} : recovery'[t] = recovery[t]
        /\ recovery'[s].req = recovery[s].req
        /\ recovery'[s].status = recovery[s].status
    BY <1>2, RecordFields DEF TypeOK
  <2>2. disk' = disk \/ disk'.recovery = recovery'
    BY <1>2 DEF MaySave, Saves, SaveRaises, Snapshot
  <2> QED BY <2>1, <2>2 DEF KeepsRecords
<1> QED BY <1>1, <1>2

\* A reset keeps the records when the send goes on or was not tracked, and
\* else changes the status of its own session only.
LEMMA ResetShape ==
  ASSUME TypeOK, NEW m \in Messages, NEW r, NEW stage \in Calling,
         Reset(m, r, stage)
  PROVE  \/ Goto(m, stage) /\ KeepsRecords
         \/ m \in Untracked /\ Ends(m) /\ KeepsRecords
         \/ m \in Requests /\ Ends(m) /\ Resettles(SessionOf[m])
<1> DEFINE s     == SessionOf[m]
           blank == WithReceipt(recovery, s, "blank")
<1>0. s \in Sessions /\ recovery \in [Sessions -> Record]
  BY SendRecoveryAssumption DEF TypeOK
<1>1. CASE archived[s] \/ recovery[s].req # r
  <2>1. UNCHANGED <<recovery, disk>> /\ Goto(m, stage)
    BY <1>1 DEF Reset
  <2> QED BY <2>1, ReceiptKeeps, <1>0
<1>2. CASE ~(archived[s] \/ recovery[s].req # r)
  <2>1. CASE recovery' = blank /\ Saves(blank) /\ Goto(m, stage)
    BY <2>1, ReceiptKeeps, <1>0 DEF MaySave
  <2>2. CASE /\ m \in Untracked /\ recovery' = blank /\ Ends(m)
             /\ disk' \in {disk, Snapshot(blank, archived)}
    BY <2>2, ReceiptKeeps, <1>0 DEF MaySave, SaveRaises
  <2>3. CASE /\ m \in Requests /\ Ends(m)
             /\ recovery' = WithStatus(blank, s, "unknown")
             /\ disk' \in {disk, Snapshot(blank, archived), Snapshot(recovery', archived)}
    <3> DEFINE last == WithStatus(blank, s, "unknown")
    <3>1. blank \in [Sessions -> Record]
      BY <1>0, RecordTypes DEF Receipt
    <3>2. /\ \A t \in Sessions \ {s} : last[t] = recovery[t] /\ blank[t] = recovery[t]
          /\ last[s].req = recovery[s].req /\ blank[s].req = recovery[s].req
      <4>1. /\ \A t \in Sessions \ {s} : blank[t] = recovery[t]
            /\ blank[s].req = recovery[s].req
        BY <1>0, RecordFields
      <4> HIDE DEF blank
      <4>2. /\ \A t \in Sessions \ {s} : last[t] = blank[t]
            /\ last[s].req = blank[s].req
        BY <1>0, <3>1, RecordFields
      <4> QED BY <4>1, <4>2
    <3> HIDE DEF blank, last
    <3>3. /\ recovery' = last
          /\ \/ disk' = disk \/ disk'.recovery = blank \/ disk'.recovery = last
      BY <2>3 DEF Snapshot, last
    <3> QED BY <2>3, <3>2, <3>3 DEF Resettles
  <2> QED BY <1>2, <2>1, <2>2, <2>3 DEF Reset, Messages
<1> QED BY <1>1, <1>2

\* Who owns a record survives a step that keeps the records ...
LEMMA OwnedKept ==
  ASSUME Delivery, KeepsRecords,
         \A r \in Requests :
           \/ pc'[r] \in {pc[r], "idle"}
           \/ pc[r] \in Calling /\ pc'[r] \in Calling
           \/ pc[r] = "preparing" /\ pc'[r] = "queued"
  PROVE  RecordOwned'
BY SendRecoveryAssumption
DEF Delivery, RecordOwned, KeepsRecords, Calling, RpcStages, Messages

\* ... and one that resettles a session in which nothing runs any more.
LEMMA OwnedResettled ==
  ASSUME Delivery, NEW s \in Sessions, Resettles(s),
         \A r \in Requests :
           /\ pc'[r] \in {pc[r], "idle"}
           /\ SessionOf[r] = s => pc'[r] = "idle"
  PROVE  RecordOwned'
BY SendRecoveryAssumption
DEF Delivery, RecordOwned, Resettles, Calling, RpcStages, Messages

\* In both the composer's latest request stays on record.
LEMMA RememberedKept ==
  ASSUME Delivery, UNCHANGED latest,
         KeepsRecords \/ \E s \in Sessions : Resettles(s),
         \A r \in Requests :
           accepted'[r] > 0 \/ rpc'[r] # "none"
             => accepted[r] > 0 \/ rpc[r] # "none"
  PROVE  LatestRemembered'
<1>1. \A t \in Sessions :
        /\ recovery'[t].req = recovery[t].req
        /\ disk'.recovery[t].req \in {disk.recovery[t].req, recovery[t].req}
  BY DEF KeepsRecords, Resettles
<1> QED BY <1>1 DEF Delivery, LatestRemembered, TypeOK

\* The task that runs in a session is the only one.
LEMMA OneTask ==
  ASSUME Delivery, NEW r \in Requests, pc[r] # "idle",
         NEW q \in Requests, SessionOf[q] = SessionOf[r], q # r
  PROVE  pc[q] = "idle"
BY DEF Delivery, RecordOwned

\* The handler of a submission.
LEMMA SubmitDelivery ==
  ASSUME Delivery, TypeOK', NEW r \in Requests, Submit(r)
  PROVE  Delivery'
<1> USE SendRecoveryAssumption
<1> DEFINE s == SessionOf[r]
<1>0. /\ TypeOK /\ CallsConsistent /\ RecordOwned /\ IdsFresh
      /\ LatestRemembered /\ DownMirrors
      /\ r \in Messages /\ Requests \subseteq Messages
      /\ \A q \in Requests : SessionOf[q] \in Sessions
  BY DEF Delivery, Messages
<1>1. /\ up /\ up' = up /\ crashes' = crashes /\ archived' = archived
      /\ UNCHANGED <<owner, reply, callback, rpc, accepted>>
      /\ issued' = issued \cup {r}
      /\ latest' = [latest EXCEPT ![s] = r]
      /\ r \notin issued \/ latest[s] = r
  BY DEF Submit, life, provider
<1>2. CASE Refuse(r)
  <2>1. UNCHANGED <<recovery, disk, pc>>
    BY <1>2 DEF Refuse
  <2>2. r \notin issued => accepted[r] = 0 /\ rpc[r] = "none"
    BY <1>0 DEF IdsFresh
  <2>3. CallsConsistent' /\ RecordOwned' /\ DownMirrors'
    BY <1>0, <1>1, <2>1 DEF CallsConsistent, RecordOwned, DownMirrors
  <2>4. IdsFresh'
    BY <1>0, <1>1, <2>1 DEF IdsFresh, TypeOK
  <2>5. LatestRemembered'
    BY <1>0, <1>1, <2>1, <2>2 DEF LatestRemembered, TypeOK
  <2> QED BY <2>3, <2>4, <2>5 DEF Delivery
<1>3. CASE Admit(r)
  <2>1. /\ \A t \in Sessions \ {s} : recovery'[t] = recovery[t]
        /\ recovery'[s].req = r
        /\ disk' = disk \/ disk'.recovery = recovery' \/
             \A t \in Sessions \ {s} : disk'.recovery[t] = recovery[t]
        /\ recovery[s].req # r /\ recovery[s].status \notin Unresolved
        /\ \A q \in Requests \ {r} : pc'[q] = pc[q]
    BY <1>0, <1>3 DEF Admit, Saves, SaveRaises, Snapshot, TypeOK, WithStatus, Record
  <2>2. \/ pc' = pc
        \/ pc'[r] = "preparing" /\ recovery'[s].status = "preparing"
    <3>1. CASE UNCHANGED pc
      BY <3>1
    <3>2. CASE pc' = [pc EXCEPT ![r] = "preparing"]
      <4>1. \/ pc' = pc
            \/ recovery' = [recovery EXCEPT ![s] =
                 [req |-> r, status |-> "preparing", receipt |-> "none"]]
        BY <1>3 DEF Admit
      <4> QED BY <1>0, <3>2, <4>1 DEF TypeOK
    <3> QED BY <1>3, <3>1, <3>2 DEF Admit
  <2>3. \A q \in Requests : SessionOf[q] = s => pc[q] = "idle"
    BY <1>0, <2>1 DEF RecordOwned, Unresolved, TypeOK, Stages, Calling
  <2>4. accepted[r] = 0 /\ rpc[r] = "none"
    <3>1. r \notin issued => accepted[r] = 0 /\ rpc[r] = "none"
      BY <1>0 DEF IdsFresh
    <3>2. latest[s] = r => accepted[r] = 0 /\ rpc[r] = "none"
      BY <1>0, <2>1 DEF LatestRemembered, CallsConsistent
    <3> QED BY <1>1, <3>1, <3>2
  <2>5. CallsConsistent'
    BY <1>0, <1>1, <2>1, <2>2, <2>3, <2>4
    DEF CallsConsistent, TypeOK, Stages, Calling, RpcStages
  <2>6. RecordOwned'
    BY <1>0, <1>1, <2>1, <2>2, <2>3 DEF RecordOwned, TypeOK, Calling, RpcStages
  <2>7. IdsFresh'
    BY <1>0, <1>1, <2>1 DEF IdsFresh, TypeOK
  <2>8. LatestRemembered'
    BY <1>0, <1>1, <2>1, <2>4 DEF LatestRemembered, TypeOK
  <2>9. DownMirrors'
    BY <1>1 DEF DownMirrors
  <2> QED BY <2>5, <2>6, <2>7, <2>8, <2>9 DEF Delivery
<1> QED BY <1>2, <1>3 DEF Submit

\* Preparing the send and entering the provider call.
LEMMA TaskDelivery ==
  ASSUME Delivery, TypeOK', NEW r \in Requests,
         \/ PrepareFails(r) \/ PrepareDone(r)
         \/ SendRejected(r) \/ SendUnsaved(r) \/ SendBegins(r)
  PROVE  Delivery'
<1> USE SendRecoveryAssumption
<1> DEFINE s == SessionOf[r]
<1>0. /\ TypeOK /\ CallsConsistent /\ RecordOwned /\ IdsFresh
      /\ LatestRemembered /\ DownMirrors
      /\ r \in Messages /\ Requests \subseteq Messages
      /\ \A q \in Requests : SessionOf[q] \in Sessions
  BY DEF Delivery, Messages
<1>1. /\ UNCHANGED <<up, crashes, archived, reply, rpc, accepted, issued, latest>>
      /\ pc[r] \in {"preparing", "queued"}
      /\ \A q \in Requests \ {r} : pc'[q] = pc[q]
      /\ \A q \in Requests : SessionOf[q] = s /\ q # r => pc[q] = "idle"
  <2>1. pc[r] \in {"preparing", "queued"}
    BY DEF PrepareFails, PrepareDone, SendRejected, SendUnsaved, SendBegins
  <2>2. \A q \in Requests : SessionOf[q] = s /\ q # r => pc[q] = "idle"
    BY <2>1, OneTask
  <2> QED BY <1>0, <2>1, <2>2
    DEF PrepareFails, PrepareDone, SendRejected, SendUnsaved, SendBegins,
        life, provider, client, TypeOK
<1>2. up
  BY <1>0, <1>1 DEF DownMirrors
<1>3. r \in issued /\ pc'[r] \in {"idle", "queued", "steer", "start"}
  BY <1>0, <1>1 DEF IdsFresh, PrepareFails, PrepareDone, SendRejected,
     SendUnsaved, SendBegins, TypeOK
<1>4. CallsConsistent' /\ IdsFresh' /\ DownMirrors'
  <2>1. CallsConsistent'
    BY <1>0, <1>1, <1>3 DEF CallsConsistent, TypeOK, Stages, Calling, RpcStages
  <2> QED BY <1>0, <1>1, <1>2, <1>3, <2>1 DEF IdsFresh, DownMirrors
<1>5. CASE PrepareFails(r) \/ SendRejected(r)
  <2>1. Resettles(s) /\ pc'[r] = "idle"
    BY <1>0, <1>5, CheckpointResettles DEF PrepareFails, SendRejected, TypeOK
  <2> QED BY <1>0, <1>1, <1>4, <2>1, OwnedResettled, RememberedKept DEF Delivery
<1>6. CASE PrepareDone(r)
  <2>1. UNCHANGED <<recovery, disk>> /\ pc[r] = "preparing" /\ pc'[r] = "queued"
    BY <1>0, <1>6 DEF PrepareDone, TypeOK
  <2>2. KeepsRecords
    BY <2>1 DEF KeepsRecords
  <2> QED BY <1>0, <1>1, <1>4, <2>1, <2>2, OwnedKept, RememberedKept DEF Delivery
<1>7. CASE SendUnsaved(r)
  <2> DEFINE sending == WithStatus(recovery, s, "sending")
             failed  == WithStatus(recovery, s, "failed")
  <2>1. /\ \A t \in Sessions \ {s} : sending[t] = recovery[t] /\ failed[t] = recovery[t]
        /\ sending[s].req = recovery[s].req /\ failed[s].req = recovery[s].req
    <3>1. recovery \in [Sessions -> Record] /\ s \in Sessions
      BY <1>0 DEF TypeOK
    <3> QED BY <3>1, RecordFields
  <2> HIDE DEF sending, failed
  <2>2. /\ recovery' = failed /\ pc'[r] = "idle"
        /\ disk' = disk \/ disk'.recovery = sending \/ disk'.recovery = failed
    BY <1>0, <1>7 DEF SendUnsaved, Snapshot, TypeOK, sending, failed
  <2>3. Resettles(s)
    BY <2>1, <2>2 DEF Resettles
  <2> QED BY <1>0, <1>1, <1>4, <2>2, <2>3, OwnedResettled, RememberedKept DEF Delivery
<1>8. CASE SendBegins(r)
  <2>1. /\ recovery' = WithStatus(recovery, s, "sending")
        /\ disk'.recovery = recovery' /\ recovery[s].req = r
        /\ pc'[r] \in {"steer", "start"}
    BY <1>0, <1>8 DEF SendBegins, Saves, Snapshot, TypeOK
  <2>2. /\ \A t \in Sessions \ {s} : recovery'[t] = recovery[t]
        /\ recovery'[s].req = r /\ recovery'[s].status = "sending"
    BY <1>0, <2>1, RecordFields DEF TypeOK
  <2>3. RecordOwned'
    BY <1>0, <1>1, <2>1, <2>2 DEF RecordOwned, Calling, RpcStages
  <2>4. Resettles(s)
    BY <2>1, <2>2 DEF Resettles
  <2> QED BY <1>0, <1>1, <1>4, <2>3, <2>4, RememberedKept DEF Delivery
<1> QED BY <1>5, <1>6, <1>7, <1>8

\* Calls, answers and the provider.
LEMMA CallDelivery ==
  ASSUME Delivery, TypeOK', NEW m \in Messages,
         Issue(m) \/ Accept(m) \/ Reject(m) \/ Respond(m)
  PROVE  Delivery'
<1> USE SendRecoveryAssumption
<1> DEFINE s == SessionOf[m]
<1>0. /\ TypeOK /\ CallsConsistent /\ RecordOwned /\ IdsFresh
      /\ LatestRemembered /\ DownMirrors
      /\ s \in Sessions /\ Requests \subseteq Messages
  BY DEF Delivery, Messages
<1>1. /\ UNCHANGED <<up, crashes, archived, pc, issued, latest>>
      /\ \A q \in Messages \ {m} :
           rpc'[q] = rpc[q] /\ accepted'[q] = accepted[q] /\ reply'[q] = reply[q]
  BY <1>0 DEF Issue, Accept, Reject, Respond, life, calls, client, TypeOK
<1>2. KeepsRecords
  <2>1. CASE Respond(m)
    <3>1. \/ UNCHANGED <<recovery, disk>>
          \/ \E rct : recovery' = WithReceipt(recovery, s, rct) /\ MaySave(recovery')
      BY <2>1 DEF Respond, RecordReceipt
    <3> QED BY <1>0, <3>1, ReceiptKeeps
  <2>2. CASE Issue(m) \/ Accept(m) \/ Reject(m)
    BY <2>2 DEF KeepsRecords, Issue, Accept, Reject
  <2> QED BY <2>1, <2>2
<1>3. RecordOwned'
  BY <1>1, <1>2, OwnedKept
<1>4. DownMirrors'
  BY <1>0, <1>1 DEF DownMirrors, Issue, Accept, Reject, Respond, Stages, RpcStages
<1>5. CASE Issue(m)
  <2>1. /\ rpc' = [rpc EXCEPT ![m] = "flight"] /\ pc[m] \in Calling \ {"resume"}
        /\ rpc[m] = "none" /\ reply[m] = "none" /\ UNCHANGED <<reply, accepted>>
    BY <1>5 DEF Issue, calls, Calling, RpcStages
  <2>2. CallsConsistent' /\ IdsFresh'
    BY <1>0, <1>1, <2>1 DEF CallsConsistent, IdsFresh, TypeOK, Calling, RpcStages
  <2>3. LatestRemembered'
    <3>1. m \in Requests => recovery[s].req = m /\ disk.recovery[s].req = m
      BY <1>0, <2>1 DEF RecordOwned, Calling, RpcStages
    <3>2. UNCHANGED <<recovery, disk>>
      BY <1>5 DEF Issue
    <3> QED BY <1>0, <1>1, <2>1, <3>1, <3>2
        DEF LatestRemembered, IdsFresh, TypeOK
  <2> QED BY <1>3, <1>4, <2>2, <2>3 DEF Delivery
<1>6. CASE Accept(m)
  <2>1. /\ rpc[m] = "flight" /\ rpc' = [rpc EXCEPT ![m] = "ok"]
        /\ accepted' = [accepted EXCEPT ![m] = @ + 1] /\ UNCHANGED reply
    BY <1>6 DEF Accept, calls
  <2>2. CallsConsistent' /\ IdsFresh'
    BY <1>0, <1>1, <2>1 DEF CallsConsistent, IdsFresh, TypeOK
  <2>3. LatestRemembered'
    BY <1>0, <1>1, <1>2, <2>1, RememberedKept DEF TypeOK
  <2> QED BY <1>3, <1>4, <2>2, <2>3 DEF Delivery
<1>7. CASE Reject(m)
  <2>1. /\ rpc[m] = "flight" /\ rpc' = [rpc EXCEPT ![m] = "err"]
        /\ UNCHANGED <<reply, accepted>>
    BY <1>7 DEF Reject, calls
  <2>2. CallsConsistent' /\ IdsFresh'
    BY <1>0, <1>1, <2>1 DEF CallsConsistent, IdsFresh, TypeOK
  <2>3. LatestRemembered'
    BY <1>0, <1>1, <1>2, <2>1, RememberedKept DEF TypeOK
  <2> QED BY <1>3, <1>4, <2>2, <2>3 DEF Delivery
<1>8. CASE Respond(m)
  <2>1. /\ rpc[m] \in {"ok", "err"} /\ rpc' = [rpc EXCEPT ![m] = "none"]
        /\ reply' = IF pc[m] \in Calling THEN [reply EXCEPT ![m] = rpc[m]] ELSE reply
        /\ UNCHANGED accepted
    BY <1>8 DEF Respond
  <2>2. CallsConsistent' /\ IdsFresh'
    BY <1>0, <1>1, <2>1
    DEF CallsConsistent, IdsFresh, TypeOK, Stages, Calling, RpcStages
  <2>3. LatestRemembered'
    BY <1>0, <1>1, <1>2, <2>1, RememberedKept DEF TypeOK
  <2> QED BY <1>3, <1>4, <2>2, <2>3 DEF Delivery
<1> QED BY <1>5, <1>6, <1>7, <1>8

\* The fallback ladder and the end of a send.
LEMMA LadderDelivery ==
  ASSUME Delivery, TypeOK', NEW m \in Messages, Ladder(m)
  PROVE  Delivery'
<1> USE SendRecoveryAssumption
<1> DEFINE s == SessionOf[m]
<1>0. /\ TypeOK /\ CallsConsistent /\ RecordOwned /\ IdsFresh
      /\ LatestRemembered /\ DownMirrors
      /\ s \in Sessions /\ Requests \subseteq Messages
      /\ Requests \cap Untracked = {} /\ Messages = Requests \cup Untracked
  BY DEF Delivery, Messages
<1>1. /\ UNCHANGED <<up, crashes, archived, callback, rpc, accepted, issued, latest>>
      /\ pc[m] \in Calling
  BY DEF Ladder, life, provider, client
<1>2. up
  BY <1>0, <1>1 DEF DownMirrors, Calling, RpcStages
<1>3. /\ \A q \in Messages \ {m} : pc'[q] = pc[q] /\ reply'[q] = reply[q]
      /\ reply'[m] = "none" /\ pc'[m] \in Calling \cup {"idle"}
      /\ pc'[m] # "idle" => Refused(m)
      /\ KeepsRecords \/ (m \in Requests /\ Resettles(s) /\ pc'[m] = "idle")
  <2>1. ASSUME NEW st, Finish(m, st)
        PROVE  /\ Ends(m)
               /\ KeepsRecords \/ (m \in Requests /\ Resettles(s))
    <3>1. CASE m \in Requests
      BY <1>0, <2>1, <3>1, CheckpointResettles DEF Finish
    <3>2. CASE m \notin Requests
      BY <2>1, <3>2 DEF Finish, KeepsRecords
    <3> QED BY <2>1, <3>1, <3>2 DEF Finish
  <2>2. ASSUME Moves(m)
        PROVE  KeepsRecords /\ Refused(m) /\ \E stage \in Calling : Goto(m, stage)
    BY <2>2 DEF Moves, KeepsRecords
  <2>3. ASSUME Resets(m)
        PROVE  /\ Refused(m)
               /\ \/ KeepsRecords /\ \E stage \in Calling : Goto(m, stage)
                  \/ KeepsRecords /\ Ends(m)
                  \/ m \in Requests /\ Ends(m) /\ Resettles(s)
    BY <1>0, <2>3, ResetShape DEF Resets
  <2>4. \/ Ends(m) /\ (KeepsRecords \/ (m \in Requests /\ Resettles(s)))
        \/ KeepsRecords /\ Refused(m) /\ \E stage \in Calling : Goto(m, stage)
    BY <2>1, <2>2, <2>3 DEF Ladder
  <2> QED BY <1>0, <2>4 DEF Ends, Goto, TypeOK
<1>4. CallsConsistent' /\ IdsFresh' /\ DownMirrors'
  BY <1>0, <1>1, <1>2, <1>3
  DEF CallsConsistent, IdsFresh, DownMirrors, Refused, TypeOK, Stages, Calling, RpcStages
<1>5. RecordOwned'
  <2>1. CASE KeepsRecords
    BY <1>0, <1>1, <1>3, <2>1, OwnedKept
  <2>2. CASE m \in Requests /\ Resettles(s) /\ pc'[m] = "idle"
    <3>1. pc[m] # "idle"
      BY <1>1 DEF Calling, RpcStages
    <3>2. \A q \in Requests : q # m /\ SessionOf[q] = s => pc[q] = "idle"
      BY <2>2, <3>1, OneTask
    <3> QED BY <1>0, <1>3, <2>2, <3>2, OwnedResettled
  <2> QED BY <1>3, <2>1, <2>2
<1>6. LatestRemembered'
  BY <1>0, <1>1, <1>3, RememberedKept
<1> QED BY <1>4, <1>5, <1>6 DEF Delivery

\* Messages of other sources, and what else the process does while it runs.
LEMMA OthersDelivery ==
  ASSUME Delivery, TypeOK',
         \/ \E u \in Untracked : UntrackedSend(u)
         \/ \E s \in Sessions : Session(s)
         \/ Flush
  PROVE  Delivery'
<1> USE SendRecoveryAssumption
<1>0. /\ TypeOK /\ CallsConsistent /\ RecordOwned /\ IdsFresh
      /\ LatestRemembered /\ DownMirrors /\ Requests \subseteq Messages
      /\ Requests \cap Untracked = {} /\ Untracked \subseteq Messages
  BY DEF Delivery, Messages
<1>1. SUFFICES /\ up /\ UNCHANGED <<up, reply, rpc, accepted, issued, latest>>
               /\ \A r \in Requests : pc'[r] = pc[r]
               /\ \/ KeepsRecords
                  \/ \E s \in Sessions :
                       /\ Resettles(s)
                       /\ \A r \in Requests : SessionOf[r] = s => pc[r] = "idle"
  <2>1. CallsConsistent' /\ IdsFresh' /\ DownMirrors'
    BY <1>0, <1>1 DEF CallsConsistent, IdsFresh, DownMirrors
  <2>2. RecordOwned'
    BY <1>1, OwnedKept, OwnedResettled
  <2>3. LatestRemembered'
    BY <1>1, RememberedKept
  <2> QED BY <2>1, <2>2, <2>3 DEF Delivery
<1>2. ASSUME NEW u \in Untracked, UntrackedSend(u)
      PROVE  /\ up /\ UNCHANGED <<up, reply, rpc, accepted, issued, latest>>
             /\ \A r \in Requests : pc'[r] = pc[r]
             /\ KeepsRecords
  <2>1. SessionOf[u] \in Sessions
    BY <1>0
  <2>2. \/ UNCHANGED <<recovery, disk>>
        \/ /\ recovery' = WithReceipt(recovery, SessionOf[u], "blank")
           /\ MaySave(recovery')
    BY <1>2 DEF UntrackedSend, MaySave
  <2>3. KeepsRecords
    BY <1>0, <2>1, <2>2, ReceiptKeeps
  <2> QED BY <1>0, <1>2, <2>3
    DEF UntrackedSend, life, provider, client, TypeOK
<1>3. ASSUME NEW s \in Sessions, EvictCallback(s)
      PROVE  /\ up /\ UNCHANGED <<up, pc, reply, rpc, accepted, issued, latest>>
             /\ KeepsRecords
  BY <1>3 DEF EvictCallback, KeepsRecords, life, calls, provider, client
<1>4. ASSUME NEW s \in Sessions, Recheck(s)
      PROVE  /\ up /\ UNCHANGED <<up, pc, reply, rpc, accepted, issued, latest>>
             /\ Resettles(s)
             /\ \A r \in Requests : SessionOf[r] = s => pc[r] = "idle"
  <2>1. Resettles(s)
    BY <1>0, <1>4, CheckpointResettles DEF Recheck
  <2>2. recovery[s].status \notin {"preparing", "sending"}
    BY <1>4 DEF Recheck
  <2>3. \A r \in Requests : SessionOf[r] = s => pc[r] = "idle"
    <3> SUFFICES ASSUME NEW r \in Requests, SessionOf[r] = s PROVE pc[r] = "idle"
      OBVIOUS
    <3>1. pc[r] \in Calling \cup {"idle", "preparing", "queued"}
      BY <1>0 DEF TypeOK, Stages
    <3>2. pc[r] \notin {"preparing", "queued"} /\ pc[r] \notin Calling
      BY <1>0, <2>2 DEF RecordOwned
    <3> QED BY <3>1, <3>2
  <2> QED BY <1>4, <2>1, <2>3 DEF Recheck, life, calls, provider, client
<1>5. ASSUME NEW s \in Sessions, Archive(s) \/ Unarchive(s)
      PROVE  /\ up /\ UNCHANGED <<up, pc, reply, rpc, accepted, issued, latest>>
             /\ KeepsRecords
  <2>1. UNCHANGED recovery /\ \E arch : disk' \in {disk, Snapshot(recovery, arch)}
    BY <1>5 DEF Archive, Unarchive
  <2>2. KeepsRecords
    BY <1>0, <2>1, FlushKeeps
  <2> QED BY <1>5, <2>2 DEF Archive, Unarchive, life, calls, provider, client
<1>6. ASSUME Flush
      PROVE  /\ up /\ UNCHANGED <<up, pc, reply, rpc, accepted, issued, latest>>
             /\ KeepsRecords
  BY <1>0, <1>6, FlushKeeps DEF Flush, life, calls, provider, client
<1> QED BY <1>2, <1>3, <1>4, <1>5, <1>6 DEF Session

\* The process dies and comes back.
LEMMA RestartDelivery ==
  ASSUME Delivery, TypeOK', Crash \/ Start
  PROVE  Delivery'
<1>0. /\ TypeOK /\ CallsConsistent /\ RecordOwned /\ IdsFresh
      /\ LatestRemembered /\ DownMirrors /\ Requests \subseteq Messages
  BY DEF Delivery, Messages
<1>1. CASE Crash
  BY <1>0, <1>1
  DEF Crash, Delivery, CallsConsistent, RecordOwned, IdsFresh, LatestRemembered,
      DownMirrors, provider, client, Calling, RpcStages
<1>2. CASE Start
  <2>1. /\ \A t \in Sessions : recovery'[t].req = recovery[t].req
        /\ \A t \in Sessions : disk'.recovery[t].req = recovery[t].req
    <3>1. \A t \in Sessions : Restored(recovery[t]).req = recovery[t].req
      BY <1>0 DEF Restored, TypeOK, Record
    <3> DEFINE rec == [s \in Sessions |-> IF archived[s] THEN recovery[s]
                                          ELSE Restored(recovery[s])]
    <3>2. \A t \in Sessions : rec[t].req = recovery[t].req
      BY <3>1
    <3> HIDE DEF rec
    <3>3. PICK saved \in SUBSET Sessions :
            /\ recovery' = rec
            /\ disk' = Snapshot([s \in Sessions |->
                                   IF s \in saved THEN rec[s] ELSE recovery[s]],
                                archived)
      BY <1>2 DEF Start, rec
    <3> QED BY <3>2, <3>3 DEF Snapshot
  <2>2. /\ ~up /\ up' /\ UNCHANGED <<pc, reply, rpc, accepted, issued, latest>>
    BY <1>2 DEF Start, calls, provider, client
  <2>3. \A m \in Messages : pc[m] = "idle"
    BY <1>0, <2>2 DEF DownMirrors
  <2>4. CallsConsistent' /\ IdsFresh' /\ DownMirrors'
    BY <1>0, <2>2 DEF CallsConsistent, IdsFresh, DownMirrors
  <2>5. RecordOwned'
    BY <1>0, <2>2, <2>3 DEF RecordOwned, Calling, RpcStages
  <2>6. LatestRemembered'
    BY <1>0, <2>1, <2>2 DEF LatestRemembered, TypeOK, DownMirrors
  <2> QED BY <2>4, <2>5, <2>6 DEF Delivery
<1> QED BY <1>1, <1>2

\* Every step preserves Delivery.
LEMMA DeliveryStep ==
  ASSUME Delivery, [Next]_vars
  PROVE  Delivery'
<1>0. TypeOK /\ TypeOK'
  BY TypeStep DEF Delivery
<1>1. ASSUME NEW r \in Requests, Tracked(r)
      PROVE  Delivery'
  BY <1>0, <1>1, SubmitDelivery, TaskDelivery DEF Tracked
<1>2. ASSUME NEW m \in Messages, Call(m)
      PROVE  Delivery'
  BY <1>0, <1>2, CallDelivery, LadderSteps, LadderDelivery DEF Call
<1>3. CASE UNCHANGED vars
  BY <1>3 DEF vars, life, calls, provider, client, Delivery, TypeOK,
     CallsConsistent, RecordOwned, IdsFresh, LatestRemembered, DownMirrors
<1> QED BY <1>0, <1>1, <1>2, <1>3, OthersDelivery, RestartDelivery DEF Next

\* The inductive invariant of at-most-once holds in every behaviour, with other
\* sources writing to the same session and wrongly archived sessions repaired.
THEOREM DeliveryInvariant == Spec => []Delivery
<1>1. Init => Delivery
  <2> SUFFICES ASSUME Init PROVE Delivery
    OBVIOUS
  <2>1. TypeOK
    BY SendRecoveryAssumption
    DEF Init, TypeOK, NoRecord, Record, Status, Receipt, NoCallback, Stages
  <2> QED BY <2>1, SendRecoveryAssumption
    DEF Init, Delivery, CallsConsistent, RecordOwned, IdsFresh,
        LatestRemembered, DownMirrors, Messages, Calling, RpcStages
<1> QED BY <1>1, DeliveryStep, PTL DEF Spec

\* The provider never takes a tracked request twice: not through a repeated
\* submission, the steer/start/resume/queue fallbacks, a lost answer, a save
\* that fails or a restart at any moment.
THEOREM NeverTwice == Spec => []AtMostOnce
<1>1. Delivery => AtMostOnce
  BY DEF Delivery, CallsConsistent, AtMostOnce
<1> QED BY <1>1, DeliveryInvariant, PTL

-----------------------------------------------------------------------------
(* Truth.  With every message tracked and no archive repair, what the      *)
(* records claim is so.                                                    *)

\* A step that writes session s: memory gets a record of New, the disk one of
\* New or what it had; the other sessions are at most flushed.
WritesTo(s, New) ==
  /\ \A t \in Sessions \ {s} :
       /\ recovery'[t] = recovery[t]
       /\ disk'.recovery[t] \in {disk.recovery[t], recovery[t]}
  /\ recovery'[s] \in New
  /\ disk'.recovery[s] \in {disk.recovery[s], recovery[s]} \cup New
  /\ disk'.archived \in {disk.archived, archived}

\* A checkpoint writes the record with the new status, or leaves it.
LEMMA CheckpointWrites ==
  ASSUME TypeOK, NEW s \in Sessions, NEW r, NEW st, Checkpoint(s, r, st)
  PROVE  /\ WritesTo(s, {recovery[s], [recovery[s] EXCEPT !.status = st]})
         /\ recovery[s].req = r => recovery'[s] = [recovery[s] EXCEPT !.status = st]
<1>0. recovery \in [Sessions -> Record]
  BY DEF TypeOK
<1>1. CASE recovery[s].req # r
  BY <1>1 DEF Checkpoint, WritesTo
<1>2. CASE recovery[s].req = r
  <2>1. recovery' = WithStatus(recovery, s, st)
    BY <1>2 DEF Checkpoint
  <2>2. recovery'[s] = [recovery[s] EXCEPT !.status = st]
    BY <1>0, <2>1 DEF WithStatus
  <2>3. \A t \in Sessions \ {s} : recovery'[t] = recovery[t]
    BY <1>0, <2>1, RecordFields
  <2>4. disk' = disk \/ (disk'.recovery = recovery' /\ disk'.archived = archived)
    BY <1>2 DEF Checkpoint, MaySave, Saves, SaveRaises, Snapshot
  <2> QED BY <2>2, <2>3, <2>4 DEF WritesTo
<1> QED BY <1>1, <1>2

\* A write of session s that leaves the provider alone preserves Truth when
\* the new records are sound and admit what is in flight.
LEMMA TruthWritten ==
  ASSUME Delivery, Truth, NEW s \in Sessions, NEW New, WritesTo(s, New),
         UNCHANGED <<archived, accepted, rpc, callback>>,
         \A r \in Requests :
           SessionOf[r] # s => /\ pc'[r] = pc[r] /\ owner'[r] = owner[r]
                               /\ reply'[r] = reply[r],
         \A rec \in New :
           /\ Sound(s, rec)
           /\ \A r \in Requests :
                rpc[r] = "flight" /\ SessionOf[r] = s => Undecided(r, rec),
         \A r \in Requests : SessionOf[r] = s => NoStaleReceipt(r)'
  PROVE  Truth'
<1> USE SendRecoveryAssumption
<1>0. /\ RecordsSound /\ FlightRecorded /\ ReceiptReset /\ CallbacksOwn
      /\ ArchiveDurable
      /\ \A r \in Requests : r \in Messages /\ SessionOf[r] \in Sessions
  BY DEF Truth, Messages
<1>1. RecordsSound'
  <2>1. \A t \in Sessions : Sound(t, recovery'[t]) /\ Sound(t, disk'.recovery[t])
    BY <1>0 DEF RecordsSound, WritesTo
  <2>2. UNCHANGED <<accepted, rpc, archived>>
    OBVIOUS
  <2> QED BY <2>1, <2>2 DEF RecordsSound, Sound
<1>2. FlightRecorded'
  BY <1>0 DEF FlightRecorded, WritesTo, Undecided
<1>3. ReceiptReset'
  <2>1. ASSUME NEW r \in Requests, SessionOf[r] # s
        PROVE  NoStaleReceipt(r)'
    <3>1. NoStaleReceipt(r)
      BY <1>0 DEF ReceiptReset
    <3>2. /\ recovery'[SessionOf[r]] = recovery[SessionOf[r]]
          /\ disk'.recovery[SessionOf[r]] \in
               {disk.recovery[SessionOf[r]], recovery[SessionOf[r]]}
      BY <1>0, <2>1 DEF WritesTo
    <3> QED BY <2>1, <3>1, <3>2 DEF NoStaleReceipt
  <2> QED BY <2>1 DEF ReceiptReset
<1>4. CallbacksOwn'
  BY <1>0 DEF CallbacksOwn
<1>5. ArchiveDurable'
  BY <1>0 DEF ArchiveDurable, WritesTo
<1> QED BY <1>1, <1>2, <1>3, <1>4, <1>5 DEF Truth

\* What TruthWritten and the lemmas below need to know of the state.
LEMMA TruthFacts ==
  ASSUME Delivery, Truth
  PROVE  /\ TypeOK /\ CallsConsistent /\ RecordOwned /\ IdsFresh
         /\ LatestRemembered /\ DownMirrors
         /\ RecordsSound /\ FlightRecorded /\ ReceiptReset /\ CallbacksOwn
         /\ ArchiveDurable
         /\ \A r \in Requests : /\ r \in Messages /\ SessionOf[r] \in Sessions
                                /\ r # NoRequest
         /\ recovery \in [Sessions -> Record]
BY SendRecoveryAssumption DEF Delivery, Truth, TypeOK, Messages

\* While a handler or task runs, only its own request can be in flight.
LEMMA OneFlight ==
  ASSUME Delivery, Truth, NEW r \in Requests, NEW q \in Requests,
         SessionOf[q] = SessionOf[r], rpc[q] = "flight",
         \/ pc[r] # "idle"
         \/ recovery[SessionOf[r]].req = r
         \/ recovery[SessionOf[r]].status \notin Unresolved
  PROVE  q = r /\ recovery[SessionOf[r]].req = r
BY TruthFacts DEF FlightRecorded, Undecided, RecordOwned, Unresolved

\* The handler of a submission.
LEMMA SubmitTruth ==
  ASSUME Delivery, Truth, NEW r \in Requests, Submit(r)
  PROVE  Truth'
<1> DEFINE s == SessionOf[r]
<1>0. /\ TypeOK /\ CallsConsistent /\ RecordOwned /\ IdsFresh
      /\ LatestRemembered /\ s \in Sessions /\ r # NoRequest /\ r \in Messages
      /\ recovery \in [Sessions -> Record]
      /\ \A q \in Requests : q \in Messages
  BY TruthFacts
<1>1. /\ UNCHANGED <<owner, reply, callback, rpc, accepted, archived>>
      /\ r \notin issued \/ latest[s] = r
  BY DEF Submit, life, provider
<1>2. CASE Refuse(r)
  <2>1. UNCHANGED <<recovery, disk, pc>>
    BY <1>2 DEF Refuse
  <2> QED BY <1>1, <2>1
      DEF Truth, RecordsSound, Sound, FlightRecorded, Undecided, ReceiptReset,
          NoStaleReceipt, CallbacksOwn, ArchiveDurable
<1>3. CASE Admit(r)
  <2> DEFINE new    == [req |-> r, status |-> "preparing", receipt |-> "none"]
             failed == [req |-> r, status |-> "failed", receipt |-> "none"]
  <2>1. /\ recovery[s].req # r /\ recovery[s].status \notin Unresolved
        /\ ~archived[s]
    BY <1>3 DEF Admit
  <2>2. accepted[r] = 0 /\ rpc[r] = "none"
    <3>1. r \notin issued => accepted[r] = 0 /\ rpc[r] = "none"
      BY <1>0 DEF IdsFresh
    <3>2. latest[s] = r => accepted[r] = 0 /\ rpc[r] = "none"
      BY <1>0, <2>1 DEF LatestRemembered, CallsConsistent, TypeOK
    <3> QED BY <1>1, <3>1, <3>2
  <2>3. WritesTo(s, {new, failed}) /\ recovery'[s].receipt = "none"
    BY <1>0, <1>3
    DEF Admit, Saves, SaveRaises, Snapshot, WithStatus, WritesTo
  <2>4. \A rec \in {new, failed} :
          /\ Sound(s, rec)
          /\ \A q \in Requests :
               rpc[q] = "flight" /\ SessionOf[q] = s => Undecided(q, rec)
    <3>1. \A q \in Requests : ~(rpc[q] = "flight" /\ SessionOf[q] = s)
      BY <2>1, OneFlight
    <3> QED BY <1>0, <2>2, <3>1 DEF Sound
  <2>5. \A q \in Requests : SessionOf[q] = s => pc[q] = "idle"
    <3> SUFFICES ASSUME NEW q \in Requests, SessionOf[q] = s, pc[q] # "idle"
                 PROVE  FALSE
      OBVIOUS
    <3>1. pc[q] \in Calling \cup {"preparing", "queued"}
      BY <1>0 DEF TypeOK, Stages
    <3> QED BY <1>0, <2>1, <3>1 DEF RecordOwned, Unresolved
  <2>6. /\ \A q \in Requests \ {r} : pc'[q] = pc[q]
        /\ pc'[r] \in {"idle", "preparing"}
    BY <1>0, <1>3, <2>5 DEF Admit, TypeOK
  <2>7. \A q \in Requests : SessionOf[q] = s => NoStaleReceipt(q)'
    BY <2>3, <2>5, <2>6 DEF NoStaleReceipt, Calling, RpcStages
  <2> HIDE DEF new, failed
  <2> QED BY <1>0, <1>1, <2>3, <2>4, <2>6, <2>7, TruthWritten
<1> QED BY <1>2, <1>3 DEF Submit

\* Preparing the send and entering the provider call.
LEMMA TaskTruth ==
  ASSUME Delivery, Truth, NEW r \in Requests,
         \/ PrepareFails(r) \/ PrepareDone(r)
         \/ SendRejected(r) \/ SendUnsaved(r) \/ SendBegins(r)
  PROVE  Truth'
<1> DEFINE s == SessionOf[r]
           With(st) == [recovery[s] EXCEPT !.status = st]
<1>0. /\ TypeOK /\ CallsConsistent /\ RecordOwned /\ RecordsSound
      /\ FlightRecorded /\ ReceiptReset /\ s \in Sessions /\ r # NoRequest
      /\ r \in Messages /\ recovery \in [Sessions -> Record]
      /\ \A q \in Requests : q \in Messages
  BY TruthFacts
<1>1. /\ UNCHANGED <<archived, reply, rpc, accepted, callback>>
      /\ pc[r] \in {"preparing", "queued"}
      /\ \A q \in Requests \ {r} : pc'[q] = pc[q] /\ owner'[q] = owner[q]
  BY <1>0
  DEF PrepareFails, PrepareDone, SendRejected, SendUnsaved, SendBegins,
      life, provider, client, TypeOK
<1>2. /\ recovery[s].req = r /\ recovery[s].receipt = "none"
      /\ accepted[r] = 0 /\ rpc[r] = "none"
  BY <1>0, <1>1
  DEF RecordOwned, ReceiptReset, NoStaleReceipt, CallsConsistent
<1>3. \A q \in Requests : SessionOf[q] = s /\ q # r => pc[q] = "idle"
  BY <1>1, OneTask
<1>4. \A q \in Requests : ~(rpc[q] = "flight" /\ SessionOf[q] = s)
  BY <1>2, OneFlight
<1>5. \A st \in {"preparing", "sending", "failed"} : Sound(s, With(st))
  BY <1>0, <1>2 DEF Sound, RecordsSound, Record
<1>6. Sound(s, recovery[s])
  BY <1>0 DEF RecordsSound
<1>7. CASE PrepareFails(r) \/ SendRejected(r)
  <2>1. WritesTo(s, {recovery[s], With("failed")}) /\ pc'[r] = "idle"
    BY <1>0, <1>7, CheckpointWrites DEF PrepareFails, SendRejected, TypeOK
  <2>2. \A q \in Requests : SessionOf[q] = s => NoStaleReceipt(q)'
    BY <1>1, <1>3, <2>1 DEF NoStaleReceipt, Calling, RpcStages
  <2> HIDE DEF With
  <2> QED BY <1>0, <1>1, <1>4, <1>5, <1>6, <2>1, <2>2, TruthWritten
<1>8. CASE PrepareDone(r)
  <2>1. UNCHANGED <<recovery, disk, owner>> /\ pc'[r] = "queued"
    BY <1>0, <1>8 DEF PrepareDone, TypeOK
  <2>2. WritesTo(s, {recovery[s]})
    BY <2>1 DEF WritesTo
  <2>3. \A q \in Requests : SessionOf[q] = s => NoStaleReceipt(q)'
    BY <1>1, <1>2, <1>3, <2>1 DEF NoStaleReceipt, Calling, RpcStages
  <2> QED BY <1>0, <1>1, <1>4, <1>6, <2>2, <2>3, TruthWritten
<1>9. CASE SendUnsaved(r)
  <2>1. /\ WithStatus(recovery, s, "sending")[s] = With("sending")
        /\ WithStatus(recovery, s, "failed")[s] = With("failed")
    BY <1>0 DEF WithStatus
  <2>2. \A st : \A t \in Sessions \ {s} : WithStatus(recovery, s, st)[t] = recovery[t]
    BY <1>0, RecordFields
  <2>3. /\ recovery' = WithStatus(recovery, s, "failed")
        /\ \/ disk' = disk
           \/ /\ disk'.archived = archived
              /\ \/ disk'.recovery = WithStatus(recovery, s, "sending")
                 \/ disk'.recovery = WithStatus(recovery, s, "failed")
        /\ pc'[r] = "idle"
    BY <1>0, <1>9 DEF SendUnsaved, Snapshot, TypeOK
  <2> HIDE DEF With
  <2>4. WritesTo(s, {With("sending"), With("failed")})
    BY <2>1, <2>2, <2>3 DEF WritesTo
  <2>5. \A q \in Requests : SessionOf[q] = s => NoStaleReceipt(q)'
    BY <1>1, <1>3, <2>3 DEF NoStaleReceipt, Calling, RpcStages
  <2> QED BY <1>0, <1>1, <1>4, <1>5, <2>4, <2>5, TruthWritten
<1>10. CASE SendBegins(r)
  <2>1. /\ recovery'[s] = With("sending")
        /\ \A t \in Sessions \ {s} : recovery'[t] = recovery[t]
    BY <1>0, <1>10 DEF SendBegins, WithStatus
  <2>2. /\ disk'.recovery = recovery' /\ disk'.archived = archived
        /\ owner'[r] = r /\ pc'[r] \in {"steer", "start"}
    BY <1>0, <1>10 DEF SendBegins, Saves, Snapshot, TypeOK
  <2>3. recovery'[s].receipt = "none"
    BY <1>0, <1>2, <2>1 DEF Record
  <2> HIDE DEF With
  <2>4. WritesTo(s, {With("sending")})
    BY <2>1, <2>2 DEF WritesTo
  <2>5. \A q \in Requests : SessionOf[q] = s => NoStaleReceipt(q)'
    BY <1>1, <1>3, <2>2, <2>3 DEF NoStaleReceipt, Calling, RpcStages
  <2> QED BY <1>0, <1>1, <1>4, <1>5, <2>4, <2>5, TruthWritten
<1> QED BY <1>7, <1>8, <1>9, <1>10

\* The fallback ladder and the end of a send.
LEMMA LadderTruth ==
  ASSUME Delivery, Truth, Untracked = {}, NEW m \in Messages, Ladder(m)
  PROVE  Truth'
<1> DEFINE s == SessionOf[m]
           With(st) == [recovery[s] EXCEPT !.status = st]
           Blank == [recovery[s] EXCEPT !.receipt = "blank"]
           Last == [recovery[s] EXCEPT !.status = "unknown", !.receipt = "blank"]
<1>0. /\ TypeOK /\ CallsConsistent /\ RecordOwned /\ RecordsSound
      /\ FlightRecorded /\ ReceiptReset /\ s \in Sessions /\ m # NoRequest
      /\ m \in Requests /\ recovery \in [Sessions -> Record]
      /\ \A q \in Requests : q \in Messages
  BY TruthFacts DEF Messages
<1>1. /\ UNCHANGED <<archived, rpc, accepted, callback>>
      /\ pc[m] \in Calling /\ pc[m] # "idle"
  BY DEF Ladder, life, provider, client, Calling, RpcStages
<1>2. /\ recovery[s].req = m /\ recovery[s].status = "sending" /\ owner[m] = m
      /\ recovery[s].receipt = "none" => disk.recovery[s].receipt = "none"
  BY <1>0, <1>1 DEF RecordOwned, ReceiptReset, NoStaleReceipt
<1>3. \A q \in Requests : SessionOf[q] = s /\ q # m => pc[q] = "idle"
  BY <1>0, <1>1, OneTask
<1>4. \A q \in Requests : rpc[q] = "flight" /\ SessionOf[q] = s => q = m
  BY <1>0, <1>1, OneFlight
<1>5. Sound(s, recovery[s])
  BY <1>0 DEF RecordsSound
<1>6. /\ \A rec \in {recovery[s], With("unknown"), Blank, Last} :
           /\ Sound(s, rec)
           /\ \A q \in Requests :
                rpc[q] = "flight" /\ SessionOf[q] = s => Undecided(q, rec)
      /\ Blank.receipt = "blank"
  BY <1>0, <1>2, <1>4, <1>5 DEF Sound, Undecided, Record
<1>7. ASSUME NEW New, WritesTo(s, New), Ends(m),
             \A rec \in New :
               /\ Sound(s, rec)
               /\ \A q \in Requests :
                    rpc[q] = "flight" /\ SessionOf[q] = s => Undecided(q, rec)
      PROVE  Truth'
  <2>1. /\ \A q \in Requests \ {m} : /\ pc'[q] = pc[q] /\ owner'[q] = owner[q]
                                    /\ reply'[q] = reply[q]
        /\ pc'[m] = "idle"
    BY <1>0, <1>7 DEF Ends, TypeOK
  <2>2. \A q \in Requests : SessionOf[q] = s => NoStaleReceipt(q)'
    BY <1>3, <2>1 DEF NoStaleReceipt, Calling, RpcStages
  <2> QED BY <1>0, <1>1, <1>7, <2>1, <2>2, TruthWritten
<1>8. ASSUME NEW New, WritesTo(s, New), NEW stage \in Calling, Goto(m, stage),
             \A rec \in New :
               /\ Sound(s, rec)
               /\ \A q \in Requests :
                    rpc[q] = "flight" /\ SessionOf[q] = s => Undecided(q, rec),
             recovery'[s].receipt = "none" => disk'.recovery[s].receipt = "none",
             \/ stage = "resume"
             \/ archived[s]
             \/ /\ recovery'[s].receipt \in {"none", "blank"}
                /\ disk'.recovery[s].receipt \in {"none", "blank"}
      PROVE  Truth'
  <2>1. /\ \A q \in Requests \ {m} : pc'[q] = pc[q] /\ reply'[q] = reply[q]
        /\ pc'[m] = stage /\ UNCHANGED owner
    BY <1>0, <1>8 DEF Goto, TypeOK
  <2>2. \A q \in Requests : SessionOf[q] = s => NoStaleReceipt(q)'
    BY <1>1, <1>2, <1>3, <1>8, <2>1 DEF NoStaleReceipt, Calling, RpcStages
  <2> QED BY <1>0, <1>1, <1>8, <2>1, <2>2, TruthWritten
<1>9. CASE reply[m] = "ok" /\ Finish(m, "sent")
  <2>1. WritesTo(s, {recovery[s], With("sent")}) /\ Ends(m)
    BY <1>0, <1>9, CheckpointWrites DEF Finish
  <2>2. accepted[m] = 1 /\ rpc[m] = "none"
    BY <1>0, <1>9 DEF CallsConsistent
  <2>3. /\ Sound(s, With("sent"))
        /\ \A q \in Requests : ~(rpc[q] = "flight" /\ SessionOf[q] = s)
    BY <1>0, <1>2, <1>4, <1>5, <2>2 DEF Sound, Record
  <2> HIDE DEF With
  <2> QED BY <1>5, <1>7, <2>1, <2>3
<1>10. CASE Finish(m, "unknown")
  <2>1. WritesTo(s, {recovery[s], With("unknown")}) /\ Ends(m)
    BY <1>0, <1>10, CheckpointWrites DEF Finish
  <2> HIDE DEF With
  <2> QED BY <1>6, <1>7, <2>1
<1>11. CASE Moves(m)
  <2>1. PICK stage \in Calling :
          Goto(m, stage) /\ (stage = "resume" \/ recovery[s].receipt = "none")
    BY <1>0, <1>2, <1>11 DEF Moves
  <2>2. UNCHANGED <<recovery, disk>>
    BY <1>11 DEF Moves
  <2>3. WritesTo(s, {recovery[s]})
    BY <2>2 DEF WritesTo
  <2> HIDE DEF With, Blank, Last
  <2> QED BY <1>2, <1>6, <1>8, <2>1, <2>2, <2>3
<1>12. CASE Resets(m)
  <2>1. PICK stage \in Calling : Reset(m, m, stage)
    BY <1>2, <1>12 DEF Resets
  <2>2. /\ WithReceipt(recovery, s, "blank")[s] = Blank
        /\ \A t \in Sessions \ {s} : WithReceipt(recovery, s, "blank")[t] = recovery[t]
        /\ WithStatus(WithReceipt(recovery, s, "blank"), s, "unknown")[s] = Last
        /\ \A t \in Sessions \ {s} :
             WithStatus(WithReceipt(recovery, s, "blank"), s, "unknown")[t] = recovery[t]
    BY <1>0 DEF WithStatus, WithReceipt, Record
  <2>3. CASE archived[s] /\ UNCHANGED <<recovery, disk>> /\ Goto(m, stage)
    <3>1. WritesTo(s, {recovery[s]})
      BY <2>3 DEF WritesTo
    <3> HIDE DEF With, Blank, Last
    <3> QED BY <1>2, <1>6, <1>8, <2>3, <3>1
  <2>4. CASE /\ recovery' = WithReceipt(recovery, s, "blank")
             /\ Saves(recovery') /\ Goto(m, stage)
    <3> HIDE DEF With, Blank, Last
    <3>1. disk'.recovery = recovery' /\ disk'.archived = archived
      BY <2>4 DEF Saves, Snapshot
    <3>2. WritesTo(s, {Blank}) /\ recovery'[s] = Blank /\ disk'.recovery[s] = Blank
      BY <1>0, <2>2, <2>4, <3>1 DEF WritesTo
    <3> QED BY <1>6, <1>8, <2>4, <3>2
  <2>5. CASE /\ recovery' = WithStatus(WithReceipt(recovery, s, "blank"), s, "unknown")
             /\ disk' \in {disk, Snapshot(WithReceipt(recovery, s, "blank"), archived),
                           Snapshot(recovery', archived)}
             /\ Ends(m)
    <3> HIDE DEF With, Blank, Last
    <3>1. \/ disk' = disk
          \/ /\ disk'.archived = archived
             /\ \/ disk'.recovery = WithReceipt(recovery, s, "blank")
                \/ disk'.recovery = recovery'
      BY <2>5 DEF Snapshot
    <3>2. WritesTo(s, {Blank, Last})
      BY <1>0, <2>2, <2>5, <3>1 DEF WritesTo
    <3> QED BY <1>6, <1>7, <2>5, <3>2
  <2> QED BY <1>0, <1>2, <2>1, <2>3, <2>4, <2>5 DEF Reset
<1> QED BY <1>9, <1>10, <1>11, <1>12 DEF Ladder

\* Calls, answers and the provider.
LEMMA CallTruth ==
  ASSUME Delivery, Truth, Untracked = {}, NEW m \in Messages,
         Issue(m) \/ Accept(m) \/ Reject(m) \/ Respond(m)
  PROVE  Truth'
<1> DEFINE s == SessionOf[m]
<1>0. /\ TypeOK /\ CallsConsistent /\ RecordOwned /\ RecordsSound
      /\ FlightRecorded /\ ReceiptReset /\ CallbacksOwn /\ ArchiveDurable
      /\ s \in Sessions /\ m # NoRequest /\ m \in Requests
      /\ recovery \in [Sessions -> Record]
      /\ \A q \in Requests : q \in Messages /\ q # NoRequest /\ SessionOf[q] \in Sessions
  BY TruthFacts DEF Messages
<1>1. /\ UNCHANGED <<archived, pc, owner>>
      /\ \A q \in Messages \ {m} :
           rpc'[q] = rpc[q] /\ accepted'[q] = accepted[q] /\ reply'[q] = reply[q]
  BY <1>0 DEF Issue, Accept, Reject, Respond, life, calls, client, TypeOK
<1>2. CASE Issue(m)
  <2>1. /\ rpc[m] = "none" /\ reply[m] = "none" /\ rpc'[m] = "flight"
        /\ pc[m] \in RpcStages \cup {"queue"}
        /\ UNCHANGED <<recovery, disk, reply, accepted>>
    BY <1>0, <1>2 DEF Issue, calls, TypeOK
  <2>2. /\ accepted[m] = 0 /\ owner[m] = m
        /\ recovery[s].req = m /\ recovery[s].status = "sending"
        /\ disk.recovery[s].req = m /\ disk.recovery[s].status = "sending"
        /\ ~archived[s] => /\ recovery[s].receipt \in {"none", "blank"}
                           /\ disk.recovery[s].receipt \in {"none", "blank"}
    BY <1>0, <2>1
    DEF CallsConsistent, RecordOwned, ReceiptReset, NoStaleReceipt, Calling, RpcStages
  <2>3. RecordsSound'
    <3>1. ASSUME NEW t \in Sessions, NEW rec \in {recovery[t], disk.recovery[t]}
          PROVE  Sound(t, rec)'
      <4>1. Sound(t, rec)
        BY <1>0, <3>1 DEF RecordsSound
      <4>2. CASE rec.req # m
        <5>1. rec \in Record
          BY <1>0 DEF TypeOK
        <5>2. rec.req = NoRequest \/ rec.req \in Messages \ {m}
          BY <1>0, <4>2, <5>1 DEF Record
        <5> QED BY <1>1, <2>1, <4>1, <5>2 DEF Sound
      <4>3. CASE rec.req = m
        <5>1. t = s
          BY <1>0, <4>1, <4>3 DEF Sound
        <5> QED BY <1>1, <2>1, <2>2, <3>1, <4>1, <4>3, <5>1 DEF Sound
      <4> QED BY <4>2, <4>3
    <3> QED BY <2>1, <3>1 DEF RecordsSound, Sound
  <2>4. FlightRecorded'
    BY <1>0, <1>1, <2>1, <2>2 DEF FlightRecorded, Undecided
  <2>5. ReceiptReset'
    BY <1>0, <1>1, <2>1 DEF ReceiptReset, NoStaleReceipt
  <2>6. CallbacksOwn'
    <3>1. callback' = IF pc[m] \in RpcStages /\ owner[m] # NoRequest
                      THEN [callback EXCEPT ![s] = [msg |-> m, req |-> owner[m]]]
                      ELSE callback
      BY <1>2 DEF Issue
    <3> QED BY <1>0, <1>1, <2>1, <2>2, <3>1 DEF CallbacksOwn, TypeOK
  <2>7. ArchiveDurable'
    BY <1>0, <1>1, <2>1 DEF ArchiveDurable
  <2> QED BY <2>3, <2>4, <2>5, <2>6, <2>7 DEF Truth
<1>3. CASE Accept(m) \/ Reject(m)
  <2>1. /\ rpc[m] = "flight" /\ rpc'[m] \in {"ok", "err"}
        /\ UNCHANGED <<recovery, disk, reply, callback>>
        /\ accepted'[m] \in {0, 1} /\ accepted[m] = 0
    BY <1>0, <1>3 DEF Accept, Reject, calls, CallsConsistent, TypeOK
  <2>2. RecordsSound'
    <3>1. ASSUME NEW t \in Sessions, NEW rec \in {recovery[t], disk.recovery[t]}
          PROVE  Sound(t, rec)'
      <4>1. Sound(t, rec)
        BY <1>0, <3>1 DEF RecordsSound
      <4>2. CASE rec.req # m
        <5>1. rec \in Record
          BY <1>0 DEF TypeOK
        <5>2. rec.req = NoRequest \/ rec.req \in Messages \ {m}
          BY <1>0, <4>2, <5>1 DEF Record
        <5> QED BY <1>1, <2>1, <4>1, <5>2 DEF Sound
      <4>3. CASE rec.req = m
        BY <1>1, <2>1, <4>1, <4>3 DEF Sound
      <4> QED BY <4>2, <4>3
    <3> QED BY <2>1, <3>1 DEF RecordsSound, Sound
  <2>3. FlightRecorded' /\ ReceiptReset' /\ ArchiveDurable'
    BY <1>0, <1>1, <2>1
    DEF FlightRecorded, Undecided, ReceiptReset, NoStaleReceipt, ArchiveDurable
  <2>4. CallbacksOwn'
    BY <1>0, <1>1, <2>1 DEF CallbacksOwn
  <2> QED BY <2>2, <2>3, <2>4 DEF Truth
<1>4. CASE Respond(m)
  <2> DEFINE rct == IF rpc[m] = "ok" THEN "sent" ELSE "failed"
  <2>1. /\ rpc[m] \in {"ok", "err"} /\ rpc'[m] = "none" /\ UNCHANGED accepted
        /\ reply'[m] = IF pc[m] \in Calling THEN rpc[m] ELSE reply[m]
        /\ rpc[m] = "ok" => accepted[m] = 1
        /\ rpc[m] = "err" => accepted[m] = 0
    BY <1>0, <1>4 DEF Respond, CallsConsistent, TypeOK
  <2>2. CASE /\ recovery[s].req = m
             /\ recovery' = WithReceipt(recovery, s, rct) /\ MaySave(recovery')
    <3>0. PICK new \in Record : new = [recovery[s] EXCEPT !.receipt = rct]
      BY <1>0 DEF Record, Receipt
    <3>1. /\ recovery'[s] = new /\ \A t \in Sessions \ {s} : recovery'[t] = recovery[t]
      BY <1>0, <2>2, <3>0 DEF WithReceipt
    <3>2. /\ new.req = m /\ new.status = recovery[s].status /\ new.receipt = rct
      BY <1>0, <2>2, <3>0 DEF Record
    <3>3. disk' = disk \/ (disk'.recovery = recovery' /\ disk'.archived = archived)
      BY <2>2 DEF MaySave, Saves, SaveRaises, Snapshot
    <3>4. \A t \in Sessions : \A rec \in Record :
            Sound(t, rec) => Sound(t, rec)'
      <4> SUFFICES ASSUME NEW t \in Sessions, NEW rec \in Record, Sound(t, rec)
                   PROVE  Sound(t, rec)'
        OBVIOUS
      <4>1. rec.req \in Messages \/ rec.req = NoRequest
        BY <1>0 DEF Record
      <4> QED BY <1>1, <2>1, <4>1 DEF Sound
    <3>5. Sound(s, recovery[s])
      BY <1>0 DEF RecordsSound
    <3>6. Sound(s, new)'
      <4>1. /\ new.req = m /\ new.req # NoRequest /\ new.status # "none"
            /\ new.status = "sent" => accepted[m] = 1
            /\ new.status \in {"preparing", "failed"} => accepted[m] = 0
        BY <1>0, <2>2, <3>2, <3>5 DEF Sound
      <4> QED BY <1>0, <1>1, <2>1, <3>2, <4>1 DEF Sound
    <3>7. RecordsSound'
      <4>1. \A t \in Sessions : disk.recovery[t] \in Record /\ recovery[t] \in Record
        BY <1>0 DEF TypeOK
      <4> QED BY <1>0, <3>1, <3>3, <3>4, <3>6, <4>1 DEF RecordsSound, Sound
    <3>8. FlightRecorded'
      <4> SUFFICES ASSUME NEW q \in Requests, rpc'[q] = "flight"
                   PROVE  /\ Undecided(q, recovery'[SessionOf[q]])
                          /\ Undecided(q, disk'.recovery[SessionOf[q]])
        BY DEF FlightRecorded, Undecided
      <4>1. /\ q # m /\ rpc[q] = "flight"
            /\ Undecided(q, recovery[SessionOf[q]])
            /\ Undecided(q, disk.recovery[SessionOf[q]])
        BY <1>0, <1>1, <2>1 DEF FlightRecorded
      <4>2. SessionOf[q] # s
        BY <2>2, <4>1 DEF Undecided
      <4> QED BY <1>0, <3>1, <3>3, <4>1, <4>2
    <3>9. ReceiptReset'
      <4> SUFFICES ASSUME NEW q \in Requests PROVE NoStaleReceipt(q)'
        BY DEF ReceiptReset
      <4>1. NoStaleReceipt(q)
        BY <1>0 DEF ReceiptReset
      <4>2. CASE SessionOf[q] # s
        BY <1>0, <1>1, <3>1, <3>3, <4>1, <4>2 DEF NoStaleReceipt
      <4>3. CASE SessionOf[q] = s /\ q # m
        <5>1. pc[q] = "idle"
          BY <1>0, <2>2, <4>3 DEF RecordOwned
        <5> QED BY <1>1, <5>1 DEF NoStaleReceipt, Calling, RpcStages
      <4>4. CASE q = m
        <5>1. pc[m] \notin {"preparing", "queued"}
          BY <1>0, <2>1 DEF CallsConsistent
        <5> QED BY <1>1, <2>1, <3>1, <3>2, <4>1, <4>4, <5>1
            DEF NoStaleReceipt, Calling, RpcStages
      <4> QED BY <4>2, <4>3, <4>4
    <3>10. CallbacksOwn'
      BY <1>0, <1>1, <1>4, <2>1 DEF CallbacksOwn, Respond, TypeOK
    <3>11. ArchiveDurable'
      BY <1>0, <1>1, <3>3 DEF ArchiveDurable
    <3> QED BY <3>7, <3>8, <3>9, <3>10, <3>11 DEF Truth
  <2>3. CASE UNCHANGED <<recovery, disk>>
    <3>1. RecordsSound'
      <4>1. ASSUME NEW t \in Sessions, NEW rec \in {recovery[t], disk.recovery[t]}
            PROVE  Sound(t, rec)'
        <5>1. Sound(t, rec) /\ (rec.req \in Messages \/ rec.req = NoRequest)
          BY <1>0, <4>1 DEF RecordsSound, TypeOK, Record
        <5> QED BY <1>1, <2>1, <5>1 DEF Sound
      <4> QED BY <2>3, <4>1 DEF RecordsSound, Sound
    <3>2. FlightRecorded'
      BY <1>0, <1>1, <2>1, <2>3 DEF FlightRecorded, Undecided
    <3>3. ReceiptReset'
      BY <1>0, <1>1, <2>1, <2>3 DEF ReceiptReset, NoStaleReceipt, Calling
    <3>4. CallbacksOwn'
      BY <1>0, <1>1, <1>4, <2>1 DEF CallbacksOwn, Respond, TypeOK
    <3>5. ArchiveDurable'
      BY <1>0, <1>1, <2>3 DEF ArchiveDurable
    <3> QED BY <3>1, <3>2, <3>3, <3>4, <3>5 DEF Truth
  <2>4. callback[s].msg = m => callback[s].req = m
    BY <1>0 DEF CallbacksOwn, NoCallback
  <2> QED BY <1>4, <2>2, <2>3, <2>4 DEF Respond, RecordReceipt
<1> QED BY <1>2, <1>3, <1>4

\* What else the process does while it runs.
LEMMA SessionTruth ==
  ASSUME Delivery, Truth, Repairs = FALSE,
         Flush \/ \E s \in Sessions : Session(s)
  PROVE  Truth'
<1>0. /\ TypeOK /\ CallsConsistent /\ RecordOwned /\ RecordsSound
      /\ FlightRecorded /\ ReceiptReset /\ CallbacksOwn /\ ArchiveDurable
      /\ recovery \in [Sessions -> Record]
      /\ \A r \in Requests : r \in Messages /\ SessionOf[r] \in Sessions
  BY TruthFacts
<1>1. ASSUME NEW s \in Sessions, EvictCallback(s)
      PROVE  Truth'
  <2>1. UNCHANGED <<up, recovery, archived, disk, pc, owner, reply, rpc, accepted>>
    BY <1>1 DEF EvictCallback, life, calls, provider
  <2>2. CallbacksOwn'
    BY <1>0, <1>1, <2>1 DEF EvictCallback, CallbacksOwn, TypeOK
  <2> QED BY <1>0, <2>1, <2>2
      DEF Truth, RecordsSound, Sound, FlightRecorded, Undecided, ReceiptReset,
          NoStaleReceipt, ArchiveDurable
<1>2. ASSUME NEW s \in Sessions, Recheck(s)
      PROVE  Truth'
  <2> DEFINE st == recovery[s].receipt
             new == [recovery[s] EXCEPT !.status = st]
  <2>1. /\ ~archived[s] /\ recovery[s].req # NoRequest /\ st \in {"sent", "failed"}
        /\ recovery[s].status \notin {"preparing", "sending"}
        /\ UNCHANGED <<archived, pc, owner, reply, rpc, accepted, callback>>
    BY <1>2 DEF Recheck, calls, provider
  <2>2. WritesTo(s, {recovery[s], new})
    BY <1>0, <1>2, CheckpointWrites DEF Recheck
  <2>3. \A r \in Requests : SessionOf[r] = s => pc[r] = "idle"
    <3> SUFFICES ASSUME NEW r \in Requests, SessionOf[r] = s PROVE pc[r] = "idle"
      OBVIOUS
    <3>1. pc[r] \in Calling \cup {"idle", "preparing", "queued"}
      BY <1>0 DEF TypeOK, Stages
    <3>2. pc[r] \notin {"preparing", "queued"} /\ pc[r] \notin Calling
      BY <1>0, <2>1 DEF RecordOwned
    <3> QED BY <3>1, <3>2
  <2>4. Sound(s, recovery[s])
    BY <1>0 DEF RecordsSound
  <2>5. Sound(s, new)
    BY <1>0, <2>1, <2>4 DEF Sound, Record
  <2>6. \A r \in Requests : ~(rpc[r] = "flight" /\ SessionOf[r] = s)
    <3> SUFFICES ASSUME NEW r \in Requests, rpc[r] = "flight", SessionOf[r] = s
                 PROVE  FALSE
      OBVIOUS
    <3>1. recovery[s].req = r /\ accepted[r] = 0
      BY <1>0 DEF FlightRecorded, Undecided, CallsConsistent
    <3> QED BY <2>1, <2>4, <3>1 DEF Sound
  <2>7. \A r \in Requests : SessionOf[r] = s => NoStaleReceipt(r)'
    BY <2>1, <2>3 DEF NoStaleReceipt, Calling, RpcStages
  <2> HIDE DEF new
  <2> QED BY <2>1, <2>2, <2>4, <2>5, <2>6, <2>7, TruthWritten
<1>3. ASSUME NEW s \in Sessions, Archive(s)
      PROVE  Truth'
  <2>1. /\ UNCHANGED <<recovery, pc, owner, reply, rpc, accepted, callback>>
        /\ disk' = disk \/ disk'.recovery = recovery
        /\ \A t \in Sessions : archived[t] => archived'[t]
        /\ \A t \in Sessions : archived'[t] => disk'.archived[t]
    <3> DEFINE shut == [archived EXCEPT ![s] = TRUE]
    <3>1. \A t \in Sessions : archived[t] => shut[t]
      BY <1>0 DEF TypeOK
    <3> HIDE DEF shut
    <3>2. \/ archived' = shut /\ disk' = Snapshot(recovery, shut)
          \/ archived' = archived /\ disk' \in {disk, Snapshot(recovery, shut)}
      BY <1>3 DEF Archive, shut
    <3>3. /\ Snapshot(recovery, shut).recovery = recovery
          /\ Snapshot(recovery, shut).archived = shut
      BY DEF Snapshot
    <3>4. UNCHANGED <<recovery, pc, owner, reply, rpc, accepted, callback>>
      BY <1>3 DEF Archive, calls, provider
    <3>5. \A t \in Sessions : archived'[t] => disk'.archived[t]
      BY <1>0, <3>1, <3>2, <3>3 DEF ArchiveDurable
    <3> QED BY <3>1, <3>2, <3>3, <3>4, <3>5
  <2>2. RecordsSound'
    BY <1>0, <2>1 DEF RecordsSound, Sound
  <2>3. FlightRecorded' /\ CallbacksOwn' /\ ArchiveDurable'
    BY <1>0, <2>1 DEF FlightRecorded, Undecided, CallbacksOwn, ArchiveDurable
  <2>4. ReceiptReset'
    BY <1>0, <2>1 DEF ReceiptReset, NoStaleReceipt
  <2> QED BY <2>2, <2>3, <2>4 DEF Truth
<1>4. CASE Flush
  <2>1. /\ UNCHANGED <<recovery, archived, pc, owner, reply, rpc, accepted, callback>>
        /\ disk'.recovery = recovery /\ disk'.archived = archived
    BY <1>4 DEF Flush, Snapshot, calls, provider
  <2>2. RecordsSound' /\ FlightRecorded' /\ CallbacksOwn' /\ ArchiveDurable'
    BY <1>0, <2>1
    DEF RecordsSound, Sound, FlightRecorded, Undecided, CallbacksOwn, ArchiveDurable
  <2>3. ReceiptReset'
    BY <1>0, <2>1 DEF ReceiptReset, NoStaleReceipt
  <2> QED BY <2>2, <2>3 DEF Truth
<1>5. ASSUME NEW s \in Sessions PROVE ~Unarchive(s)
  BY DEF Unarchive
<1> QED BY <1>1, <1>2, <1>3, <1>4, <1>5 DEF Session

\* The process dies and comes back.
LEMMA RestartTruth ==
  ASSUME Delivery, Truth, Crash \/ Start
  PROVE  Truth'
<1>0. /\ TypeOK /\ DownMirrors /\ RecordsSound /\ FlightRecorded
      /\ CallbacksOwn /\ ArchiveDurable
      /\ recovery \in [Sessions -> Record]
      /\ \A r \in Requests : r \in Messages /\ SessionOf[r] \in Sessions
  BY TruthFacts
<1>1. CASE Crash
  <2>1. /\ recovery' = disk.recovery /\ archived' = disk.archived
        /\ UNCHANGED <<disk, rpc, accepted>>
        /\ \A m \in Messages : pc'[m] = "idle"
        /\ \A s \in Sessions : callback'[s] = NoCallback
    BY <1>1 DEF Crash, provider
  <2>2. RecordsSound'
    BY <1>0, <2>1 DEF RecordsSound, Sound, ArchiveDurable
  <2>3. FlightRecorded' /\ CallbacksOwn' /\ ArchiveDurable'
    BY <1>0, <2>1 DEF FlightRecorded, Undecided, CallbacksOwn, ArchiveDurable
  <2>4. ReceiptReset'
    BY <1>0, <2>1 DEF ReceiptReset, NoStaleReceipt, Calling, RpcStages
  <2> QED BY <2>2, <2>3, <2>4 DEF Truth
<1>2. CASE Start
  <2> DEFINE rec == [s \in Sessions |-> IF archived[s] THEN recovery[s]
                                        ELSE Restored(recovery[s])]
  <2>1. \A s \in Sessions :
          /\ Sound(s, recovery[s]) => Sound(s, Restored(recovery[s]))
          /\ \A r \in Requests : Undecided(r, recovery[s])
                                   => Undecided(r, Restored(recovery[s]))
    BY <1>0 DEF Restored, Sound, Undecided, Record
  <2>2. \A s \in Sessions :
          /\ Sound(s, recovery[s]) => Sound(s, rec[s])
          /\ \A r \in Requests : Undecided(r, recovery[s]) => Undecided(r, rec[s])
    BY <2>1
  <2>3. PICK saved \in SUBSET Sessions :
          /\ recovery' = rec
          /\ disk' = Snapshot([s \in Sessions |->
                                 IF s \in saved THEN rec[s] ELSE recovery[s]],
                              archived)
    BY <1>2 DEF Start
  <2> HIDE DEF rec
  <2>4. /\ recovery' = rec
        /\ \A s \in Sessions : disk'.recovery[s] \in {rec[s], recovery[s]}
        /\ disk'.archived = archived
    BY <2>3 DEF Snapshot
  <2>5. /\ UNCHANGED <<archived, rpc, accepted, pc, callback>> /\ ~up
        /\ \A m \in Messages : pc[m] = "idle"
    BY <1>0, <1>2 DEF Start, calls, provider, DownMirrors
  <2>6. RecordsSound'
    <3>1. \A s \in Sessions : Sound(s, recovery'[s]) /\ Sound(s, disk'.recovery[s])
      BY <1>0, <2>2, <2>4 DEF RecordsSound
    <3> QED BY <2>5, <3>1 DEF RecordsSound, Sound
  <2>7. FlightRecorded'
    <3>1. \A r \in Requests : rpc[r] = "flight" =>
            /\ Undecided(r, recovery'[SessionOf[r]])
            /\ Undecided(r, disk'.recovery[SessionOf[r]])
      BY <1>0, <2>2, <2>4 DEF FlightRecorded
    <3> QED BY <2>5, <3>1 DEF FlightRecorded, Undecided
  <2>8. CallbacksOwn' /\ ArchiveDurable'
    BY <1>0, <2>4, <2>5 DEF CallbacksOwn, ArchiveDurable
  <2>9. ReceiptReset'
    BY <1>0, <2>5 DEF ReceiptReset, NoStaleReceipt, Calling, RpcStages
  <2> QED BY <2>6, <2>7, <2>8, <2>9 DEF Truth
<1> QED BY <1>1, <1>2

\* Every step preserves Truth.
LEMMA TruthStep ==
  ASSUME Untracked = {}, Repairs = FALSE, Delivery, Truth, [Next]_vars
  PROVE  Truth'
<1>1. ASSUME NEW r \in Requests, Tracked(r)
      PROVE  Truth'
  BY <1>1, SubmitTruth, TaskTruth DEF Tracked
<1>2. ASSUME NEW m \in Messages, Call(m)
      PROVE  Truth'
  BY <1>2, TruthFacts, CallTruth, LadderSteps, LadderTruth DEF Call
<1>3. CASE UNCHANGED vars
  BY <1>3 DEF vars, life, calls, provider, client, Truth, RecordsSound, Sound,
     FlightRecorded, Undecided, ReceiptReset, NoStaleReceipt, CallbacksOwn,
     ArchiveDurable
<1> QED BY <1>1, <1>2, <1>3, SessionTruth, RestartTruth DEF Next

\* With every message tracked and no archive repair, the inductive invariant
\* of the records' truth holds in every behaviour.
THEOREM TruthInvariant ==
  ASSUME Untracked = {}, Repairs = FALSE
  PROVE  Spec => [](Delivery /\ Truth)
<1>1. Init => Truth
  BY SendRecoveryAssumption
  DEF Init, Truth, RecordsSound, Sound, FlightRecorded, Undecided, ReceiptReset,
      NoStaleReceipt, CallbacksOwn, ArchiveDurable, NoRecord, NoCallback,
      Messages, Calling, RpcStages
<1>2. Delivery /\ Truth /\ [Next]_vars => Truth'
  BY TruthStep
<1> QED BY <1>1, <1>2, DeliveryInvariant, PTL DEF Spec

\* What the records of a session may say, in memory and after a restart.
LEMMA DurableSound ==
  ASSUME Delivery, Truth, NEW s \in Sessions, NEW rec \in {recovery[s], Durable(s)}
  PROVE  /\ rec.status = "failed" => accepted[rec.req] = 0 /\ rpc[rec.req] # "flight"
         /\ rec.status = "sent" => accepted[rec.req] = 1
         /\ rec.req # NoRequest => rec.status # "none"
<1>1. Sound(s, recovery[s]) /\ Sound(s, disk.recovery[s]) /\ disk.recovery[s] \in Record
  BY TruthFacts DEF RecordsSound, TypeOK
<1>2. CASE rec = recovery[s]
  BY <1>1, <1>2 DEF Sound
<1>3. CASE rec = disk.recovery[s]
  BY <1>1, <1>3 DEF Sound
<1>4. CASE rec = Restored(disk.recovery[s])
  <2>1. /\ rec.req = disk.recovery[s].req
        /\ rec.status = "failed" => disk.recovery[s].status \in {"preparing", "failed"}
        /\ rec.status = "sent" => disk.recovery[s].status = "sent"
        /\ rec.status = "none" => disk.recovery[s].status = "none"
    BY <1>1, <1>4 DEF Restored, Record
  <2> QED BY <1>1, <2>1 DEF Sound
<1> QED BY <1>2, <1>3, <1>4 DEF Durable

\* "failed" is never said of a request the provider took or may still take:
\* sending again is safe.
THEOREM FailedIsTrue ==
  ASSUME Untracked = {}, Repairs = FALSE
  PROVE  Spec => []FailedMeansUndelivered
<1>1. Delivery /\ Truth => FailedMeansUndelivered
  BY DurableSound DEF FailedMeansUndelivered
<1> QED BY <1>1, TruthInvariant, PTL

\* "sent" is never said of a request the provider did not take.
THEOREM SentIsTrue ==
  ASSUME Untracked = {}, Repairs = FALSE
  PROVE  Spec => []SentMeansDelivered
<1>1. Delivery /\ Truth => SentMeansDelivered
  BY DurableSound DEF SentMeansDelivered
<1> QED BY <1>1, TruthInvariant, PTL

\* Two requests of a session are never with the provider at once.
THEOREM NeverTwoAtOnce ==
  ASSUME Untracked = {}, Repairs = FALSE
  PROVE  Spec => []OneAtATime
<1>1. Delivery /\ Truth => OneAtATime
  <2>1. ASSUME Delivery, Truth, NEW r \in Requests, InFlight(r)
        PROVE  recovery[SessionOf[r]].req = r
    BY <2>1, TruthFacts
    DEF InFlight, FlightRecorded, Undecided, RecordOwned, Calling, RpcStages
  <2> QED BY <2>1 DEF OneAtATime
<1> QED BY <1>1, TruthInvariant, PTL

\* Whatever the provider may take is on disk, to be restored as unknown.
THEOREM WrittenAhead ==
  ASSUME Untracked = {}, Repairs = FALSE
  PROVE  Spec => []WriteAhead
<1>1. Delivery /\ Truth => WriteAhead
  <2> SUFFICES ASSUME Delivery, Truth, NEW r \in Requests, InFlight(r)
               PROVE  LET rec == Durable(SessionOf[r]) IN
                      rec.req = r /\ rec.status \in {"sending", "unknown"}
    BY DEF WriteAhead
  <2> DEFINE rec == disk.recovery[SessionOf[r]]
  <2>1. rec.req = r /\ rec.status \in {"sending", "unknown"} /\ rec \in Record
    BY TruthFacts DEF InFlight, FlightRecorded, Undecided, RecordOwned, TypeOK
  <2>2. /\ Restored(rec).req = rec.req
        /\ rec.status \in {"sending", "unknown"} => Restored(rec).status = "unknown"
    BY <2>1 DEF Restored, Record
  <2> HIDE DEF rec
  <2> QED BY <2>1, <2>2 DEF Durable, rec
<1> QED BY <1>1, TruthInvariant, PTL

\* What the provider took stays on record while it is the latest request.
THEOREM NotForgotten ==
  ASSUME Untracked = {}, Repairs = FALSE
  PROVE  Spec => []DeliveredIsRemembered
<1>1. Delivery /\ Truth => DeliveredIsRemembered
  <2> SUFFICES ASSUME Delivery, Truth, NEW s \in Sessions,
                      NEW rec \in {recovery[s], Durable(s)},
                      latest[s] # NoRequest, accepted[latest[s]] > 0
               PROVE  rec.req = latest[s] /\ rec.status \in {"sending", "sent", "unknown"}
    BY DEF DeliveredIsRemembered
  <2>1. /\ recovery[s].req = latest[s] /\ disk.recovery[s].req = latest[s]
        /\ recovery[s] \in Record /\ disk.recovery[s] \in Record
    BY TruthFacts DEF LatestRemembered, TypeOK
  <2>2. rec.req = latest[s]
    BY <2>1 DEF Durable, Restored, Record
  <2>3. rec.status \notin {"none", "failed"}
    BY <2>2, DurableSound
  <2>4. rec.status # "preparing" /\ rec.status \in Status
    <3>1. recovery[s].status # "preparing" /\ disk.recovery[s].status # "preparing"
      BY <2>1, TruthFacts DEF RecordsSound, Sound
    <3> QED BY <2>1, <3>1 DEF Durable, Restored, Record, Status
  <2> QED BY <2>2, <2>3, <2>4 DEF Status
<1> QED BY <1>1, TruthInvariant, PTL

-----------------------------------------------------------------------------
(* The promise.  Every step of the send is a step of HonestDelivery, seen  *)
(* through the mapping of SendRecovery, or a stutter.                      *)

\* What the mapping sees of the provider.
Out   == {r \in Requests : InFlight(r) /\ accepted[r] = 0}
Taken == {r \in Requests : accepted[r] > 0}
Word(s) == [req |-> recovery[s].req, verdict |-> Verdict(recovery[s].status)]

\* An undecided record keeps its request through a step that keeps the
\* requests on record, in memory and on disk.
LEMMA KeptDurable ==
  ASSUME TypeOK, UnresolvedDurable, KeepsRecords
  PROVE  UnresolvedDurable'
BY DEF UnresolvedDurable, KeepsRecords

\* Likewise when one session's status changes, and it was undecided.
LEMMA ResettledDurable ==
  ASSUME TypeOK, UnresolvedDurable, NEW s \in Sessions, Resettles(s),
         \/ recovery[s].status \in Unresolved
         \/ recovery'[s].status \notin Unresolved
  PROVE  UnresolvedDurable'
BY DEF UnresolvedDurable, Resettles

\* No step leaves an undecided request off the disk.
LEMMA DurableStep ==
  ASSUME Untracked = {}, Repairs = FALSE, Delivery, Truth, UnresolvedDurable,
         [Next]_vars
  PROVE  UnresolvedDurable'
<1> USE SendRecoveryAssumption
<1>0. /\ TypeOK /\ RecordOwned /\ DownMirrors
      /\ \A m \in Messages : m \in Requests /\ SessionOf[m] \in Sessions
      /\ \A r \in Requests : r \in Messages
  BY TruthFacts DEF Messages
<1>a. ASSUME NEW s \in Sessions, NEW r, NEW st, Checkpoint(s, r, st),
             st \notin Unresolved \/ recovery[s].status \in Unresolved
      PROVE  UnresolvedDurable'
  <2>1. CASE recovery[s].req # r
    BY <1>0, <1>a, <2>1 DEF Checkpoint, UnresolvedDurable
  <2>2. CASE recovery[s].req = r
    <3>1. recovery'[s].status = st
      BY <1>0, <1>a, <2>2, RecordFields DEF Checkpoint, TypeOK
    <3> QED BY <1>0, <1>a, <3>1, CheckpointResettles, ResettledDurable
  <2> QED BY <2>1, <2>2
<1>1. ASSUME NEW r \in Requests, Submit(r)
      PROVE  UnresolvedDurable'
  <2>1. CASE Refuse(r)
    BY <1>0, <2>1 DEF Refuse, UnresolvedDurable
  <2>2. CASE Admit(r)
    <3> DEFINE s     == SessionOf[r]
               fresh == [recovery EXCEPT ![s] =
                          [req |-> r, status |-> "preparing", receipt |-> "none"]]
    <3>0. s \in Sessions
      BY <1>0
    <3>1. CASE recovery' = fresh /\ Saves(fresh)
      BY <3>1 DEF Saves, Snapshot, UnresolvedDurable
    <3>2. CASE recovery' = WithStatus(fresh, s, "failed") /\ SaveRaises(fresh)
      <4>1. /\ \A t \in Sessions \ {s} : recovery'[t] = recovery[t]
            /\ recovery'[s].status = "failed"
        BY <1>0, <3>0, <3>2 DEF WithStatus, TypeOK
      <4>2. \A t \in Sessions \ {s} : fresh[t] = recovery[t]
        BY <1>0, <3>0 DEF TypeOK
      <4> HIDE DEF fresh
      <4>3. disk' = disk \/ disk'.recovery = fresh
        BY <3>2 DEF SaveRaises, Snapshot
      <4> QED BY <4>1, <4>2, <4>3 DEF UnresolvedDurable, Unresolved
    <3> HIDE DEF fresh
    <3> QED BY <2>2, <3>1, <3>2 DEF Admit, fresh
  <2> QED BY <1>1, <2>1, <2>2 DEF Submit
<1>2. ASSUME NEW r \in Requests, PrepareFails(r) \/ SendRejected(r)
      PROVE  UnresolvedDurable'
  BY <1>0, <1>2, <1>a DEF PrepareFails, SendRejected, Unresolved
<1>3. ASSUME NEW r \in Requests, SendUnsaved(r)
      PROVE  UnresolvedDurable'
  <2> DEFINE s == SessionOf[r]
  <2>1. /\ s \in Sessions /\ recovery \in [Sessions -> Record]
        /\ recovery' = WithStatus(recovery, s, "failed")
        /\ \/ disk' = disk
           \/ disk'.recovery = WithStatus(recovery, s, "sending")
           \/ disk'.recovery = WithStatus(recovery, s, "failed")
    BY <1>0, <1>3 DEF SendUnsaved, Snapshot, TypeOK
  <2>2. Resettles(s) /\ recovery'[s].status = "failed"
    BY <2>1, RecordFields DEF Resettles
  <2> HIDE DEF s
  <2> QED BY <1>0, <2>1, <2>2, ResettledDurable DEF Unresolved
<1>4. ASSUME NEW r \in Requests, SendBegins(r)
      PROVE  UnresolvedDurable'
  BY <1>4 DEF SendBegins, Saves, Snapshot, UnresolvedDurable
<1>5. ASSUME UNCHANGED <<recovery, disk>>
      PROVE  UnresolvedDurable'
  BY <1>5 DEF UnresolvedDurable
<1>6. ASSUME NEW m \in Messages, Respond(m)
      PROVE  UnresolvedDurable'
  <2>1. KeepsRecords
    BY <1>0, <1>6, ReceiptKeeps DEF Respond, RecordReceipt
  <2> QED BY <1>0, <2>1, KeptDurable
<1>7. ASSUME NEW m \in Messages, Ladder(m)
      PROVE  UnresolvedDurable'
  <2>0. m \in Requests /\ recovery[SessionOf[m]].status \in Unresolved
    BY <1>0, <1>7 DEF Ladder, RecordOwned, Unresolved
  <2>1. ASSUME NEW st, Finish(m, st)
        PROVE  UnresolvedDurable'
    BY <1>0, <1>a, <2>0, <2>1 DEF Finish
  <2>2. CASE Moves(m)
    BY <1>5, <2>2 DEF Moves
  <2>3. CASE Resets(m)
    <3>1. KeepsRecords \/ Resettles(SessionOf[m])
      BY <1>0, <2>3, ResetShape DEF Resets
    <3> QED BY <1>0, <2>0, <3>1, KeptDurable, ResettledDurable
  <2> QED BY <1>7, <2>1, <2>2, <2>3 DEF Ladder
<1>8. ASSUME NEW s \in Sessions, Recheck(s)
      PROVE  UnresolvedDurable'
  BY <1>0, <1>8, <1>a DEF Recheck, Unresolved
<1>9. ASSUME NEW arch, UNCHANGED recovery, disk' \in {disk, Snapshot(recovery, arch)}
      PROVE  UnresolvedDurable'
  BY <1>0, <1>9, FlushKeeps, KeptDurable
<1>10. CASE Crash
  BY <1>10 DEF Crash, UnresolvedDurable
<1>11. CASE Start
  <2>1. recovery = disk.recovery
    BY <1>0, <1>11 DEF Start, DownMirrors
  <2>2. \A s \in Sessions : /\ recovery'[s].req = recovery[s].req
                            /\ disk'.recovery[s].req = recovery[s].req
    BY <1>0, <1>11 DEF Start, Restored, Snapshot, TypeOK, Record
  <2> QED BY <2>2 DEF UnresolvedDurable
<1>12. ASSUME NEW r \in Requests, Tracked(r)
       PROVE  UnresolvedDurable'
  BY <1>1, <1>2, <1>3, <1>4, <1>5, <1>12 DEF Tracked, PrepareDone
<1>13. ASSUME NEW m \in Messages, Call(m)
       PROVE  UnresolvedDurable'
  BY <1>0, <1>5, <1>6, <1>7, <1>13, LadderSteps DEF Call, Issue, Accept, Reject
<1>14. ASSUME NEW s \in Sessions, Session(s)
       PROVE  UnresolvedDurable'
  BY <1>5, <1>8, <1>9, <1>14 DEF Session, EvictCallback, Archive, Unarchive
<1>15. CASE Flush
  BY <1>9, <1>15 DEF Flush
<1> QED BY <1>5, <1>10, <1>11, <1>12, <1>13, <1>14, <1>15 DEF Next, vars

\* What a session says is honest, and at most one of its requests is out.
Words ==
  /\ \A s \in Sessions : /\ Word(s) \in Promise!Said
                         /\ Promise!Honest(Word(s), Out, Taken)
  /\ \A r \in Out : r \in Requests /\ recovery[SessionOf[r]].req = r

\* The two invariants say that no record lies and that one request is out.
LEMMA HonestNow == Delivery /\ Truth => Words
<1> SUFFICES ASSUME Delivery, Truth
             PROVE  Words
  OBVIOUS
<1>1. /\ \A r \in Requests : accepted[r] \in {0, 1} /\ NoRequest # r
      /\ \A s \in Sessions : /\ recovery[s] \in Record /\ Sound(s, recovery[s])
  BY TruthFacts DEF CallsConsistent, RecordsSound
<1>2. ASSUME NEW r \in Out
      PROVE  /\ r \in Requests /\ recovery[SessionOf[r]].req = r
             /\ recovery[SessionOf[r]].status \in {"sending", "unknown"}
  <2>1. r \in Requests /\ (rpc[r] = "flight" \/ pc[r] \in Calling)
    BY <1>2 DEF Out, InFlight
  <2> QED BY <2>1, TruthFacts DEF FlightRecorded, Undecided, RecordOwned, Calling, RpcStages
<1>3. ASSUME NEW s \in Sessions
      PROVE  /\ Word(s) \in Promise!Said
             /\ Promise!Honest(Word(s), Out, Taken)
  <2>1. Word(s) \in Promise!Said
    BY <1>1 DEF Word, Verdict, Promise!Said, Promise!Open, Record, Status
  <2>2. ASSUME recovery[s].status = "sent"
        PROVE  recovery[s].req \in Taken
    BY <1>1, <2>2 DEF Sound, Taken, Record
  <2>3. ASSUME recovery[s].status = "failed"
        PROVE  recovery[s].req \notin Out \cup Taken
    <3>1. recovery[s].req \in Requests /\ SessionOf[recovery[s].req] = s
      BY <1>1, <2>3 DEF Sound, Record
    <3> QED BY <1>1, <1>2, <2>3, <3>1 DEF Sound, Taken
  <2> QED BY <2>1, <2>2, <2>3 DEF Word, Verdict, Promise!Honest
<1> QED BY <1>2, <1>3 DEF Words

\* A step after which no request is newly out or taken, and only a session
\* whose request is decided turns to another, is a Say.
LEMMA SayStep ==
  ASSUME Delivery, Truth, Delivery', Truth',
         Out' \subseteq Out, Taken' = Taken,
         \A s \in Sessions : recovery'[s].req # recovery[s].req
                               => recovery[s].status \notin Unresolved
  PROVE  Promise!Say
<1> DEFINE said  == [s \in Sessions |-> Word(s)]
           quiet == {SessionOf[r] : r \in Out \ Out'}
<1>0. Delivery' /\ Truth' => Words'
  BY HonestNow, PTL
<1>1. /\ \A r \in Out : r \in Requests /\ recovery[SessionOf[r]].req = r
      /\ \A s \in Sessions : Word(s)' \in Promise!Said /\ Promise!Honest(Word(s)', Out', Taken')
  BY <1>0, HonestNow DEF Words, Promise!Honest
<1>2. Out' = {r \in Out : SessionOf[r] \notin quiet}
  BY <1>1
<1>3. quiet \in SUBSET Sessions
  BY <1>1, SendRecoveryAssumption DEF Messages
<1>4. \A s \in Sessions : recovery[s].status \notin Unresolved
                            => Verdict(recovery[s].status) \notin Promise!Open
  BY TruthFacts DEF Verdict, Unresolved, Promise!Open, TypeOK, Record, Status
<1> QED BY <1>1, <1>2, <1>3, <1>4 DEF Promise!Say, Out, Taken, Word

\* What a step may do that hands nothing over and takes nothing.
Recedes ==
  /\ \A r \in Requests :
       /\ accepted'[r] = accepted[r]
       /\ rpc'[r] = "flight" \/ pc'[r] \in Calling
            => rpc[r] = "flight" \/ pc[r] \in Calling
  /\ \A s \in Sessions : recovery'[s].req # recovery[s].req
                           => recovery[s].status \notin Unresolved

\* Such a step is a Say.
LEMMA RecedesSays ==
  ASSUME Delivery, Truth, Delivery', Truth', Recedes
  PROVE  Promise!Say
<1>1. Out' \subseteq Out /\ Taken' = Taken
  BY DEF Recedes, Out, Taken, InFlight
<1> QED BY <1>1, SayStep DEF Recedes

\* Every step but the start of a send and the provider's taking it recedes.
LEMMA OthersRecede ==
  ASSUME Untracked = {}, Repairs = FALSE, Delivery, Truth, UnresolvedDurable,
         [Next]_vars
  PROVE  \/ Recedes
         \/ \E r \in Requests : SendBegins(r) \/ Accept(r)
<1> USE SendRecoveryAssumption
<1>0. /\ TypeOK /\ RecordOwned /\ DownMirrors
      /\ \A m \in Messages : m \in Requests /\ SessionOf[m] \in Sessions
      /\ \A r \in Requests : r \in Messages
  BY TruthFacts DEF Messages
<1>a. ASSUME NEW s \in Sessions, NEW r, NEW st, Checkpoint(s, r, st)
      PROVE  \A t \in Sessions : recovery'[t].req = recovery[t].req
  BY <1>0, <1>a, CheckpointResettles DEF Resettles
<1>1. ASSUME NEW r \in Requests, Submit(r)
      PROVE  Recedes
  <2>1. /\ UNCHANGED <<rpc, accepted>>
        /\ pc' = pc \/ pc' = [pc EXCEPT ![r] = "preparing"]
    BY <1>1 DEF Submit, Refuse, Admit, provider
  <2>2. \A s \in Sessions : recovery'[s].req # recovery[s].req
                              => recovery[s].status \notin Unresolved
    BY <1>0, <1>1 DEF Submit, Refuse, Admit, WithStatus, TypeOK
  <2> QED BY <1>0, <2>1, <2>2 DEF Recedes, TypeOK, Calling, RpcStages
<1>2. ASSUME NEW r \in Requests, PrepareFails(r) \/ SendRejected(r)
      PROVE  Recedes
  <2>1. \A s \in Sessions : recovery'[s].req = recovery[s].req
    BY <1>0, <1>2, <1>a DEF PrepareFails, SendRejected
  <2> QED BY <1>0, <1>2, <2>1
    DEF PrepareFails, SendRejected, Recedes, TypeOK, Calling, RpcStages, provider
<1>3. ASSUME NEW r \in Requests, PrepareDone(r)
      PROVE  Recedes
  BY <1>0, <1>3 DEF PrepareDone, Recedes, TypeOK, Calling, RpcStages, provider
<1>4. ASSUME NEW r \in Requests, SendUnsaved(r)
      PROVE  Recedes
  <2>1. \A s \in Sessions : recovery'[s].req = recovery[s].req
    <3>1. /\ SessionOf[r] \in Sessions /\ recovery \in [Sessions -> Record]
          /\ recovery' = WithStatus(recovery, SessionOf[r], "failed")
      BY <1>0, <1>4 DEF SendUnsaved, TypeOK
    <3> QED BY <3>1, RecordFields
  <2> QED BY <1>0, <1>4, <2>1
    DEF SendUnsaved, Recedes, TypeOK, Calling, RpcStages, provider
<1>5. ASSUME UNCHANGED <<recovery, pc, accepted>>,
             \A r \in Requests : rpc'[r] = "flight" 
                => rpc[r] = "flight" \/ pc[r] \in Calling
      PROVE  Recedes
  BY <1>5 DEF Recedes
<1>6. ASSUME NEW m \in Messages, Issue(m) \/ Reject(m)
      PROVE  Recedes
  BY <1>0, <1>5, <1>6 DEF Issue, Reject, TypeOK, calls, Calling
<1>7. ASSUME NEW m \in Messages, Respond(m)
      PROVE  Recedes
  <2>1. \A s \in Sessions : recovery'[s].req = recovery[s].req
    <3>1. KeepsRecords
      BY <1>0, <1>7, ReceiptKeeps DEF Respond, RecordReceipt
    <3> QED BY <3>1 DEF KeepsRecords
  <2> QED BY <1>0, <1>7, <2>1 DEF Respond, Recedes, TypeOK
<1>8. ASSUME NEW m \in Messages, Ladder(m)
      PROVE  Recedes
  <2>0. m \in Requests /\ SessionOf[m] \in Sessions
    BY <1>0
  <2>1. \A s \in Sessions : recovery'[s].req = recovery[s].req
    <3>1. ASSUME NEW st, Finish(m, st)
          PROVE  \A s \in Sessions : recovery'[s].req = recovery[s].req
      BY <1>a, <2>0, <3>1 DEF Finish
    <3>2. CASE Moves(m)
      BY <3>2 DEF Moves
    <3>3. CASE Resets(m)
      <4>1. KeepsRecords \/ Resettles(SessionOf[m])
        BY <1>0, <3>3, ResetShape DEF Resets
      <4> QED BY <4>1 DEF KeepsRecords, Resettles
    <3> QED BY <1>8, <3>1, <3>2, <3>3 DEF Ladder
  <2>2. UNCHANGED <<rpc, accepted>> /\ pc[m] \in Calling
    BY <1>8 DEF Ladder, provider
  <2>3. \A r \in Requests : r # m => pc'[r] = pc[r]
    BY <1>0, <1>8 DEF Ladder, Finish, Moves, Resets, Reset, Goto, Ends, TypeOK
  <2> QED BY <2>1, <2>2, <2>3 DEF Recedes
<1>9. ASSUME NEW s \in Sessions, Recheck(s)
      PROVE  Recedes
  <2>1. \A t \in Sessions : recovery'[t].req = recovery[t].req
    BY <1>9, <1>a DEF Recheck
  <2> QED BY <1>9, <2>1 DEF Recheck, Recedes, calls, provider
<1>10. CASE Crash
  <2>1. recovery' = disk.recovery /\ UNCHANGED <<rpc, accepted>>
        /\ \A r \in Requests : pc'[r] = "idle"
    BY <1>0, <1>10 DEF Crash, provider
  <2> QED BY <2>1 DEF Recedes, UnresolvedDurable, Calling, RpcStages
<1>11. CASE Start
  <2>1. \A s \in Sessions : recovery'[s].req = recovery[s].req
    BY <1>0, <1>11 DEF Start, Restored, TypeOK, Record
  <2> QED BY <1>11, <2>1 DEF Start, Recedes, calls, provider
<1>12. ASSUME UNCHANGED <<recovery, calls, provider>>
       PROVE  Recedes
  BY <1>12 DEF Recedes, calls, provider
<1>13. ASSUME NEW r \in Requests, Tracked(r)
       PROVE  Recedes \/ SendBegins(r)
  BY <1>1, <1>2, <1>3, <1>4, <1>13 DEF Tracked
<1>14. ASSUME NEW m \in Messages, Call(m)
       PROVE  Recedes \/ Accept(m)
  BY <1>0, <1>6, <1>7, <1>8, <1>14, LadderSteps DEF Call
<1>15. ASSUME NEW s \in Sessions, Session(s)
       PROVE  Recedes
  BY <1>9, <1>12, <1>15 DEF Session, EvictCallback, Archive, Unarchive
<1>16. CASE Flush
  BY <1>12, <1>16 DEF Flush
<1>17. CASE UNCHANGED vars
  BY <1>12, <1>17 DEF vars
<1> QED BY <1>0, <1>10, <1>11, <1>13, <1>14, <1>15, <1>16, <1>17 DEF Next

\* The start of a send hands the request over.
LEMMA BeginHandsOver ==
  ASSUME Untracked = {}, Delivery, Truth, NEW r \in Requests, SendBegins(r)
  PROVE  Promise!HandOver(r)
<1> DEFINE s == SessionOf[r]
<1>0. /\ TypeOK /\ r \in Messages /\ s \in Sessions /\ recovery \in [Sessions -> Record]
      /\ \A q \in Requests : q \in Messages
  BY TruthFacts
<1>1. /\ pc[r] = "queued" /\ recovery[s].req = r
      /\ recovery[s].status = "preparing" /\ accepted[r] = 0 /\ rpc[r] = "none"
  BY <1>0, TruthFacts DEF SendBegins, RecordOwned, CallsConsistent
<1>2. /\ recovery' = WithStatus(recovery, s, "sending")
      /\ UNCHANGED <<rpc, accepted>>
      /\ pc'[r] \in Calling /\ \A q \in Requests \ {r} : pc'[q] = pc[q]
  BY <1>0 DEF SendBegins, provider, TypeOK, Calling, RpcStages
<1>3. r \notin Out
  BY <1>1 DEF Out, InFlight, Calling, RpcStages
<1>4. \A q \in Out : SessionOf[q] # s
  <2>1. \A q \in Out : q \in Requests /\ recovery[SessionOf[q]].req = q
    BY HonestNow DEF Words
  <2> QED BY <1>1, <1>3, <2>1
<1>5. Out' = Out \cup {r} /\ Taken' = Taken
  BY <1>1, <1>2 DEF Out, Taken, InFlight
<1>6. \A t \in Sessions : Word(t)' = Word(t)
  <2>1. \A t \in Sessions \ {s} : recovery'[t] = recovery[t]
    BY <1>0, <1>2, RecordFields
  <2>2. recovery'[s].req = recovery[s].req /\ recovery'[s].status = "sending"
    BY <1>0, <1>2, RecordFields
  <2> QED BY <1>1, <2>1, <2>2 DEF Word, Verdict
<1>7. Word(s) = [req |-> r, verdict |-> "pending"] /\ r \notin Taken
  BY <1>1 DEF Word, Verdict, Taken
<1> QED BY <1>0, <1>4, <1>5, <1>6, <1>7 DEF Promise!HandOver, Out, Taken, Word

\* The provider's acceptance takes it.
LEMMA AcceptTakes ==
  ASSUME Untracked = {}, Delivery, Truth, NEW r \in Requests, Accept(r)
  PROVE  Promise!Take(r)
<1>1. /\ TypeOK /\ r \in Messages /\ accepted[r] = 0 /\ rpc[r] = "flight"
      /\ \A q \in Requests : q \in Messages
  BY TruthFacts DEF Accept, CallsConsistent
<1>2. /\ accepted'[r] = 1 /\ UNCHANGED <<recovery, pc>>
      /\ \A q \in Requests \ {r} : accepted'[q] = accepted[q] /\ rpc'[q] = rpc[q]
  BY <1>1 DEF Accept, TypeOK, calls
<1>3. r \in Out /\ Out' = Out \ {r} /\ Taken' = Taken \cup {r}
  BY <1>1, <1>2 DEF Out, Taken, InFlight
<1>4. \A s \in Sessions : Word(s)' = Word(s)
  BY <1>2 DEF Word
<1> QED BY <1>3, <1>4 DEF Promise!Take, Out, Taken, Word

\* With every message tracked and no archive repair, the send implements what
\* HonestDelivery promises: handed over only when on record, taken at most
\* once, never two at a time, and never a lie through late answers, failed
\* saves, crashes and restarts.
THEOREM PromiseKept ==
  ASSUME Untracked = {}, Repairs = FALSE
  PROVE  Spec => KeepsPromise
<1>1. Init => Promise!Init
  BY SendRecoveryAssumption
  DEF Init, Promise!Init, InFlight, NoRecord, Verdict, Messages, Calling, RpcStages
<1>2. Init => UnresolvedDurable
  BY DEF Init, NoRecord, UnresolvedDurable
<1>3. Delivery /\ Truth /\ UnresolvedDurable /\ [Next]_vars => UnresolvedDurable'
  BY DurableStep
<1>4. /\ Delivery /\ Truth /\ UnresolvedDurable /\ [Next]_vars
      /\ Delivery' /\ Truth'
      => [Promise!Next]_(Promise!promise)
  BY OthersRecede, RecedesSays, BeginHandsOver, AcceptTakes DEF Promise!Next
<1> QED BY <1>1, <1>2, <1>3, <1>4, TruthInvariant, PTL DEF Spec, KeepsPromise, Promise!Spec
=============================================================================
