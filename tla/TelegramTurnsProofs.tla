------------------------- MODULE TelegramTurnsProofs -------------------------
(***************************************************************************)
(* Proofs about TelegramTurns, for any number of turns, any answer, queue, *)
(* faults and restarts: the end of a turn is announced at most once, and   *)
(* where nothing of the turn was lost and no call failed, it is announced; *)
(* where text streams before an answer, the topic then shows the answer,   *)
(* whole, once, and nothing of its own beside it.                          *)
(***************************************************************************)
EXTENDS TelegramTurns, FiniteSetTheorems, TLAPS

EndKinds == {"completed", "mirrored", "aborted"}
Reports  == {"final", "completed", "aborted"}
AllKinds == {"started", "delta", "note", "final"} \cup EndKinds

\* What a text is made of.
Words == STRING \cup {"note"}

Events == [kind : AllKinds, turn : Turns, text : Seq(Words)]

\* The types.
Sources == [Turns -> [stage : {"none", "live", "final", "over"}, pieces : Nat, noted : BOOLEAN]]
Runs == [Turns -> [status : {"none", "started", "over"}, synced : BOOLEAN, notified : BOOLEAN]]
StreamRecord == [turn : {0} \cup Turns, msg : {"wait", "body"}, moved : BOOLEAN,
                 buffer : Seq(Words), done : BOOLEAN, told : BOOLEAN]

ArrivalTypes ==
  /\ source \in Sources /\ run \in Runs /\ current \in {0} \cup Turns
  /\ queue \in Seq(Events)
  /\ accepted \subseteq Turns \X ({"final"} \cup EndKinds)

HandlingTypes ==
  /\ work = Idle \/ (work.event \in Events /\ work.call \in Calls \ {""})
  /\ stream \in StreamRecord /\ notes \in [Turns -> Nat] /\ fails \in Nat

\* An event comes after another: turns in their order, the start of a turn first
\* and its end last.
Follows(e, f) == e.turn <= f.turn /\ (f.kind = "started" \/ e.kind \in EndKinds => e.turn < f.turn)

\* What is true of an event that is queued or handled.
Genuine(e) ==
  /\ e.turn <= current /\ stream.turn <= e.turn
  /\ e.kind \in EndKinds => source[e.turn].stage = "over"
  /\ e.kind \in {"final"} \cup EndKinds => <<e.turn, e.kind>> \in accepted

InOrder ==
  /\ \A t \in Turns : source[t].stage # "none" <=> t <= current
  /\ stream.turn <= current
  /\ \A i \in DOMAIN queue : Genuine(queue[i])
  /\ work # Idle => Genuine(work.event)
  /\ \A i, j \in DOMAIN queue : i < j => Follows(queue[i], queue[j])
  /\ work # Idle => \A i \in DOMAIN queue : Follows(work.event, queue[i])

\* Each call is for an event of its kind, and for the turn the topic's message is of.
CallRight ==
  /\ work.call \in {"replace", "place"} => work.event.kind = "started"
  /\ work.call \in {"clear", "switch"} => work.event.kind = "delta"
  /\ work.call \in {"edit", "reply"} => work.event.kind \in {"note", "final"}
  /\ work.call \in {"last", "drop"} => work.event.kind \in EndKinds
  /\ work.call \in {"clear", "switch", "edit", "last", "drop"} => stream.turn = work.event.turn
  /\ work.call = "reply" => stream.turn = 0

\* The notification of t's end is under way.
Owed(t) == work.call = "notify" /\ work.event.turn = t

\* Who notifies has claimed it, and claims but once.
ClaimRight ==
  /\ stream.told => stream.turn # 0 /\ run[stream.turn].notified
  /\ \A t \in Turns :
       /\ notes[t] <= 1 /\ (Owed(t) => notes[t] = 0)
       /\ notes[t] # 0 \/ Owed(t) \/ run[t].synced => run[t].notified
       /\ run[t].notified => <<t, "final">> \in accepted \/ source[t].stage = "over"
       /\ <<t, "final">> \in accepted => source[t].stage \in {"final", "over"}

\* Nothing of t was lost, and no call failed.
Unhurt(t) == fails = 0 /\ t \notin missed

\* The start of t has not been handled.
Starting(t) ==
  \/ \E i \in DOMAIN queue : queue[i].kind = "started" /\ queue[i].turn = t
  \/ work.event.kind = "started" /\ work.event.turn = t

\* The consumer is at an earlier turn.
Before(t) == (stream.turn # 0 /\ stream.turn < t) \/ \E u \in Turns : u < t /\ Starting(u)

\* A report of t's end has not been handled.
Pending(t) ==
  \/ \E i \in DOMAIN queue : queue[i].kind \in Reports /\ queue[i].turn = t
  \/ work.event.kind \in Reports /\ work.event.turn = t /\ work.call # "notify"

\* A turn that was begun before its start was handled, or reported over, is still
\* to be handled or has its notification claimed; and what was claimed is sent or
\* under way.
NothingForgotten ==
  \A t \in Turns : Unhurt(t) =>
    /\ source[t].stage # "none" /\ Before(t) => Starting(t) \/ run[t].notified
    /\ Reported(t, Reports) => run[t].notified \/ Pending(t)
    /\ Reported(t, Reports) /\ run[t].notified => notes[t] = 1 \/ Owed(t)

\* A run that is over is of a turn that began.
OverBegan == \A t \in Turns : run[t].status = "over" => source[t].stage # "none"

TurnsInv ==
  ArrivalTypes /\ HandlingTypes /\ InOrder /\ CallRight /\ ClaimRight /\ NothingForgotten
  /\ OverBegan

\* A turn has a number, and none is zero.
LEMMA TurnsAre ==
  /\ 0 \notin Turns /\ \A t \in {0} \cup Turns : t \in Nat
  /\ Ends \subseteq EndKinds /\ Answer \in Seq(Words)
<1>1. Cardinality(Turns) \in Nat
  BY TelegramTurnsAssumption, FS_CardinalityType
<1>2. Answer \in Seq(Words)
  <2>1. Answer \in Seq(STRING)
    BY TelegramTurnsAssumption
  <2>2. /\ Len(Answer) \in Nat /\ Answer = [i \in 1 .. Len(Answer) |-> Answer[i]]
        /\ \A i \in 1 .. Len(Answer) : Answer[i] \in Words
    BY <2>1 DEF Words
  <2>3. Answer \in [1 .. Len(Answer) -> Words]
    BY <2>2
  <2> QED BY <2>2, <2>3
<1> QED BY <1>1, <1>2, TelegramTurnsAssumption DEF EndKinds

-----------------------------------------------------------------------------
(* The event that a step of the consumer is about.                         *)

\* It is the one in hand, or the queue's first.
Handles(e) == IF work = Idle THEN Took(e) ELSE e = work.event /\ queue' = queue

\* What the consumer knows of it, and of the queue behind it.
LEMMA HandlesIs ==
  ASSUME TurnsInv, NEW e, Handles(e)
  PROVE  /\ e \in Events /\ Genuine(e) /\ queue' \in Seq(Events)
         /\ \A i \in DOMAIN queue' : \E j \in DOMAIN queue : queue'[i] = queue[j]
         /\ \A j \in DOMAIN queue : queue[j] = e \/ \E i \in DOMAIN queue' : queue'[i] = queue[j]
         /\ \A i \in DOMAIN queue' : Follows(e, queue'[i])
         /\ \A i, j \in DOMAIN queue' : i < j => Follows(queue'[i], queue'[j])
         /\ work = Idle => \E j \in DOMAIN queue : queue[j] = e
<1>1. /\ queue \in Seq(Events) /\ \A i \in DOMAIN queue : Genuine(queue[i])
      /\ \A i, j \in DOMAIN queue : i < j => Follows(queue[i], queue[j])
  BY DEF TurnsInv, ArrivalTypes, InOrder
<1>2. CASE work = Idle
  <2>1. queue # <<>> /\ e = Head(queue) /\ queue' = Tail(queue)
    BY <1>2 DEF Handles, Took
  <2>2. /\ Len(queue) \in Nat /\ Len(queue) >= 1 /\ DOMAIN queue = 1 .. Len(queue)
        /\ e = queue[1] /\ queue' \in Seq(Events) /\ Len(queue') = Len(queue) - 1
        /\ DOMAIN queue' = 1 .. Len(queue) - 1
        /\ \A i \in 1 .. Len(queue) - 1 : queue'[i] = queue[i + 1]
    BY <1>1, <2>1
  <2>3. 1 \in DOMAIN queue /\ e \in Events
    BY <1>1, <2>2
  <2>4. \A i \in DOMAIN queue' : i + 1 \in DOMAIN queue /\ 1 < i + 1 /\ queue'[i] = queue[i + 1]
    BY <2>2
  <2>5. \A j \in DOMAIN queue : j # 1 => j - 1 \in DOMAIN queue' /\ queue'[j - 1] = queue[j]
    BY <2>2
  <2>6. \A i, j \in DOMAIN queue' : i < j => Follows(queue'[i], queue'[j])
    <3> SUFFICES ASSUME NEW i \in DOMAIN queue', NEW j \in DOMAIN queue', i < j
                 PROVE  Follows(queue'[i], queue'[j])
      OBVIOUS
    <3>1. i + 1 < j + 1
      BY <2>2
    <3> QED BY <1>1, <2>4, <3>1
  <2>7. \A i \in DOMAIN queue' : Follows(e, queue'[i])
    BY <1>1, <2>2, <2>3, <2>4
  <2>8. \A i \in DOMAIN queue' : \E j \in DOMAIN queue : queue'[i] = queue[j]
    BY <2>4
  <2>9. \A j \in DOMAIN queue : queue[j] = e \/ \E i \in DOMAIN queue' : queue'[i] = queue[j]
    BY <2>2, <2>5
  <2>10. Genuine(e)
    BY <1>1, <2>2, <2>3
  <2> QED BY <2>2, <2>3, <2>6, <2>7, <2>8, <2>9, <2>10
<1>3. CASE work # Idle
  <2>1. e = work.event /\ queue' = queue
    BY <1>3 DEF Handles
  <2>2. e \in Events /\ Genuine(e) /\ \A i \in DOMAIN queue : Follows(e, queue[i])
    BY <1>3, <2>1 DEF TurnsInv, HandlingTypes, InOrder
  <2> QED BY <1>1, <1>3, <2>1, <2>2
<1> QED BY <1>2, <1>3

\* The order of the events that are left.
LEMMA OrderKept ==
  ASSUME TurnsInv, NEW e, Handles(e), UNCHANGED <<source, current, accepted>>,
         work' = Idle \/ work'.event = e,
         stream'.turn \in {stream.turn, 0, e.turn}
  PROVE  InOrder'
<1>1. /\ e \in Events /\ Genuine(e) /\ queue' \in Seq(Events)
      /\ \A i \in DOMAIN queue' : \E j \in DOMAIN queue : queue'[i] = queue[j]
      /\ \A i \in DOMAIN queue' : Follows(e, queue'[i])
      /\ \A i, j \in DOMAIN queue' : i < j => Follows(queue'[i], queue'[j])
  BY HandlesIs
<1>2. /\ e.turn \in Nat /\ current \in Nat /\ stream.turn \in Nat
      /\ stream.turn <= current /\ stream.turn <= e.turn /\ e.turn <= current
  <2>1. e.turn \in Turns /\ stream.turn \in {0} \cup Turns /\ current \in {0} \cup Turns
    BY <1>1 DEF TurnsInv, ArrivalTypes, HandlingTypes, StreamRecord, Events
  <2>2. e.turn \in Nat /\ current \in Nat /\ stream.turn \in Nat
    BY <2>1, TurnsAre
  <2>3. stream.turn <= current
    BY DEF TurnsInv, InOrder
  <2>4. stream.turn <= e.turn /\ e.turn <= current
    BY <1>1 DEF Genuine
  <2> QED BY <2>2, <2>3, <2>4
<1>3. /\ \A t \in Turns : source'[t].stage # "none" <=> t <= current'
      /\ stream'.turn <= current' /\ stream'.turn <= e.turn
  BY <1>2 DEF TurnsInv, InOrder
<1>4. \A i \in DOMAIN queue' : Genuine(queue[i])'
  <2> SUFFICES ASSUME NEW i \in DOMAIN queue'
               PROVE  Genuine(queue[i])'
    OBVIOUS
  <2>1. PICK f : f = queue'[i]
    OBVIOUS
  <2>2. f \in Events /\ Genuine(f) /\ e.turn <= f.turn /\ f.turn \in Nat
    <3>1. f \in Events /\ Genuine(f) /\ e.turn <= f.turn
      BY <1>1, <2>1 DEF TurnsInv, ArrivalTypes, InOrder, Follows
    <3> QED BY <3>1, TurnsAre DEF Events
  <2> QED BY <1>2, <1>3, <2>1, <2>2 DEF Genuine
<1>5. work' # Idle => Genuine(work.event)'
  BY <1>1, <1>2, <1>3 DEF Genuine
<1>6. work' # Idle => \A i \in DOMAIN queue' : Follows(work'.event, queue'[i])
  BY <1>1
<1> QED BY <1>1, <1>3, <1>4, <1>5, <1>6 DEF InOrder

\* Who is behind whom: after a step about e the consumer is at e's turn, and the
\* events that are left are of it or of later ones.
LEMMA BeforeIs ==
  ASSUME TurnsInv, NEW e, Handles(e), work' = Idle \/ work'.event = e,
         stream'.turn \in {stream.turn, 0, e.turn},
         stream'.turn = e.turn => stream.turn = e.turn \/ e.kind = "started"
  PROVE  /\ \A t \in Turns : Before(t)' => Before(t)
         /\ \A t \in Turns : Starting(t) =>
              Starting(t)' \/ (t = e.turn /\ e.kind = "started" /\ work' = Idle)
         /\ \A t \in Turns : Starting(t)' => Starting(t)
         /\ work' = Idle /\ (e.kind = "started" => stream'.turn \in {0, e.turn}) /\ e.kind = "started"
              => ~Before(e.turn)'
<1>1. /\ e \in Events /\ Genuine(e) /\ queue' \in Seq(Events)
      /\ \A i \in DOMAIN queue' : \E j \in DOMAIN queue : queue'[i] = queue[j]
      /\ \A j \in DOMAIN queue : queue[j] = e \/ \E i \in DOMAIN queue' : queue'[i] = queue[j]
      /\ \A i \in DOMAIN queue' : Follows(e, queue'[i])
      /\ work = Idle => \E j \in DOMAIN queue : queue[j] = e
  BY HandlesIs
<1>2. /\ e.turn \in Turns /\ stream.turn \in Nat /\ stream.turn <= e.turn
      /\ \A t \in Turns : t \in Nat
  <2>1. e.turn \in Turns /\ stream.turn \in {0} \cup Turns
    BY <1>1 DEF TurnsInv, HandlingTypes, StreamRecord, Events
  <2> QED BY <1>1, <2>1, TurnsAre DEF Genuine
<1>3. work # Idle => work.event = e
  BY DEF Handles
<1>4. Idle.event.kind # "started"
  BY DEF Idle, NoEvent
<1>5. \A t \in Turns : Starting(t)' => Starting(t)
  BY <1>1, <1>3, <1>4 DEF Starting
<1>6. \A t \in Turns : Starting(t) =>
        Starting(t)' \/ (t = e.turn /\ e.kind = "started" /\ work' = Idle)
  BY <1>1, <1>3, <1>4 DEF Starting
<1>7. ASSUME NEW t \in Turns, Before(t)'
      PROVE  Before(t)
  <2>1. CASE \E u \in Turns : u < t /\ Starting(u)'
    BY <1>5, <2>1 DEF Before
  <2>2. CASE stream'.turn # 0 /\ stream'.turn < t
    <3>1. CASE stream'.turn = stream.turn
      BY <2>2, <3>1 DEF Before
    <3>2. CASE stream'.turn = e.turn /\ e.kind = "started"
      <4>1. Starting(e.turn)
        BY <1>1, <1>3, <3>2 DEF Starting
      <4> QED BY <1>2, <2>2, <3>2, <4>1 DEF Before
    <3> QED BY <2>2, <3>1, <3>2
  <2> QED BY <1>7, <2>1, <2>2 DEF Before
<1>8. ASSUME work' = Idle, e.kind = "started", stream'.turn \in {0, e.turn}
      PROVE  ~Before(e.turn)'
  <2>1. \A u \in Turns : Starting(u)' => ~(u < e.turn)
    <3> SUFFICES ASSUME NEW u \in Turns, Starting(u)'
                 PROVE  ~(u < e.turn)
      OBVIOUS
    <3>1. PICK i \in DOMAIN queue' : queue'[i].turn = u
      BY <1>4, <1>8 DEF Starting
    <3>2. e.turn <= u
      BY <1>1, <3>1 DEF Follows
    <3> QED BY <1>2, <3>2
  <2>2. ~(stream'.turn # 0 /\ stream'.turn < e.turn)
    BY <1>2, <1>8
  <2> QED BY <2>1, <2>2 DEF Before
<1> QED BY <1>5, <1>6, <1>7, <1>8

\* A report is left where it was, or was the one handled.
LEMMA PendingIs ==
  ASSUME TurnsInv, NEW e, Handles(e), work' = Idle \/ (work'.event = e /\ work'.call # "notify")
  PROVE  \A t \in Turns : Pending(t) =>
           Pending(t)' \/ (t = e.turn /\ e.kind \in Reports /\ work' = Idle)
<1>1. /\ \A j \in DOMAIN queue : queue[j] = e \/ \E i \in DOMAIN queue' : queue'[i] = queue[j]
      /\ work # Idle => work.event = e
  BY HandlesIs DEF Handles
<1>2. Idle.event.kind \notin Reports
  BY DEF Idle, NoEvent, Reports
<1> QED BY <1>1, <1>2 DEF Pending

\* The turn of an event has begun.
LEMMA BegunIs ==
  ASSUME TurnsInv, NEW e, Handles(e)
  PROVE  e.turn \in Turns /\ source[e.turn].stage # "none"
<1>1. e \in Events /\ Genuine(e)
  BY HandlesIs
<1> QED BY <1>1 DEF Genuine, Events, TurnsInv, InOrder

-----------------------------------------------------------------------------
(* Steps of the consumer.                                                  *)

\* A step that claims nothing: what was for it to claim is claimed already, and
\* a start that it leaves is done, or a call failed.
LEMMA PlainKeeps ==
  ASSUME TurnsInv, NEW e, Handles(e), UNCHANGED <<source, current, accepted, missed, notes>>,
         run' \in Runs, work.call # "notify",
         \A t \in Turns : run'[t].notified = run[t].notified /\ run'[t].synced = run[t].synced,
         \A t \in Turns \ {e.turn} : run'[t].status = run[t].status,
         work' = Idle \/ (work'.event = e /\ work'.call \in Calls \ {"", "notify"}),
         stream' \in StreamRecord, stream'.turn \in {stream.turn, 0, e.turn},
         stream'.turn = e.turn => stream.turn = e.turn \/ e.kind = "started",
         stream'.told => stream'.turn = stream.turn /\ stream.told,
         fails' \in Nat, fails' = 0 => fails = 0, CallRight',
         work' = Idle /\ e.kind \in Reports => run[e.turn].notified \/ ~Unhurt(e.turn),
         work' = Idle /\ e.kind = "started" =>
           run[e.turn].notified \/ fails' # 0 \/ stream'.turn = e.turn
  PROVE  TurnsInv'
<1>1. e \in Events /\ queue' \in Seq(Events)
  BY HandlesIs
<1>2. InOrder'
  BY OrderKept
<1>3. ArrivalTypes'
  BY <1>1 DEF TurnsInv, ArrivalTypes
<1>4. HandlingTypes'
  BY <1>1 DEF TurnsInv, HandlingTypes
<1>5. \A t \in Turns : ~Owed(t) /\ ~Owed(t)'
  <2>1. Idle.call = ""
    BY DEF Idle
  <2> QED BY <2>1 DEF Owed
<1>6. ClaimRight'
  <2>1. stream'.told => stream'.turn # 0 /\ run'[stream'.turn].notified
    BY DEF TurnsInv, ClaimRight, HandlingTypes, StreamRecord
  <2> QED BY <1>5, <2>1 DEF TurnsInv, ClaimRight
<1>7. ASSUME NEW t \in Turns, Unhurt(t)'
      PROVE  /\ source'[t].stage # "none" /\ Before(t)' => Starting(t)' \/ run'[t].notified
             /\ Reported(t, Reports)' => run'[t].notified \/ Pending(t)'
             /\ Reported(t, Reports)' /\ run'[t].notified => notes'[t] = 1 \/ Owed(t)'
  <2>1. Unhurt(t) /\ Reported(t, Reports)' = Reported(t, Reports)
    BY <1>7 DEF Unhurt, Reported
  <2>2. /\ source[t].stage # "none" /\ Before(t) => Starting(t) \/ run[t].notified
        /\ Reported(t, Reports) => run[t].notified \/ Pending(t)
        /\ Reported(t, Reports) /\ run[t].notified => notes[t] = 1 \/ Owed(t)
    BY <2>1 DEF TurnsInv, NothingForgotten
  <2>3. source'[t].stage # "none" /\ Before(t)' => Starting(t)' \/ run'[t].notified
    <3>1. /\ Before(t)' => Before(t)
          /\ Starting(t) => Starting(t)' \/ (t = e.turn /\ e.kind = "started" /\ work' = Idle)
          /\ work' = Idle /\ (e.kind = "started" => stream'.turn \in {0, e.turn})
               /\ e.kind = "started" => ~Before(e.turn)'
      BY BeforeIs
    <3> QED BY <1>7, <2>2, <3>1 DEF Unhurt
  <2>4. Reported(t, Reports)' => run'[t].notified \/ Pending(t)'
    BY <2>1, <2>2, PendingIs
  <2>5. Reported(t, Reports)' /\ run'[t].notified => notes'[t] = 1 \/ Owed(t)'
    BY <1>5, <2>1, <2>2
  <2> QED BY <2>3, <2>4, <2>5
<1>8. NothingForgotten'
  BY <1>7 DEF NothingForgotten
<1>9. OverBegan'
  BY <1>1, BegunIs DEF TurnsInv, OverBegan
<1> QED BY <1>2, <1>3, <1>4, <1>6, <1>8, <1>9 DEF TurnsInv

\* A step that ends with a claim, for a final answer or an end.
LEMMA ClaimKeeps ==
  ASSUME TurnsInv, NEW e, Handles(e), UNCHANGED <<source, current, accepted, missed, notes>>,
         work.call # "notify", e.kind \in {"final"} \cup EndKinds,
         NEW r \in Runs, \A t \in Turns : r[t].notified = run[t].notified,
         \A t \in Turns \ {e.turn} : r[t].synced = run[t].synced /\ r[t].status = run[t].status,
         NEW s, s.told => run[e.turn].notified, NEW wanted \in BOOLEAN,
         wanted \/ e.kind = "mirrored", Claim(e, s, r, wanted),
         stream' \in StreamRecord, stream'.turn \in {stream.turn, 0},
         stream'.told => stream'.turn = e.turn, fails' \in Nat, fails' = 0 => fails = 0
  PROVE  TurnsInv'
<1>1. /\ e \in Events /\ Genuine(e) /\ queue' \in Seq(Events)
      /\ \A j \in DOMAIN queue : queue[j] = e \/ \E i \in DOMAIN queue' : queue'[i] = queue[j]
      /\ \A i \in DOMAIN queue' : Follows(e, queue'[i])
  BY HandlesIs
<1>2. e.turn \in Turns /\ e.turn \in Nat /\ (work # Idle => work.event = e) /\ e.turn # 0
  BY <1>1, TurnsAre DEF Events, Handles
<1>3. /\ run' \in Runs /\ run'[e.turn].notified
      /\ \A t \in Turns \ {e.turn} : /\ run'[t].notified = run[t].notified
                                     /\ run'[t].synced = run[t].synced
                                     /\ run'[t].status = run[t].status
      /\ work' = Idle \/ (work' = Tell(e) /\ ~run[e.turn].notified)
      /\ work' = Idle /\ ~run[e.turn].notified => e.kind = "mirrored"
  <2>1. CASE s.told \/ r[e.turn].notified
    <3>1. run' = r /\ work' = Idle /\ r[e.turn].notified
      BY <1>2, <2>1 DEF Claim
    <3> QED BY <1>2, <3>1
  <2>2. CASE ~(s.told \/ r[e.turn].notified)
    <3>1. /\ run' = [r EXCEPT ![e.turn].notified = TRUE]
          /\ work' = IF wanted THEN Tell(e) ELSE Idle
      BY <2>2 DEF Claim
    <3>2. /\ run' \in Runs /\ run'[e.turn].notified
          /\ \A t \in Turns \ {e.turn} : run'[t] = r[t]
      <4>1. PICK u \in Turns : u = e.turn
        BY <1>2
      <4>2. run' = [r EXCEPT ![u].notified = TRUE]
        BY <3>1, <4>1
      <4>3. run' \in Runs
        BY <4>2 DEF Runs
      <4>4. run'[u].notified /\ \A t \in Turns \ {u} : run'[t] = r[t]
        BY <4>2 DEF Runs
      <4> QED BY <4>1, <4>3, <4>4
    <3>3. ~run[e.turn].notified /\ (work' = Tell(e) \/ (work' = Idle /\ ~wanted))
      BY <1>2, <2>2, <3>1
    <3>4. Tell(e) # Idle
      <4>1. Tell(e).call = "notify" /\ Idle.call = ""
        BY DEF Tell, Idle
      <4> QED BY <4>1
    <3>5. work' = Idle => e.kind = "mirrored"
      BY <3>3, <3>4
    <3> QED BY <3>2, <3>3, <3>5
  <2> QED BY <2>1, <2>2
<1>4. Idle.event.kind = "none" /\ Idle.call = "" /\ Tell(e).event = e /\ Tell(e).call = "notify"
  BY DEF Idle, NoEvent, Tell
<1>5. InOrder'
  BY <1>3, <1>4, OrderKept
<1>6. ArrivalTypes'
  BY <1>1, <1>3 DEF TurnsInv, ArrivalTypes
<1>7. HandlingTypes'
  BY <1>1, <1>3, <1>4 DEF TurnsInv, HandlingTypes, Calls
<1>8. CallRight'
  BY <1>3, <1>4 DEF CallRight
<1>9. /\ \A t \in Turns : ~Owed(t)
      /\ \A t \in Turns : Owed(t)' => t = e.turn /\ ~run[t].notified
      /\ ~run[e.turn].notified => Owed(e.turn)' \/ e.kind = "mirrored"
  BY <1>2, <1>3, <1>4 DEF Owed
<1>10. ClaimRight'
  <2>1. stream'.told => stream'.turn # 0 /\ run'[stream'.turn].notified
    BY <1>2, <1>3
  <2>2. ASSUME NEW t \in Turns
        PROVE  /\ notes'[t] <= 1 /\ (Owed(t)' => notes'[t] = 0)
               /\ notes'[t] # 0 \/ Owed(t)' \/ run'[t].synced => run'[t].notified
               /\ run'[t].notified => <<t, "final">> \in accepted' \/ source'[t].stage = "over"
               /\ <<t, "final">> \in accepted' => source'[t].stage \in {"final", "over"}
    <3>1. /\ notes[t] <= 1 /\ (notes[t] # 0 \/ run[t].synced => run[t].notified)
          /\ run[t].notified => <<t, "final">> \in accepted \/ source[t].stage = "over"
          /\ <<t, "final">> \in accepted => source[t].stage \in {"final", "over"}
      BY DEF TurnsInv, ClaimRight
    <3>2. <<e.turn, "final">> \in accepted \/ source[e.turn].stage = "over"
      BY <1>1 DEF Genuine
    <3>3. CASE t = e.turn
      BY <1>3, <1>9, <3>1, <3>2, <3>3
    <3>4. CASE t # e.turn
      BY <1>3, <1>9, <3>1, <3>4
    <3> QED BY <3>3, <3>4
  <2> QED BY <2>1, <2>2 DEF ClaimRight
<1>11. ASSUME NEW t \in Turns, Unhurt(t)'
       PROVE  /\ source'[t].stage # "none" /\ Before(t)' => Starting(t)' \/ run'[t].notified
              /\ Reported(t, Reports)' => run'[t].notified \/ Pending(t)'
              /\ Reported(t, Reports)' /\ run'[t].notified => notes'[t] = 1 \/ Owed(t)'
  <2>1. Unhurt(t) /\ Reported(t, Reports)' = Reported(t, Reports)
    BY <1>11 DEF Unhurt, Reported
  <2>2. /\ source[t].stage # "none" /\ Before(t) => Starting(t) \/ run[t].notified
        /\ Reported(t, Reports) => run[t].notified \/ Pending(t)
        /\ Reported(t, Reports) /\ run[t].notified => notes[t] = 1
    BY <1>9, <2>1 DEF TurnsInv, NothingForgotten
  <2>3. e.kind # "started"
    BY DEF EndKinds
  <2>4. source'[t].stage # "none" /\ Before(t)' => Starting(t)' \/ run'[t].notified
    <3>1. /\ Before(t)' => Before(t)
          /\ Starting(t) => Starting(t)' \/ (t = e.turn /\ e.kind = "started" /\ work' = Idle)
      <4>1. work' = Idle \/ work'.event = e
        BY <1>3, <1>4
      <4>2. stream'.turn = e.turn => stream.turn = e.turn \/ e.kind = "started"
        BY <1>2
      <4> QED BY <4>1, <4>2, BeforeIs
    <3> QED BY <1>3, <2>2, <2>3, <3>1
  <2>5. CASE t = e.turn
    <3>1. run[t].notified \/ Owed(t)' \/ e.kind = "mirrored"
      BY <1>9, <2>5
    <3>2. ASSUME e.kind = "mirrored", ~run[t].notified
          PROVE  ~Reported(t, Reports)
      <4>1. ~Pending(t)
        <5>1. e.kind \notin Reports /\ e.kind \in EndKinds
          BY <3>2 DEF Reports, EndKinds
        <5>2. \A i \in DOMAIN queue' : queue'[i].turn # t
          <6> SUFFICES ASSUME NEW i \in DOMAIN queue', queue'[i].turn = t
                       PROVE  FALSE
            OBVIOUS
          <6>1. e.turn < queue'[i].turn
            BY <1>1, <5>1 DEF Follows
          <6> QED BY <1>2, <2>5, <6>1
        <5>3. \A j \in DOMAIN queue : ~(queue[j].turn = t /\ queue[j].kind \in Reports)
          BY <1>1, <5>1, <5>2
        <5>4. work.event.kind \notin Reports
          BY <1>2, <1>4, <5>1 DEF Reports
        <5> QED BY <5>3, <5>4 DEF Pending
      <4> QED BY <2>2, <3>2, <4>1
    <3> QED BY <1>3, <2>1, <2>2, <2>4, <2>5, <3>1, <3>2
  <2>6. CASE t # e.turn
    <3>1. Pending(t) => Pending(t)' \/ run[t].notified
      <4>1. \A i \in DOMAIN queue : queue[i].turn = t => \E j \in DOMAIN queue' : queue'[j] = queue[i]
        BY <1>1, <2>6
      <4>2. ~(work.event.kind \in Reports /\ work.event.turn = t)
        BY <1>2, <1>4, <2>6 DEF Reports
      <4> QED BY <4>1, <4>2 DEF Pending
    <3> QED BY <1>3, <2>1, <2>2, <2>4, <2>6, <3>1
  <2> QED BY <2>5, <2>6
<1>12. NothingForgotten'
  BY <1>11 DEF NothingForgotten
<1>13. OverBegan'
  BY <1>3, BegunIs DEF TurnsInv, OverBegan
<1> QED BY <1>5, <1>6, <1>7, <1>8, <1>10, <1>12, <1>13 DEF TurnsInv

\* An event of a later turn than the message's: the message's turn was not the
\* last one begun, so this one's end was announced, if nothing was lost.
LEMMA StaleIsTold ==
  ASSUME TurnsInv, NEW e, Handles(e), e.kind # "started", Stale(e), Unhurt(e.turn)
  PROVE  run[e.turn].notified
<1>1. /\ e \in Events /\ Genuine(e)
      /\ \A j \in DOMAIN queue : queue[j] = e \/ \E i \in DOMAIN queue' : queue'[i] = queue[j]
      /\ \A i \in DOMAIN queue' : Follows(e, queue'[i])
      /\ work # Idle => work.event = e
  BY HandlesIs DEF Handles
<1>2. /\ e.turn \in Turns /\ stream.turn \in {0} \cup Turns /\ current \in {0} \cup Turns
      /\ e.turn \in Nat /\ stream.turn \in Nat
  <2>1. e.turn \in Turns /\ stream.turn \in {0} \cup Turns /\ current \in {0} \cup Turns
    BY <1>1 DEF TurnsInv, ArrivalTypes, HandlingTypes, StreamRecord, Events
  <2> QED BY <2>1, TurnsAre
<1>3. stream.turn # 0 /\ stream.turn < e.turn
  BY <1>1, <1>2 DEF Stale, Genuine
<1>4. source[e.turn].stage # "none"
  BY <1>1, <1>2 DEF Genuine, TurnsInv, InOrder
<1>5. ~Starting(e.turn)
  <2>1. \A i \in DOMAIN queue' : ~(queue'[i].kind = "started" /\ queue'[i].turn = e.turn)
    <3> SUFFICES ASSUME NEW i \in DOMAIN queue', queue'[i].kind = "started",
                        queue'[i].turn = e.turn
                 PROVE  FALSE
      OBVIOUS
    <3>1. e.turn < queue'[i].turn
      BY <1>1 DEF Follows
    <3> QED BY <1>2, <3>1
  <2>2. \A j \in DOMAIN queue : ~(queue[j].kind = "started" /\ queue[j].turn = e.turn)
    BY <1>1, <2>1
  <2>3. work.event.kind # "started"
    <3>1. Idle.event.kind # "started"
      BY DEF Idle, NoEvent
    <3> QED BY <1>1, <3>1
  <2> QED BY <2>2, <2>3 DEF Starting
<1> QED BY <1>2, <1>3, <1>4, <1>5 DEF TurnsInv, NothingForgotten, Before

\* What a step of the consumer leaves as it was, and what it takes from the queue.
LEMMA TakenIs ==
  ASSUME TurnsInv, NEW e \in {queue[k] : k \in DOMAIN queue}, Took(e)
  PROVE  /\ Handles(e) /\ work = Idle /\ Idle.call = "" /\ Idle.event.kind = "none"
         /\ e \in Events /\ e.turn \in Turns /\ e.turn # 0 /\ e.text \in Seq(Words)
         /\ stream \in StreamRecord /\ run \in Runs /\ fails \in Nat
<1>1. Handles(e) /\ work = Idle /\ Idle.call = "" /\ Idle.event.kind = "none"
  BY DEF Took, Handles, Idle, NoEvent
<1>2. e \in Events
  BY <1>1, HandlesIs
<1>3. e.turn \in Turns /\ e.turn # 0 /\ e.text \in Seq(Words)
  BY <1>2, TurnsAre DEF Events
<1>4. stream \in StreamRecord /\ run \in Runs /\ fails \in Nat
  BY DEF TurnsInv, ArrivalTypes, HandlingTypes
<1> QED BY <1>1, <1>2, <1>3, <1>4

\* What a step may change of the stream.
LEMMA StreamWith ==
  ASSUME NEW s \in StreamRecord, NEW text \in Seq(Words)
  PROVE  /\ [s EXCEPT !.done = TRUE] \in StreamRecord
         /\ [s EXCEPT !.done = TRUE].turn = s.turn
         /\ [s EXCEPT !.done = TRUE].told = s.told
         /\ [s EXCEPT !.moved = TRUE] \in StreamRecord
         /\ [s EXCEPT !.moved = TRUE].turn = s.turn
         /\ [s EXCEPT !.moved = TRUE].told = s.told
         /\ [s EXCEPT !.told = TRUE] \in StreamRecord
         /\ [s EXCEPT !.told = TRUE].turn = s.turn
         /\ [s EXCEPT !.buffer = text] \in StreamRecord
         /\ [s EXCEPT !.buffer = text].turn = s.turn
         /\ [s EXCEPT !.buffer = text].told = s.told
         /\ [s EXCEPT !.buffer = @ \o text] \in StreamRecord
         /\ [s EXCEPT !.buffer = @ \o text].turn = s.turn
         /\ [s EXCEPT !.buffer = @ \o text].told = s.told
         /\ NoStream \in StreamRecord /\ NoStream.turn = 0 /\ NoStream.told = FALSE
<1>1. [s EXCEPT !.done = TRUE] \in StreamRecord
      /\ [s EXCEPT !.done = TRUE].turn = s.turn /\ [s EXCEPT !.done = TRUE].told = s.told
  BY DEF StreamRecord
<1>2. [s EXCEPT !.moved = TRUE] \in StreamRecord
      /\ [s EXCEPT !.moved = TRUE].turn = s.turn /\ [s EXCEPT !.moved = TRUE].told = s.told
  BY DEF StreamRecord
<1>3. [s EXCEPT !.told = TRUE] \in StreamRecord /\ [s EXCEPT !.told = TRUE].turn = s.turn
  BY DEF StreamRecord
<1>4. [s EXCEPT !.buffer = text] \in StreamRecord
      /\ [s EXCEPT !.buffer = text].turn = s.turn /\ [s EXCEPT !.buffer = text].told = s.told
  BY DEF StreamRecord
<1>5. [s EXCEPT !.buffer = @ \o text] \in StreamRecord
      /\ [s EXCEPT !.buffer = @ \o text].turn = s.turn
      /\ [s EXCEPT !.buffer = @ \o text].told = s.told
  <2> DEFINE longer == s.buffer \o text
  <2>1. longer \in Seq(Words)
    BY DEF StreamRecord
  <2> HIDE DEF longer
  <2>2. [s EXCEPT !.buffer = longer] \in StreamRecord
    BY <2>1 DEF StreamRecord
  <2>3. [s EXCEPT !.buffer = @ \o text].turn = s.turn
        /\ [s EXCEPT !.buffer = @ \o text].told = s.told
    BY DEF StreamRecord
  <2> QED BY <2>2, <2>3 DEF longer
<1>6. NoStream \in StreamRecord /\ NoStream.turn = 0 /\ NoStream.told = FALSE
  BY DEF StreamRecord, NoStream
<1> QED BY <1>1, <1>2, <1>3, <1>4, <1>5, <1>6

\* The event and the call that a step leaves the consumer waiting for.
LEMMA AwaitIs == \A e, c : Await(e, c) => work'.event = e /\ work'.call = c
BY DEF Await

\* An event that is no news.
LEMMA IgnoreKeeps == TurnsInv /\ Ignore => TurnsInv'
<1> SUFFICES ASSUME TurnsInv, Ignore
             PROVE  TurnsInv'
  OBVIOUS
<1>1. PICK e \in {queue[k] : k \in DOMAIN queue} :
        /\ Took(e) /\ Ignores(e)
        /\ Kept /\ UNCHANGED <<handling, drift, run>>
  BY DEF Ignore
<1>2. /\ Handles(e) /\ work = Idle /\ Idle.call = "" /\ Idle.event.kind = "none"
      /\ e \in Events /\ e.turn \in Turns
      /\ stream \in StreamRecord /\ run \in Runs /\ fails \in Nat
  BY <1>1, TakenIs
<1>3. UNCHANGED <<source, current, accepted, missed, notes, run, work, stream, fails>>
  BY <1>1 DEF Kept, handling
<1>4. CallRight'
  BY <1>2, <1>3 DEF CallRight
<1>5. run[e.turn].synced => run[e.turn].notified
  BY <1>2 DEF TurnsInv, ClaimRight
<1>6. e.kind \in Reports => run[e.turn].notified \/ ~Unhurt(e.turn)
  <2>1. e.kind \in Reports => run[e.turn].synced \/ Stale(e)
    BY <1>1 DEF Ignores, Reports
  <2> QED BY <1>2, <1>5, <2>1, StaleIsTold DEF Reports
<1>7. e.kind = "started" => run[e.turn].notified \/ stream.turn = e.turn
  BY <1>1, <1>5 DEF Ignores
<1> QED BY <1>2, <1>3, <1>4, <1>6, <1>7, PlainKeeps

\* The start of a turn is taken.
LEMMA TakeStartedKeeps == TurnsInv /\ TakeStarted => TurnsInv'
<1> SUFFICES ASSUME TurnsInv, TakeStarted
             PROVE  TurnsInv'
  OBVIOUS
<1>1. PICK e \in {queue[k] : k \in DOMAIN queue} :
        /\ e.kind = "started" /\ Took(e) /\ Kept /\ UNCHANGED <<run, notes, fails>>
        /\ \/ Await(e, "place") /\ UNCHANGED stream
           \/ Await(e, "replace") /\ stream' = [stream EXCEPT !.done = TRUE]
           \/ Await(e, "place") /\ stream' = NoStream
  BY DEF TakeStarted
<1>2. /\ Handles(e) /\ work = Idle /\ Idle.call = "" /\ Idle.event.kind = "none"
      /\ e \in Events /\ e.turn \in Turns /\ e.turn # 0
      /\ stream \in StreamRecord /\ run \in Runs /\ fails \in Nat
  BY <1>1, TakenIs
<1>3. /\ UNCHANGED <<source, current, accepted, missed, notes, run, fails>>
      /\ work'.event = e /\ work'.call \in {"place", "replace"}
      /\ work' # Idle
  <2>1. work'.event = e /\ work'.call \in {"place", "replace"}
    BY <1>1, AwaitIs
  <2>3. work' # Idle
    BY <1>2, <2>1
  <2>2. Kept /\ UNCHANGED <<run, notes, fails>>
    BY <1>1
  <2>4. UNCHANGED <<source, current, accepted, missed, notes, run, fails>>
    BY <2>2 DEF Kept
  <2> QED BY <2>1, <2>3, <2>4
<1>4. /\ stream' \in StreamRecord /\ stream'.turn \in {stream.turn, 0}
      /\ stream'.told => stream'.turn = stream.turn /\ stream.told
  <2>2. CASE stream' = stream
    BY <1>2, <2>2
  <2>3. CASE stream' = [stream EXCEPT !.done = TRUE]
    BY <1>2, <2>3 DEF StreamRecord
  <2>4. CASE stream' = NoStream
    BY <2>4 DEF StreamRecord, NoStream
  <2> QED BY <1>1, <2>2, <2>3, <2>4
<1>5. CallRight'
  BY <1>1, <1>3 DEF CallRight
<1>6. work'.call \in Calls \ {"", "notify"}
  BY <1>3 DEF Calls
<1> QED BY <1>1, <1>2, <1>3, <1>4, <1>5, <1>6, PlainKeeps

\* Text of a turn is taken.
LEMMA TakeDeltaKeeps == TurnsInv /\ TakeDelta => TurnsInv'
<1> SUFFICES ASSUME TurnsInv, TakeDelta
             PROVE  TurnsInv'
  OBVIOUS
<1>1. PICK e \in {queue[k] : k \in DOMAIN queue} :
        /\ e.kind = "delta" /\ Took(e) /\ stream.turn = e.turn
        /\ Kept /\ UNCHANGED <<run, notes, fails>>
        /\ \/ stream' = [stream EXCEPT !.buffer = @ \o e.text] /\ UNCHANGED work
           \/ stream' = [stream EXCEPT !.moved = TRUE] /\ Await(e, "clear")
  BY DEF TakeDelta, Ignores
<1>2. /\ Handles(e) /\ work = Idle /\ Idle.call = "" /\ Idle.event.kind = "none"
      /\ e \in Events /\ e.turn \in Turns /\ e.turn # 0 /\ e.text \in Seq(Words)
      /\ stream \in StreamRecord /\ run \in Runs /\ fails \in Nat
  BY <1>1, TakenIs
<1>3. /\ UNCHANGED <<source, current, accepted, missed, notes, run, fails>>
      /\ work' = Idle \/ (work'.event = e /\ work'.call = "clear")
  <2>1. work' = work \/ (work'.event = e /\ work'.call = "clear")
    BY <1>1, AwaitIs
  <2>2. Kept /\ UNCHANGED <<run, notes, fails>>
    BY <1>1
  <2>4. UNCHANGED <<source, current, accepted, missed, notes, run, fails>>
    BY <2>2 DEF Kept
  <2> QED BY <1>2, <2>1, <2>4
<1>4. /\ stream' \in StreamRecord /\ stream'.turn = stream.turn
      /\ stream'.told => stream.told
  <2>2. CASE stream' = [stream EXCEPT !.buffer = @ \o e.text]
    BY <1>2, <2>2, StreamWith
  <2>3. CASE stream' = [stream EXCEPT !.moved = TRUE]
    BY <1>2, <2>3 DEF StreamRecord
  <2> QED BY <1>1, <2>2, <2>3
<1>5. CallRight'
  BY <1>1, <1>2, <1>3, <1>4 DEF CallRight
<1>6. "clear" \in Calls \ {"", "notify"} /\ "delta" \notin Reports
  BY DEF Calls, Reports
<1> QED BY <1>1, <1>2, <1>3, <1>4, <1>5, <1>6, PlainKeeps

\* A remark is taken.
LEMMA TakeNoteKeeps == TurnsInv /\ TakeNote => TurnsInv'
<1> SUFFICES ASSUME TurnsInv, TakeNote
             PROVE  TurnsInv'
  OBVIOUS
<1>1. PICK e \in {queue[k] : k \in DOMAIN queue} :
        /\ e.kind = "note" /\ Took(e) /\ ~Stale(e)
        /\ Kept /\ UNCHANGED <<run, notes, fails>>
        /\ \/ stream.turn = 0 /\ Await(e, "reply") /\ UNCHANGED stream
           \/ /\ stream.turn # 0 /\ stream' = [stream EXCEPT !.buffer = e.text]
              /\ Await(e, "edit")
  BY DEF TakeNote, Ignores
<1>2. /\ Handles(e) /\ work = Idle /\ Idle.call = "" /\ Idle.event.kind = "none"
      /\ e \in Events /\ e.turn \in Turns /\ e.turn # 0 /\ e.text \in Seq(Words)
      /\ stream \in StreamRecord /\ run \in Runs /\ fails \in Nat
  BY <1>1, TakenIs
<1>3. /\ UNCHANGED <<source, current, accepted, missed, notes, run, fails>>
      /\ work'.event = e
      /\ \/ work'.call = "reply" /\ stream.turn = 0
         \/ work'.call = "edit" /\ stream.turn = e.turn
  <2>1. work'.event = e /\ work'.call \in {"reply", "edit"}
    BY <1>1, AwaitIs
  <2>3. \/ work'.call = "reply" /\ stream.turn = 0
        \/ work'.call = "edit" /\ stream.turn = e.turn
    BY <1>1, AwaitIs DEF Stale
  <2>2. Kept /\ UNCHANGED <<run, notes, fails>>
    BY <1>1
  <2>4. UNCHANGED <<source, current, accepted, missed, notes, run, fails>>
    BY <2>2 DEF Kept
  <2> QED BY <2>1, <2>3, <2>4
<1>4. /\ stream' \in StreamRecord /\ stream'.turn = stream.turn
      /\ stream'.told => stream.told
  <2>2. CASE stream' = stream
    BY <1>2, <2>2
  <2>3. CASE stream' = [stream EXCEPT !.buffer = e.text]
    BY <1>2, <2>3 DEF StreamRecord
  <2> QED BY <1>1, <2>2, <2>3
<1>5. CallRight'
  BY <1>1, <1>2, <1>3, <1>4 DEF CallRight
<1>6. {"reply", "edit"} \subseteq Calls \ {"", "notify"} /\ "note" \notin Reports
  BY DEF Calls, Reports
<1> QED BY <1>1, <1>2, <1>3, <1>4, <1>5, <1>6, PlainKeeps

-----------------------------------------------------------------------------
(* The calls return.                                                       *)

\* What the consumer has in hand when a call returns.
LEMMA ReturnIs ==
  ASSUME TurnsInv, work.call # "", queue' = queue
  PROVE  /\ Handles(work.event) /\ work # Idle /\ Idle.call = "" /\ Idle.event.kind = "none"
         /\ work.event \in Events /\ Genuine(work.event)
         /\ work.event.turn \in Turns /\ work.event.turn # 0 /\ work.event.text \in Seq(Words)
         /\ stream \in StreamRecord /\ run \in Runs /\ fails \in Nat /\ notes \in [Turns -> Nat]
<1>1. Idle.call = "" /\ Idle.event.kind = "none"
  BY DEF Idle, NoEvent
<1>2. work # Idle
  BY <1>1
<1>3. Handles(work.event)
  BY <1>2 DEF Handles
<1>4. work.event \in Events /\ Genuine(work.event)
  BY <1>3, HandlesIs
<1>5. work.event.turn \in Turns /\ work.event.turn # 0 /\ work.event.text \in Seq(Words)
  BY <1>4, TurnsAre DEF Events
<1>6. stream \in StreamRecord /\ run \in Runs /\ fails \in Nat /\ notes \in [Turns -> Nat]
  BY DEF TurnsInv, ArrivalTypes, HandlingTypes
<1> QED BY <1>1, <1>2, <1>3, <1>4, <1>5, <1>6

\* A call that is done either worked or is counted, but for an edit of a message
\* that is gone.
LEMMA ResultIs ==
  ASSUME fails \in Nat, NEW c, Result(c)
  PROVE  work.call = c /\ fails' \in Nat /\ (fails' = 0 => fails = 0)
BY DEF Result, Succeeds, Fails, MoreFaults

\* The message of the turn before is taken away.
LEMMA ReplacedKeeps == TurnsInv /\ Replaced => TurnsInv'
<1> SUFFICES ASSUME TurnsInv, Replaced
             PROVE  TurnsInv'
  OBVIOUS
<1>1. /\ Result("replace") /\ stream' = NoStream /\ Await(work.event, "place")
      /\ UNCHANGED <<arrival, notes>>
  BY DEF Replaced
<1>2. UNCHANGED <<source, run, current, queue, accepted, missed, notes>>
  BY <1>1 DEF arrival
<1>3. fails \in Nat
  BY DEF TurnsInv, HandlingTypes
<1>4. work.call = "replace" /\ fails' \in Nat /\ (fails' = 0 => fails = 0)
  BY <1>1, <1>3, ResultIs
<1>5. PICK e : e = work.event
  OBVIOUS
<1>6. /\ Handles(e) /\ work # Idle /\ Idle.call = ""
      /\ e \in Events /\ e.turn \in Turns /\ e.turn # 0
      /\ run \in Runs
  BY <1>2, <1>4, <1>5, ReturnIs
<1>7. work'.event = e /\ work'.call = "place" /\ work'.call \in Calls \ {"", "notify"}
  <2>1. work'.event = e /\ work'.call = "place"
    BY <1>1, <1>5, AwaitIs
  <2> QED BY <2>1 DEF Calls
<1>8. e.kind = "started"
  BY <1>4, <1>5 DEF TurnsInv, CallRight
<1>9. /\ stream' \in StreamRecord /\ stream'.turn = 0 /\ ~stream'.told
  BY <1>1 DEF StreamRecord, NoStream
<1>10. CallRight'
  BY <1>7, <1>8 DEF CallRight
<1>11. work' # Idle
  BY <1>6, <1>7
<1> QED BY <1>2, <1>4, <1>6, <1>7, <1>9, <1>10, <1>11, PlainKeeps

\* The turn has its message, or the call failed.
LEMMA PlacedKeeps == TurnsInv /\ Placed => TurnsInv'
<1> SUFFICES ASSUME TurnsInv, Placed
             PROVE  TurnsInv'
  OBVIOUS
<1>1. /\ \/ Succeeds("place") /\ stream' = [NoStream EXCEPT !.turn = work.event.turn]
         \/ Fails("place") /\ UNCHANGED stream
      /\ work' = Idle /\ UNCHANGED <<arrival, notes>>
  BY DEF Placed
<1>2. UNCHANGED <<source, run, current, queue, accepted, missed, notes>>
  BY <1>1 DEF arrival
<1>3. fails \in Nat /\ work.call = "place"
  BY <1>1 DEF TurnsInv, HandlingTypes, Succeeds, Fails
<1>5. PICK e : e = work.event
  OBVIOUS
<1>6. /\ Handles(e) /\ work # Idle /\ Idle.call = ""
      /\ e \in Events /\ e.turn \in Turns /\ e.turn # 0
      /\ run \in Runs /\ stream \in StreamRecord
  BY <1>2, <1>3, <1>5, ReturnIs
<1>8. e.kind = "started"
  BY <1>3, <1>5 DEF TurnsInv, CallRight
<1>9. CallRight'
  BY <1>1, <1>6 DEF CallRight
<1>10. /\ stream' \in StreamRecord /\ stream'.turn \in {stream.turn, e.turn}
       /\ stream'.told => stream'.turn = stream.turn /\ stream.told
       /\ fails' \in Nat /\ (fails' = 0 => fails = 0)
       /\ fails' # 0 \/ stream'.turn = e.turn
  <2>1. CASE Succeeds("place") /\ stream' = [NoStream EXCEPT !.turn = work.event.turn]
    <3>1. stream' \in StreamRecord /\ stream'.turn = e.turn /\ ~stream'.told
      <4>1. NoStream \in StreamRecord /\ ~NoStream.told
        BY DEF StreamRecord, NoStream
      <4>2. stream' = [NoStream EXCEPT !.turn = e.turn]
        BY <1>5, <2>1
      <4> QED BY <1>6, <4>1, <4>2 DEF StreamRecord
    <3>2. fails' = fails
      BY <2>1 DEF Succeeds
    <3> QED BY <1>3, <3>1, <3>2
  <2>2. CASE Fails("place") /\ UNCHANGED stream
    <3>1. fails' = fails + 1
      BY <1>3, <2>2 DEF Fails, Editable
    <3>2. fails' \in Nat /\ fails' # 0
      BY <1>3, <3>1
    <3> QED BY <1>6, <2>2, <3>2
  <2> QED BY <1>1, <2>1, <2>2
<1>11. e.kind \notin Reports
  BY <1>8 DEF Reports
<1> QED BY <1>1, <1>2, <1>3, <1>6, <1>8, <1>9, <1>10, <1>11, PlainKeeps

\* The placeholder is taken away before the turn's own message.
LEMMA ClearedKeeps == TurnsInv /\ Cleared => TurnsInv'
<1> SUFFICES ASSUME TurnsInv, Cleared
             PROVE  TurnsInv'
  OBVIOUS
<1>1. Result("clear") /\ Await(work.event, "switch") /\ UNCHANGED <<arrival, stream, notes>>
  BY DEF Cleared
<1>2. UNCHANGED <<source, run, current, queue, accepted, missed, notes, stream>>
  BY <1>1 DEF arrival
<1>3. fails \in Nat
  BY DEF TurnsInv, HandlingTypes
<1>4. work.call = "clear" /\ fails' \in Nat /\ (fails' = 0 => fails = 0)
  BY <1>1, <1>3, ResultIs
<1>5. PICK e : e = work.event
  OBVIOUS
<1>6. /\ Handles(e) /\ work # Idle /\ Idle.call = ""
      /\ e \in Events /\ e.turn \in Turns /\ e.turn # 0
      /\ run \in Runs /\ stream \in StreamRecord
  BY <1>2, <1>4, <1>5, ReturnIs
<1>7. work'.event = e /\ work'.call = "switch" /\ work'.call \in Calls \ {"", "notify"}
  <2>1. work'.event = e /\ work'.call = "switch"
    BY <1>1, <1>5, AwaitIs
  <2> QED BY <2>1 DEF Calls
<1>8. e.kind = "delta" /\ stream.turn = e.turn
  BY <1>4, <1>5 DEF TurnsInv, CallRight
<1>9. CallRight'
  BY <1>2, <1>7, <1>8 DEF CallRight
<1>10. work' # Idle
  BY <1>6, <1>7
<1> QED BY <1>2, <1>4, <1>6, <1>7, <1>8, <1>9, <1>10, PlainKeeps

\* The first text has its message, or the call failed.
LEMMA SwitchedKeeps == TurnsInv /\ Switched => TurnsInv'
<1> SUFFICES ASSUME TurnsInv, Switched
             PROVE  TurnsInv'
  OBVIOUS
<1>1. /\ \/ Succeeds("switch") /\ stream' = [stream EXCEPT !.msg = "body", !.buffer = work.event.text]
         \/ Fails("switch") /\ UNCHANGED stream
      /\ work' = Idle /\ UNCHANGED <<arrival, notes>>
  BY DEF Switched
<1>2. UNCHANGED <<source, run, current, queue, accepted, missed, notes>>
  BY <1>1 DEF arrival
<1>3. fails \in Nat /\ Result("switch")
  BY <1>1 DEF TurnsInv, HandlingTypes, Result
<1>4. work.call = "switch" /\ fails' \in Nat /\ (fails' = 0 => fails = 0)
  BY <1>3, ResultIs
<1>5. PICK e : e = work.event
  OBVIOUS
<1>6. /\ Handles(e) /\ work # Idle /\ Idle.call = ""
      /\ e \in Events /\ e.turn \in Turns /\ e.turn # 0 /\ e.text \in Seq(Words)
      /\ run \in Runs /\ stream \in StreamRecord
  BY <1>2, <1>4, <1>5, ReturnIs
<1>8. e.kind = "delta" /\ stream.turn = e.turn
  BY <1>4, <1>5 DEF TurnsInv, CallRight
<1>9. CallRight'
  BY <1>1, <1>6 DEF CallRight
<1>10. stream' \in StreamRecord /\ stream'.turn = stream.turn /\ (stream'.told => stream.told)
  <2>1. CASE stream' = stream
    BY <1>6, <2>1
  <2>2. CASE stream' = [stream EXCEPT !.msg = "body", !.buffer = e.text]
    BY <1>6, <2>2 DEF StreamRecord
  <2> QED BY <1>1, <1>5, <2>1, <2>2
<1>11. e.kind \notin Reports
  BY <1>8 DEF Reports
<1> QED BY <1>1, <1>2, <1>4, <1>6, <1>8, <1>9, <1>10, <1>11, PlainKeeps

\* A notification was sent, or failed.
LEMMA NotifiedKeeps == TurnsInv /\ Notified => TurnsInv'
<1> SUFFICES ASSUME TurnsInv, Notified
             PROVE  TurnsInv'
  OBVIOUS
<1>1. PICK e : e = work.event
  OBVIOUS
<1>2. /\ work.call = "notify" /\ work' = Idle /\ UNCHANGED <<arrival, stream>>
      /\ \/ notes' = [notes EXCEPT ![e.turn] = @ + 1] /\ UNCHANGED fails
         \/ fails' = fails + 1 /\ UNCHANGED notes
  BY <1>1 DEF Notified
<1>3. UNCHANGED <<source, run, current, queue, accepted, missed, stream>>
  BY <1>2 DEF arrival
<1>4. /\ Handles(e) /\ work # Idle /\ Idle.call = ""
      /\ e \in Events /\ e.turn \in Turns /\ e.turn # 0
      /\ run \in Runs /\ stream \in StreamRecord /\ fails \in Nat /\ notes \in [Turns -> Nat]
  BY <1>1, <1>2, <1>3, ReturnIs
<1>5. InOrder'
  BY <1>2, <1>3, <1>4, OrderKept
<1>6. CallRight'
  BY <1>2, <1>4 DEF CallRight
<1>7. ArrivalTypes'
  BY <1>3 DEF TurnsInv, ArrivalTypes
<1>8. /\ run[e.turn].notified /\ notes[e.turn] = 0
      /\ \A t \in Turns : ~Owed(t)' /\ (Owed(t) <=> t = e.turn)
  BY <1>1, <1>2, <1>4 DEF TurnsInv, ClaimRight, Owed
<1>9. /\ notes' \in [Turns -> Nat] /\ fails' \in Nat /\ (fails' = 0 => fails = 0)
      /\ \A t \in Turns \ {e.turn} : notes'[t] = notes[t]
      /\ notes'[e.turn] \in {0, 1} /\ (fails' = 0 => notes'[e.turn] = 1)
  <2>3. fails \in Nat /\ notes \in [Turns -> Nat] /\ e.turn \in Turns /\ notes[e.turn] = 0
    BY <1>4, <1>8
  <2>1. CASE notes' = [notes EXCEPT ![e.turn] = @ + 1] /\ UNCHANGED fails
    <3>1. /\ notes' \in [Turns -> Nat] /\ notes'[e.turn] = 1
          /\ \A t \in Turns \ {e.turn} : notes'[t] = notes[t]
      BY <2>1, <2>3
    <3> QED BY <2>1, <2>3, <3>1
  <2>2. CASE fails' = fails + 1 /\ UNCHANGED notes
    <3>1. fails' \in Nat /\ fails' # 0
      BY <2>2, <2>3
    <3> QED BY <1>4, <1>8, <2>2, <3>1
  <2> QED BY <1>2, <2>1, <2>2
<1>10. HandlingTypes'
  BY <1>2, <1>3, <1>4, <1>9 DEF HandlingTypes
<1>11. ClaimRight'
  BY <1>3, <1>8, <1>9 DEF TurnsInv, ClaimRight
<1>12. NothingForgotten'
  <2> SUFFICES ASSUME NEW t \in Turns, Unhurt(t)'
               PROVE  /\ source'[t].stage # "none" /\ Before(t)' => Starting(t)' \/ run'[t].notified
                      /\ Reported(t, Reports)' => run'[t].notified \/ Pending(t)'
                      /\ Reported(t, Reports)' /\ run'[t].notified => notes'[t] = 1 \/ Owed(t)'
    BY DEF NothingForgotten
  <2>1. /\ Unhurt(t) /\ Reported(t, Reports)' = Reported(t, Reports)
        /\ source' = source /\ run' = run
    BY <1>3, <1>9 DEF Unhurt, Reported
  <2>2. /\ source[t].stage # "none" /\ Before(t) => Starting(t) \/ run[t].notified
        /\ Reported(t, Reports) => run[t].notified \/ Pending(t)
        /\ Reported(t, Reports) /\ run[t].notified => notes[t] = 1 \/ Owed(t)
    BY <2>1 DEF TurnsInv, NothingForgotten
  <2>3. CASE t = e.turn
    BY <1>8, <1>9, <1>11, <2>1, <2>3 DEF Unhurt
  <2>4. CASE t # e.turn
    <3>1. /\ Before(t)' => Before(t)
          /\ Starting(t) => Starting(t)' \/ t = e.turn
      BY <1>2, <1>3, <1>4, BeforeIs
    <3>2. Pending(t) => Pending(t)'
      BY <1>2, <1>4, <2>4, PendingIs
    <3> QED BY <1>8, <1>9, <2>1, <2>2, <2>4, <3>1, <3>2
  <2> QED BY <2>3, <2>4
<1>13. OverBegan'
  BY <1>3 DEF TurnsInv, OverBegan
<1> QED BY <1>5, <1>6, <1>7, <1>10, <1>11, <1>12, <1>13 DEF TurnsInv

\* What the loop and the calls of nobody do to the rest.
LEMMA SameKeeps ==
  ASSUME TurnsInv, UNCHANGED <<arrival, work, stream, notes>>,
         fails' \in Nat, fails' = 0 => fails = 0
  PROVE  TurnsInv'
<1>1. UNCHANGED <<source, run, current, queue, missed, accepted, work, stream, notes>>
  BY DEF arrival
<1>2. ArrivalTypes' /\ HandlingTypes'
  BY <1>1 DEF TurnsInv, ArrivalTypes, HandlingTypes
<1>3. InOrder' /\ CallRight'
  BY <1>1 DEF TurnsInv, InOrder, CallRight, Genuine
<1>4. ClaimRight'
  BY <1>1 DEF TurnsInv, ClaimRight, Owed
<1>5. NothingForgotten'
  <2> SUFFICES ASSUME NEW t \in Turns, Unhurt(t)'
               PROVE  /\ source'[t].stage # "none" /\ Before(t)' => Starting(t)' \/ run'[t].notified
                      /\ Reported(t, Reports)' => run'[t].notified \/ Pending(t)'
                      /\ Reported(t, Reports)' /\ run'[t].notified => notes'[t] = 1 \/ Owed(t)'
    BY DEF NothingForgotten
  <2>1. Unhurt(t)
    BY <1>1 DEF Unhurt
  <2>2. /\ Before(t)' <=> Before(t)
        /\ Starting(t)' <=> Starting(t)
        /\ Pending(t)' <=> Pending(t)
        /\ Owed(t)' <=> Owed(t)
        /\ Reported(t, Reports)' <=> Reported(t, Reports)
    BY <1>1 DEF Before, Starting, Pending, Owed, Reported
  <2> QED BY <1>1, <2>1, <2>2 DEF TurnsInv, NothingForgotten
<1>6. OverBegan'
  BY <1>1 DEF TurnsInv, OverBegan
<1> QED BY <1>2, <1>3, <1>4, <1>5, <1>6 DEF TurnsInv

\* The throttle loop.
LEMMA LoopKeeps == TurnsInv /\ Throttle => TurnsInv'
<1> SUFFICES ASSUME TurnsInv, Throttle
             PROVE  TurnsInv'
  OBVIOUS
<1>1. fails \in Nat
  BY DEF TurnsInv, HandlingTypes
<1>2. UNCHANGED <<arrival, work, stream, notes>> /\ (fails' = fails \/ fails' = fails + 1)
  BY DEF Throttle, LoopLooks, LoopEdited
<1>3. fails' \in Nat /\ (fails' = 0 => fails = 0)
  BY <1>1, <1>2
<1> QED BY <1>2, <1>3, SameKeeps

-----------------------------------------------------------------------------
(* The claims.                                                             *)

\* What telling a turn over leaves in the stream.
LEMMA ToldIs ==
  ASSUME NEW s \in StreamRecord
  PROVE  /\ Told(s) \in StreamRecord /\ Told(s).turn = s.turn
         /\ Told(s).told => s.told \/ s.turn # 0
<1>1. CASE s.turn = 0
  BY <1>1 DEF Told
<1>2. CASE s.turn # 0
  <2>1. Told(s) = [s EXCEPT !.told = TRUE]
    BY <1>2 DEF Told
  <2>2. [s EXCEPT !.told = TRUE] \in StreamRecord /\ [s EXCEPT !.told = TRUE].turn = s.turn
    BY DEF StreamRecord
  <2> QED BY <1>2, <2>1, <2>2
<1> QED BY <1>1, <1>2

\* A run that is over is otherwise the run it was.
LEMMA RunOver ==
  ASSUME NEW r \in Runs, NEW u \in Turns
  PROVE  /\ [r EXCEPT ![u].status = "over"] \in Runs
         /\ \A t \in Turns : /\ [r EXCEPT ![u].status = "over"][t].notified = r[t].notified
                             /\ [r EXCEPT ![u].status = "over"][t].synced = r[t].synced
         /\ \A t \in Turns \ {u} : [r EXCEPT ![u].status = "over"][t].status = r[t].status
BY DEF Runs

\* A final answer is taken.
LEMMA TakeFinalKeeps == TurnsInv /\ TakeFinal => TurnsInv'
<1> SUFFICES ASSUME TurnsInv, TakeFinal
             PROVE  TurnsInv'
  OBVIOUS
<1>1. PICK e \in {queue[k] : k \in DOMAIN queue} :
        /\ e.kind = "final" /\ Took(e) /\ ~Stale(e)
        /\ Kept /\ UNCHANGED <<notes, fails>>
        /\ \/ stream.turn = 0 /\ Await(e, "reply") /\ UNCHANGED <<run, stream>>
           \/ Claim(e, stream, run, TRUE) /\ stream' = Told(stream)
           \/ /\ stream.turn # 0 /\ stream' = [stream EXCEPT !.buffer = e.text]
              /\ Await(e, "edit") /\ UNCHANGED run
  BY DEF TakeFinal, Ignores
<1>2. /\ Handles(e) /\ work = Idle /\ Idle.call = "" /\ Idle.event.kind = "none"
      /\ e \in Events /\ e.turn \in Turns /\ e.turn # 0 /\ e.text \in Seq(Words)
      /\ stream \in StreamRecord /\ run \in Runs /\ fails \in Nat
  BY <1>1, TakenIs
<1>3. Kept /\ UNCHANGED <<notes, fails>>
  BY <1>1
<1>4. UNCHANGED <<source, current, accepted, missed, notes, fails>>
  BY <1>3 DEF Kept
<1>5. stream.turn \in {0, e.turn}
  BY <1>1 DEF Stale
<1>6. ASSUME stream' \in StreamRecord, stream'.turn = stream.turn, stream'.told => stream.told,
             run' = run, NEW c \in {"reply", "edit"}, Await(e, c),
             IF c = "reply" THEN stream.turn = 0 ELSE stream.turn = e.turn
      PROVE  TurnsInv'
  <2>1. work'.event = e /\ work'.call = c
    BY <1>6, AwaitIs
  <2>2. work' # Idle
    BY <1>2, <1>6, <2>1
  <2>3. CallRight'
    BY <1>1, <1>6, <2>1 DEF CallRight
  <2>4. work'.call \in Calls \ {"", "notify"}
    BY <1>6, <2>1 DEF Calls
  <2> QED BY <1>2, <1>4, <1>6, <2>1, <2>2, <2>3, <2>4, PlainKeeps
<1>7. CASE stream.turn = 0 /\ Await(e, "reply") /\ UNCHANGED <<run, stream>>
  BY <1>2, <1>6, <1>7
<1>8. CASE Claim(e, stream, run, TRUE) /\ stream' = Told(stream)
  <2>1. PICK s, r : s = stream /\ r = run
    OBVIOUS
  <2>2. Claim(e, s, r, TRUE) /\ r \in Runs
    BY <1>2, <1>8, <2>1
  <2>3. stream.told => stream.turn # 0 /\ run[stream.turn].notified
    BY DEF TurnsInv, ClaimRight
  <2>4. s.told => run[e.turn].notified
    BY <1>5, <2>1, <2>3
  <2>5. stream' \in StreamRecord /\ stream'.turn \in {stream.turn, 0}
    BY <1>2, <1>8, ToldIs
  <2>6. stream'.told => stream'.turn = e.turn
    BY <1>2, <1>5, <1>8, <2>3, ToldIs
  <2>7. /\ \A t \in Turns : r[t].notified = run[t].notified
        /\ \A t \in Turns \ {e.turn} : r[t].synced = run[t].synced /\ r[t].status = run[t].status
    BY <2>1
  <2>8. e.kind \in {"final"} \cup EndKinds /\ work.call # "notify"
    BY <1>1, <1>2
  <2> QED BY <1>2, <1>4, <2>2, <2>4, <2>5, <2>6, <2>7, <2>8, ClaimKeeps
<1>9. CASE /\ stream.turn # 0 /\ stream' = [stream EXCEPT !.buffer = e.text]
           /\ Await(e, "edit") /\ UNCHANGED run
  <2>1. stream' \in StreamRecord /\ stream'.turn = stream.turn /\ (stream'.told => stream.told)
    BY <1>2, <1>9 DEF StreamRecord
  <2> QED BY <1>5, <1>6, <1>9, <2>1
<1> QED BY <1>1, <1>7, <1>8, <1>9

\* The end of a turn that streams no more, for its message or for its run.
LEMMA CloseKeeps ==
  ASSUME TurnsInv, NEW e, Handles(e), e.kind \in EndKinds, work.call # "notify",
         stream.turn = e.turn, Close(e),
         UNCHANGED <<source, current, accepted, missed, notes>>,
         fails' \in Nat, fails' = 0 => fails = 0
  PROVE  TurnsInv'
<1>1. PICK text : /\ Claim(e, stream,
                           [run EXCEPT ![e.turn].status = "over", ![e.turn].synced = @ \/ text # <<>>],
                           e.kind = "mirrored" => text # <<>>)
                  /\ stream' = NoStream
  BY DEF Close
<1>2. e \in Events /\ e.turn \in Turns /\ run \in Runs /\ stream \in StreamRecord
  BY HandlesIs DEF Events, TurnsInv, ArrivalTypes, HandlingTypes
<1>3. PICK b \in BOOLEAN : b = (text # <<>>)
  OBVIOUS
<1>4. PICK r : r = [run EXCEPT ![e.turn].status = "over", ![e.turn].synced = @ \/ b]
  OBVIOUS
<1>5. PICK s : s = stream
  OBVIOUS
<1>6. PICK wanted \in BOOLEAN : wanted = (e.kind = "mirrored" => b)
  OBVIOUS
<1>7. Claim(e, s, r, wanted)
  BY <1>1, <1>3, <1>4, <1>5, <1>6
<1>8. /\ r \in Runs /\ \A t \in Turns : r[t].notified = run[t].notified
      /\ \A t \in Turns \ {e.turn} : r[t].synced = run[t].synced /\ r[t].status = run[t].status
  <2>1. PICK u \in Turns : u = e.turn
    BY <1>2
  <2>2. PICK old \in Runs : old = run
    BY <1>2
  <2>3. r = [old EXCEPT ![u].status = "over", ![u].synced = @ \/ b]
    BY <1>4, <2>1, <2>2
  <2>4. /\ r \in Runs /\ \A t \in Turns : r[t].notified = old[t].notified
        /\ \A t \in Turns \ {u} : r[t].synced = old[t].synced /\ r[t].status = old[t].status
    <3>1. r \in Runs
      BY <2>3 DEF Runs
    <3>2. \A t \in Turns : r[t].notified = old[t].notified
      BY <2>3 DEF Runs
    <3>3. \A t \in Turns \ {u} : r[t].synced = old[t].synced /\ r[t].status = old[t].status
      BY <2>3 DEF Runs
    <3> QED BY <3>1, <3>2, <3>3
  <2> QED BY <2>1, <2>2, <2>4
<1>9. s.told => run[e.turn].notified
  BY <1>5 DEF TurnsInv, ClaimRight
<1>10. stream' \in StreamRecord /\ stream'.turn = 0 /\ ~stream'.told
  BY <1>1 DEF StreamRecord, NoStream
<1>11. wanted \/ e.kind = "mirrored"
  BY <1>6
<1> QED BY <1>7, <1>8, <1>9, <1>10, <1>11, ClaimKeeps

\* The end of a turn is taken.
LEMMA TakeEndKeeps == TurnsInv /\ TakeEnd => TurnsInv'
<1> SUFFICES ASSUME TurnsInv, TakeEnd
             PROVE  TurnsInv'
  OBVIOUS
<1>1. PICK e \in {queue[k] : k \in DOMAIN queue} :
        /\ e.kind \in Ends /\ Took(e) /\ ~Ignores(e)
        /\ Kept /\ UNCHANGED <<notes, fails>>
        /\ \/ /\ stream.turn = 0 /\ UNCHANGED stream
              /\ IF e.kind = "mirrored"
                 THEN run' = [run EXCEPT ![e.turn].status = "over"] /\ UNCHANGED work
                 ELSE Claim(e, stream, [run EXCEPT ![e.turn].status = "over"], TRUE)
           \/ /\ stream.turn # 0 /\ stream.done /\ stream' = NoStream
              /\ Claim(e, stream, [run EXCEPT ![e.turn].status = "over"], TRUE)
           \/ stream.turn # 0 /\ ~stream.done /\ Close(e)
           \/ /\ stream.turn # 0 /\ ~stream.done /\ LastCall(e) # ""
              /\ stream' = [stream EXCEPT !.done = TRUE]
              /\ Await(e, LastCall(e)) /\ UNCHANGED run
  BY DEF TakeEnd
<1>2. /\ Handles(e) /\ work = Idle /\ Idle.call = "" /\ Idle.event.kind = "none"
      /\ e \in Events /\ e.turn \in Turns /\ e.turn # 0 /\ e.text \in Seq(Words)
      /\ stream \in StreamRecord /\ run \in Runs /\ fails \in Nat
  BY <1>1, TakenIs
<1>3. Kept /\ UNCHANGED <<notes, fails>>
  BY <1>1
<1>4. UNCHANGED <<source, current, accepted, missed, notes, fails>>
  BY <1>3 DEF Kept
<1>5. e.kind \in EndKinds /\ work.call # "notify"
  BY <1>1, <1>2, TurnsAre
<1>6. ~stream.done => stream.turn \in {0, e.turn}
  BY <1>1, <1>5 DEF Ignores, Stale, EndKinds
<1>7. stream.told => stream.turn # 0 /\ run[stream.turn].notified
  BY DEF TurnsInv, ClaimRight
<1>8. PICK over : over = [run EXCEPT ![e.turn].status = "over"]
  OBVIOUS
<1>9. /\ over \in Runs
      /\ \A t \in Turns : over[t].notified = run[t].notified /\ over[t].synced = run[t].synced
      /\ \A t \in Turns \ {e.turn} : over[t].status = run[t].status
  <2>1. /\ [run EXCEPT ![e.turn].status = "over"] \in Runs
        /\ \A t \in Turns :
             /\ [run EXCEPT ![e.turn].status = "over"][t].notified = run[t].notified
             /\ [run EXCEPT ![e.turn].status = "over"][t].synced = run[t].synced
        /\ \A t \in Turns \ {e.turn} : [run EXCEPT ![e.turn].status = "over"][t].status = run[t].status
    BY <1>2, RunOver, Zenon
  <2> QED BY <1>8, <2>1, Zenon
<1>10. ASSUME stream' \in StreamRecord, stream'.turn \in {stream.turn, 0}, stream'.told => stream' = stream,
              run' = over, work' = Idle, e.kind \in Reports => run[e.turn].notified \/ ~Unhurt(e.turn)
       PROVE  TurnsInv'
  <2>1. CallRight'
    BY <1>2, <1>10 DEF CallRight
  <2>2. e.kind # "started"
    BY <1>5 DEF EndKinds
  <2>3. stream'.turn = e.turn => stream.turn = e.turn
    BY <1>2, <1>10
  <2> QED BY <1>2, <1>4, <1>5, <1>9, <1>10, <2>1, <2>2, <2>3, PlainKeeps
<1>11. ASSUME stream' \in StreamRecord, stream'.turn = 0, ~stream'.told, Claim(e, stream, over, TRUE)
       PROVE  TurnsInv'
  <2>1. CASE stream.told /\ stream.turn # e.turn
    <3>1. Stale(e)
      BY <1>7, <2>1 DEF Stale
    <3>2. run' = over /\ work' = Idle
      BY <1>11, <2>1 DEF Claim
    <3>3. run[e.turn].notified \/ ~Unhurt(e.turn)
      BY <1>2, <1>5, <3>1, StaleIsTold DEF EndKinds
    <3> QED BY <1>10, <1>11, <3>2, <3>3
  <2>2. CASE ~(stream.told /\ stream.turn # e.turn)
    <3>1. PICK s : s = stream
      OBVIOUS
    <3>2. Claim(e, s, over, TRUE) /\ (s.told => run[e.turn].notified)
      BY <1>7, <1>11, <2>2, <3>1
    <3> QED BY <1>2, <1>4, <1>5, <1>9, <1>11, <3>2, ClaimKeeps
  <2> QED BY <2>1, <2>2
<1>12. CASE /\ stream.turn = 0 /\ UNCHANGED stream
            /\ IF e.kind = "mirrored"
               THEN run' = [run EXCEPT ![e.turn].status = "over"] /\ UNCHANGED work
               ELSE Claim(e, stream, [run EXCEPT ![e.turn].status = "over"], TRUE)
  <2>1. stream' \in StreamRecord /\ stream'.turn = 0 /\ ~stream'.told
    BY <1>2, <1>7, <1>12
  <2>2. CASE e.kind = "mirrored"
    <3>1. run' = over /\ work' = Idle /\ e.kind \notin Reports
      BY <1>2, <1>8, <1>12, <2>2 DEF Reports
    <3> QED BY <1>10, <2>1, <3>1
  <2>3. CASE e.kind # "mirrored"
    BY <1>8, <1>11, <1>12, <2>1, <2>3
  <2> QED BY <2>2, <2>3
<1>13. CASE /\ stream.turn # 0 /\ stream.done /\ stream' = NoStream
            /\ Claim(e, stream, [run EXCEPT ![e.turn].status = "over"], TRUE)
  <2>1. stream' \in StreamRecord /\ stream'.turn = 0 /\ ~stream'.told
    BY <1>13 DEF StreamRecord, NoStream
  <2> QED BY <1>8, <1>11, <1>13, <2>1
<1>14. CASE stream.turn # 0 /\ ~stream.done /\ Close(e)
  BY <1>2, <1>4, <1>5, <1>6, <1>14, CloseKeeps
<1>15. CASE /\ stream.turn # 0 /\ ~stream.done /\ LastCall(e) # ""
            /\ stream' = [stream EXCEPT !.done = TRUE]
            /\ Await(e, LastCall(e)) /\ UNCHANGED run
  <2>1. /\ stream' \in StreamRecord /\ stream'.turn = stream.turn /\ stream'.told = stream.told
    BY <1>2, <1>15 DEF StreamRecord
  <2>2. LastCall(e) \in {"last", "drop"}
    BY <1>15 DEF LastCall
  <2>3. work'.event = e /\ work'.call \in {"last", "drop"}
    BY <1>15, <2>2, AwaitIs
  <2>4. work' # Idle
    BY <1>2, <2>3
  <2>5. CallRight'
    BY <1>5, <1>6, <1>15, <2>1, <2>3 DEF CallRight
  <2>6. work'.call \in Calls \ {"", "notify"}
    BY <2>3 DEF Calls
  <2> QED BY <1>2, <1>4, <1>15, <2>1, <2>3, <2>4, <2>5, <2>6, PlainKeeps
<1> QED BY <1>1, <1>12, <1>13, <1>14, <1>15

\* A remark or a final answer has its message, or the call failed.
LEMMA ShownKeeps == TurnsInv /\ Shown => TurnsInv'
<1> SUFFICES ASSUME TurnsInv, Shown
             PROVE  TurnsInv'
  OBVIOUS
<1>1. PICK e : e = work.event
  OBVIOUS
<1>2. PICK shown \in BOOLEAN :
        /\ IF shown THEN Succeeds(work.call) ELSE Fails(work.call)
        /\ IF e.kind = "final"
           THEN /\ Claim(e, [stream EXCEPT !.done = @ \/ (shown /\ stream.turn # 0)],
                         [run EXCEPT ![e.turn].synced = @ \/ shown], TRUE)
                /\ stream' = Told([stream EXCEPT !.done = @ \/ (shown /\ stream.turn # 0)])
           ELSE work' = Idle /\ UNCHANGED <<run, stream>>
  BY <1>1 DEF Shown
<1>3. work.call \in {"edit", "reply"} /\ UNCHANGED <<source, current, queue, accepted, missed, notes>>
  BY DEF Shown
<1>4. /\ Handles(e) /\ work # Idle /\ Idle.call = ""
      /\ e \in Events /\ e.turn \in Turns /\ e.turn # 0
      /\ run \in Runs /\ stream \in StreamRecord /\ fails \in Nat
  BY <1>1, <1>3, ReturnIs
<1>5. e.kind \in {"note", "final"} /\ stream.turn \in {0, e.turn}
  BY <1>1, <1>3 DEF TurnsInv, CallRight
<1>6. fails' \in Nat /\ (fails' = 0 => fails = 0)
  <2>1. Result(work.call)
    BY <1>2 DEF Result
  <2> QED BY <1>4, <2>1, ResultIs
<1>7. CASE e.kind = "final"
  <2>1. PICK s : s = [stream EXCEPT !.done = @ \/ (shown /\ stream.turn # 0)]
    OBVIOUS
  <2>2. PICK r : r = [run EXCEPT ![e.turn].synced = @ \/ shown]
    OBVIOUS
  <2>3. Claim(e, s, r, TRUE) /\ stream' = Told(s)
    BY <1>2, <1>7, <2>1, <2>2
  <2>4. s \in StreamRecord /\ s.turn = stream.turn /\ s.told = stream.told
    BY <1>4, <2>1 DEF StreamRecord
  <2>5. /\ r \in Runs /\ \A t \in Turns : r[t].notified = run[t].notified
        /\ \A t \in Turns \ {e.turn} : r[t].synced = run[t].synced /\ r[t].status = run[t].status
    BY <1>4, <2>2 DEF Runs
  <2>6. stream.told => stream.turn # 0 /\ run[stream.turn].notified
    BY DEF TurnsInv, ClaimRight
  <2>7. s.told => run[e.turn].notified
    BY <1>5, <2>4, <2>6
  <2>8. /\ stream' \in StreamRecord /\ stream'.turn = stream.turn
        /\ stream'.told => stream'.turn = e.turn
    BY <1>5, <2>3, <2>4, <2>6, ToldIs
  <2>9. e.kind \in {"final"} \cup EndKinds /\ work.call # "notify"
    BY <1>3, <1>7
  <2> QED BY <1>3, <1>4, <1>6, <2>3, <2>5, <2>7, <2>8, <2>9, ClaimKeeps
<1>8. CASE e.kind # "final"
  <2>1. work' = Idle /\ UNCHANGED <<run, stream>>
    BY <1>2, <1>8
  <2>2. e.kind \notin Reports /\ e.kind # "started"
    BY <1>5, <1>8 DEF Reports
  <2>3. CallRight'
    BY <1>4, <2>1 DEF CallRight
  <2>4. work.call # "notify"
    BY <1>3
  <2> QED BY <1>3, <1>4, <1>6, <2>1, <2>2, <2>3, <2>4, PlainKeeps
<1> QED BY <1>7, <1>8

\* The message of a turn that is over has its last form, or the call failed.
LEMMA ClosedKeeps == TurnsInv /\ Closed => TurnsInv'
<1> SUFFICES ASSUME TurnsInv, Closed
             PROVE  TurnsInv'
  OBVIOUS
<1>1. PICK e : e = work.event
  OBVIOUS
<1>2. /\ Result("last") \/ Result("drop")
      /\ Close(e) /\ UNCHANGED <<source, current, queue, accepted, missed, notes>>
  BY <1>1 DEF Closed
<1>3. fails \in Nat
  BY DEF TurnsInv, HandlingTypes
<1>4. work.call \in {"last", "drop"} /\ fails' \in Nat /\ (fails' = 0 => fails = 0)
  BY <1>2, <1>3, ResultIs
<1>5. Handles(e)
  BY <1>1, <1>2, <1>4, ReturnIs
<1>6. e.kind \in EndKinds /\ stream.turn = e.turn
  BY <1>1, <1>4 DEF TurnsInv, CallRight
<1>7. work.call # "notify"
  BY <1>4
<1> QED BY <1>2, <1>4, <1>5, <1>6, <1>7, CloseKeeps

\* The delivery is stopped: what was queued or in hand counts as missed.
LEMMA RestartKeeps == TurnsInv /\ Restart => TurnsInv'
<1> SUFFICES ASSUME TurnsInv, Restart
             PROVE  TurnsInv'
  OBVIOUS
<1>1. /\ missed' = missed \cup {queue[k].turn : k \in DOMAIN queue}
                          \cup (IF work = Idle THEN {} ELSE {work.event.turn})
                          \cup (IF loop = LoopOff THEN {} ELSE {stream.turn})
      /\ queue' = <<>> /\ work' = Idle /\ UNCHANGED <<source, run, current, accepted, stream, fails>>
      /\ \/ UNCHANGED notes
         \/ work.call = "notify" /\ notes' = [notes EXCEPT ![work.event.turn] = @ + 1]
  BY DEF Restart
<1>2. /\ source \in Sources /\ run \in Runs /\ current \in {0} \cup Turns
      /\ queue \in Seq(Events)
      /\ stream \in StreamRecord /\ fails \in Nat /\ notes \in [Turns -> Nat]
      /\ work = Idle \/ work.event \in Events
  BY DEF TurnsInv, ArrivalTypes, HandlingTypes
<1>3. Idle.call = "" /\ Idle.event.kind = "none"
  BY DEF Idle, NoEvent
<1>4. queue' \in Seq(Events) /\ DOMAIN queue' = {}
  BY <1>1
<1>5. ArrivalTypes' /\ HandlingTypes'
  <2>1. notes' \in [Turns -> Nat]
    <3>1. CASE UNCHANGED notes
      BY <1>2, <3>1
    <3>2. CASE work.call = "notify" /\ notes' = [notes EXCEPT ![work.event.turn] = @ + 1]
      <4>1. work # Idle
        BY <1>3, <3>2
      <4>2. work.event.turn \in Turns
        BY <1>2, <4>1 DEF Events
      <4> QED BY <1>2, <3>2, <4>2
    <3> QED BY <1>1, <3>1, <3>2
  <2>2. ArrivalTypes'
    BY <1>1, <1>4 DEF TurnsInv, ArrivalTypes
  <2> QED BY <1>1, <1>2, <2>1, <2>2 DEF HandlingTypes
<1>6. InOrder'
  <2>1. \A t \in Turns : source'[t].stage # "none" <=> t <= current'
    BY <1>1 DEF TurnsInv, InOrder
  <2>2. stream'.turn <= current'
    BY <1>1 DEF TurnsInv, InOrder
  <2> QED BY <1>1, <1>4, <2>1, <2>2 DEF InOrder
<1>7. CallRight'
  BY <1>1, <1>3 DEF CallRight
<1>8. \A t \in Turns :
        /\ ~Owed(t)' /\ notes'[t] <= 1 /\ (notes'[t] # 0 => run[t].notified)
        /\ ~Owed(t) => notes'[t] = notes[t]
  <2> SUFFICES ASSUME NEW t \in Turns
               PROVE  /\ ~Owed(t)' /\ notes'[t] <= 1 /\ (notes'[t] # 0 => run[t].notified)
                      /\ ~Owed(t) => notes'[t] = notes[t]
    OBVIOUS
  <2>1. /\ notes[t] \in Nat /\ notes[t] <= 1 /\ (Owed(t) => notes[t] = 0)
        /\ notes[t] # 0 \/ Owed(t) => run[t].notified
    BY <1>2 DEF TurnsInv, ClaimRight
  <2>2. ~Owed(t)'
    BY <1>1, <1>3 DEF Owed
  <2>3. CASE UNCHANGED notes
    BY <2>1, <2>2, <2>3
  <2>4. CASE work.call = "notify" /\ notes' = [notes EXCEPT ![work.event.turn] = @ + 1]
    <3>1. CASE work.event.turn = t
      <4>1. Owed(t)
        BY <2>4, <3>1 DEF Owed
      <4>2. notes'[t] = notes[t] + 1
        BY <1>2, <2>4, <3>1
      <4> QED BY <2>1, <2>2, <4>1, <4>2
    <3>2. CASE work.event.turn # t
      <4>1. notes'[t] = notes[t]
        BY <1>2, <2>4, <3>2
      <4> QED BY <2>1, <2>2, <4>1
    <3> QED BY <3>1, <3>2
  <2> QED BY <1>1, <2>3, <2>4
<1>9. ClaimRight'
  BY <1>1, <1>8 DEF TurnsInv, ClaimRight
<1>10. NothingForgotten'
  <2> SUFFICES ASSUME NEW t \in Turns, Unhurt(t)'
               PROVE  /\ source'[t].stage # "none" /\ Before(t)' => Starting(t)' \/ run'[t].notified
                      /\ Reported(t, Reports)' => run'[t].notified \/ Pending(t)'
                      /\ Reported(t, Reports)' /\ run'[t].notified => notes'[t] = 1 \/ Owed(t)'
    BY DEF NothingForgotten
  <2>1. /\ Unhurt(t) /\ \A i \in DOMAIN queue : queue[i].turn # t
        /\ work # Idle => work.event.turn # t
    BY <1>1 DEF Unhurt
  <2>2. Reported(t, Reports)' <=> Reported(t, Reports)
    BY <1>1 DEF Reported
  <2>3. ~Starting(t) /\ ~Pending(t) /\ ~Owed(t)
    <3>1. ~Starting(t)
      BY <1>3, <2>1 DEF Starting
    <3>2. ~Pending(t)
      BY <1>3, <2>1 DEF Pending, Reports
    <3>3. ~Owed(t)
      BY <1>3, <2>1 DEF Owed
    <3> QED BY <3>1, <3>2, <3>3
  <2>4. Before(t)' => Before(t)
    <3>1. \A u \in Turns : ~Starting(u)'
      BY <1>1, <1>3, <1>4 DEF Starting
    <3> QED BY <1>1, <3>1 DEF Before
  <2> QED BY <1>1, <1>8, <2>1, <2>2, <2>3, <2>4 DEF TurnsInv, NothingForgotten
<1>11. OverBegan'
  BY <1>1 DEF TurnsInv, OverBegan
<1> QED BY <1>5, <1>6, <1>7, <1>9, <1>10, <1>11 DEF TurnsInv

-----------------------------------------------------------------------------
(* An event is published.                                                  *)

\* What publishing does to the queue: text joins the text before it, a full queue
\* refuses the event, or it is appended.
LEMMA EnqueueIs ==
  ASSUME queue \in Seq(Events), NEW kind \in AllKinds, NEW t \in Turns, NEW text \in Seq(Words),
         Enqueue(kind, t, text)
  PROVE  /\ queue' \in Seq(Events)
         /\ \A i \in DOMAIN queue : /\ i \in DOMAIN queue'
                                    /\ queue'[i].kind = queue[i].kind
                                    /\ queue'[i].turn = queue[i].turn
         /\ \/ /\ DOMAIN queue' = DOMAIN queue /\ accepted' = accepted
               /\ missed \subseteq missed' /\ (kind = "delta" \/ t \in missed')
            \/ \E n \in DOMAIN queue' :
                 /\ DOMAIN queue' = DOMAIN queue \cup {n} /\ \A i \in DOMAIN queue : i < n
                 /\ queue'[n] = Event(kind, t, text) /\ missed' = missed
                 /\ accepted' = IF kind \in {"final"} \cup Ends
                                THEN accepted \cup {<<t, kind>>} ELSE accepted
<1>1. CASE Joins(kind, t)
  <2>1. /\ queue' = [k \in DOMAIN queue |->
                       IF k = Len(queue) THEN [queue[k] EXCEPT !.text = @ \o text] ELSE queue[k]]
        /\ UNCHANGED <<missed, accepted>> /\ kind = "delta"
    BY <1>1 DEF Enqueue, Joins
  <2>2. DOMAIN queue = 1 .. Len(queue) /\ Len(queue) \in Nat
    OBVIOUS
  <2>3. ASSUME NEW k \in DOMAIN queue
        PROVE  queue'[k] \in Events /\ queue'[k].kind = queue[k].kind
               /\ queue'[k].turn = queue[k].turn
    <3>1. PICK f \in Events : f = queue[k]
      OBVIOUS
    <3>2. f.text \o text \in Seq(Words)
      BY DEF Events
    <3>3. PICK more \in Seq(Words) : more = f.text \o text
      BY <3>2
    <3>4. queue'[k] = [f EXCEPT !.text = more] \/ queue'[k] = f
      BY <2>1, <3>1, <3>3
    <3>5. /\ [f EXCEPT !.text = more] \in Events /\ [f EXCEPT !.text = more].kind = f.kind
          /\ [f EXCEPT !.text = more].turn = f.turn
      BY DEF Events
    <3> QED BY <3>1, <3>4, <3>5
  <2>4. queue' \in Seq(Events)
    <3> DEFINE g == [k \in DOMAIN queue |->
                       IF k = Len(queue) THEN [queue[k] EXCEPT !.text = @ \o text] ELSE queue[k]]
    <3>1. queue' = g /\ DOMAIN g = 1 .. Len(queue)
      BY <2>1, <2>2
    <3>2. \A k \in 1 .. Len(queue) : g[k] \in Events
      BY <2>2, <2>3, <3>1
    <3>3. g = [k \in 1 .. Len(queue) |-> g[k]]
      BY <2>2
    <3> HIDE DEF g
    <3>4. g \in [1 .. Len(queue) -> Events]
      BY <3>2, <3>3
    <3> QED BY <2>2, <3>1, <3>4
  <2>5. DOMAIN queue' = DOMAIN queue
    BY <2>1
  <2> QED BY <2>1, <2>3, <2>4, <2>5
<1>2. CASE ~Joins(kind, t) /\ Len(queue) = MaxQueue
  <2>1. UNCHANGED <<queue, accepted>> /\ missed' = missed \cup {t}
    BY <1>2 DEF Enqueue
  <2> QED BY <2>1
<1>3. CASE ~Joins(kind, t) /\ Len(queue) # MaxQueue
  <2>1. /\ queue' = Append(queue, Event(kind, t, text)) /\ missed' = missed
        /\ accepted' = IF kind \in {"final"} \cup Ends
                       THEN accepted \cup {<<t, kind>>} ELSE accepted
    BY <1>3 DEF Enqueue
  <2>2. PICK f : f = Event(kind, t, text)
    OBVIOUS
  <2>3. f \in Events
    BY <2>2 DEF Event, Events
  <2>4. PICK n : n = Len(queue) + 1
    OBVIOUS
  <2>5. /\ queue' \in Seq(Events) /\ n \in DOMAIN queue' /\ queue'[n] = f
        /\ DOMAIN queue' = DOMAIN queue \cup {n}
        /\ \A i \in DOMAIN queue : i < n /\ queue'[i] = queue[i]
    BY <2>1, <2>2, <2>3, <2>4
  <2> QED BY <2>1, <2>2, <2>5
<1> QED BY <1>1, <1>2, <1>3

\* What a step of the provider does to a turn whose event it publishes.
Tells(kind, t) ==
  /\ source' \in Sources /\ \A u \in Turns \ {t} : source'[u] = source[u]
  /\ IF kind = "started"
     THEN /\ source[t].stage = "none" /\ source'[t].stage = "live"
          /\ \A u \in Turns : u < t => source[u].stage # "none"
     ELSE source[t].stage \in {"live", "final"} /\ source'[t].stage \in {"live", "final", "over"}
  /\ kind \in {"delta", "note"} => source'[t].stage = source[t].stage
  /\ kind = "final" => source'[t].stage = "final"
  /\ kind \in EndKinds => kind \in Ends /\ source'[t].stage = "over"

\* Whether it is news to the bot: a start always is.
LEMMA ConcernsIs ==
  ASSUME TurnsInv, NEW t \in Turns, NEW kind \in AllKinds, NEW text, Tells(kind, t),
         Publish(kind, t, text)
  PROVE  \/ /\ kind # "started" /\ ~Concerns(kind, t)
            /\ UNCHANGED <<run, current, queue, missed, accepted>>
         \/ /\ run' \in Runs /\ current' = t /\ Enqueue(kind, t, text)
            /\ \A u \in Turns : /\ run'[u].notified = run[u].notified
                                /\ run'[u].synced = run[u].synced
            /\ \A u \in Turns \ {t} : run'[u].status = run[u].status
            /\ current \in Nat /\ current <= t
            /\ IF kind = "started" THEN current < t ELSE current = t
<1>1. /\ run \in Runs /\ current \in {0} \cup Turns /\ source \in Sources
      /\ current \in Nat /\ t \in Nat /\ t # 0
      /\ \A u \in Turns : source[u].stage # "none" <=> u <= current
  BY TurnsAre DEF TurnsInv, ArrivalTypes, InOrder
<1>2. CASE ~Concerns(kind, t)
  <2>1. kind # "started"
    <3>1. run[t].synced => run[t].notified
      BY DEF TurnsInv, ClaimRight
    <3>2. run[t].notified => source[t].stage # "none"
      BY DEF TurnsInv, ClaimRight
    <3>3. run[t].status = "over" => source[t].stage # "none"
      BY DEF TurnsInv, OverBegan
    <3>4. kind = "started" => source[t].stage = "none"
      BY DEF Tells
    <3> QED BY <1>2, <3>1, <3>2, <3>3, <3>4 DEF Concerns
  <2>2. UNCHANGED <<run, current, queue, missed, accepted>>
    BY <1>2 DEF Publish
  <2> QED BY <1>2, <2>1, <2>2
<1>3. CASE Concerns(kind, t)
  <2>1. /\ run' = RunAfter(kind, t) /\ Enqueue(kind, t, text)
        /\ current' = IF kind = "started" \/ current = 0 THEN t ELSE current
    BY <1>3 DEF Publish
  <2>2. PICK st \in {"none", "started", "over"} : run' = [run EXCEPT ![t].status = st]
    <3>1. run[t].status \in {"none", "started", "over"}
      BY <1>1 DEF Runs
    <3> QED BY <2>1, <3>1 DEF RunAfter
  <2>3. run' \in Runs
    BY <1>1, <2>2 DEF Runs
  <2>4. /\ \A u \in Turns : run'[u].notified = run[u].notified /\ run'[u].synced = run[u].synced
        /\ \A u \in Turns \ {t} : run'[u].status = run[u].status
    BY <1>1, <2>2 DEF Runs
  <2>5. CASE kind = "started"
    <3>1. source[t].stage = "none"
      BY <2>5 DEF Tells
    <3>2. ~(t <= current)
      BY <1>1, <3>1
    <3>3. current < t
      BY <1>1, <3>2
    <3> QED BY <1>1, <2>1, <2>3, <2>4, <2>5, <3>3
  <2>6. CASE kind # "started"
    <3>1. source[t].stage # "none" /\ current \in {0, t}
      BY <1>3, <2>6 DEF Tells, Concerns
    <3>2. t <= current
      BY <1>1, <3>1
    <3>3. current = t
      BY <1>1, <3>1, <3>2
    <3> QED BY <1>1, <2>1, <2>3, <2>4, <2>6, <3>3
  <2> QED BY <2>5, <2>6
<1> QED BY <1>2, <1>3

\* What nobody waits for: an event that is no news to the bot.
LEMMA UnheardKeeps ==
  ASSUME TurnsInv, NEW t \in Turns, NEW kind \in AllKinds, kind # "started", Tells(kind, t),
         UNCHANGED <<run, current, queue, missed, accepted>>,
         UNCHANGED <<work, stream, notes, fails>>
  PROVE  TurnsInv'
<1>1. /\ source \in Sources /\ source' \in Sources /\ \A u \in Turns \ {t} : source'[u] = source[u]
      /\ source[t].stage \in {"live", "final"} /\ source'[t].stage \in {"live", "final", "over"}
      /\ kind \in {"delta", "note"} => source'[t].stage = source[t].stage
      /\ kind = "final" => source'[t].stage = "final"
      /\ kind \in EndKinds => kind \in Ends /\ source'[t].stage = "over"
      /\ kind \in {"delta", "note", "final"} \cup EndKinds
  BY DEF Tells, TurnsInv, ArrivalTypes, AllKinds
<1>2. /\ \A u \in Turns : source'[u].stage # "none" <=> source[u].stage # "none"
      /\ \A u \in Turns : source[u].stage = "over" => source'[u].stage = "over"
      /\ \A u \in Turns : source[u].stage \in {"final", "over"} => source'[u].stage \in {"final", "over"}
  BY <1>1
<1>3. ArrivalTypes' /\ HandlingTypes' /\ CallRight'
  BY <1>1 DEF TurnsInv, ArrivalTypes, HandlingTypes, CallRight
<1>4. ASSUME NEW e \in Events, Genuine(e)
      PROVE  Genuine(e)'
  BY <1>2, <1>4 DEF Genuine, Events
<1>5. InOrder'
  <2>1. \A i \in DOMAIN queue' : Genuine(queue[i])'
    <3> SUFFICES ASSUME NEW i \in DOMAIN queue
                 PROVE  Genuine(queue[i])'
      OBVIOUS
    <3>1. PICK e \in Events : e = queue[i]
      BY DEF TurnsInv, ArrivalTypes
    <3>2. Genuine(e)
      BY <3>1 DEF TurnsInv, InOrder
    <3> QED BY <1>4, <3>1, <3>2 DEF Genuine
  <2>2. work' # Idle => Genuine(work.event)'
    <3> SUFFICES ASSUME work # Idle
                 PROVE  Genuine(work.event)'
      OBVIOUS
    <3>1. PICK e \in Events : e = work.event
      BY DEF TurnsInv, HandlingTypes
    <3>2. Genuine(e)
      BY <3>1 DEF TurnsInv, InOrder
    <3> QED BY <1>4, <3>1, <3>2 DEF Genuine
  <2> QED BY <1>2, <2>1, <2>2 DEF TurnsInv, InOrder
<1>6. ClaimRight'
  BY <1>2 DEF TurnsInv, ClaimRight, Owed
<1>7. OverBegan'
  BY <1>2 DEF TurnsInv, OverBegan
<1>8. NothingForgotten'
  <2> SUFFICES ASSUME NEW u \in Turns, Unhurt(u)'
               PROVE  /\ source'[u].stage # "none" /\ Before(u)' => Starting(u)' \/ run'[u].notified
                      /\ Reported(u, Reports)' => run'[u].notified \/ Pending(u)'
                      /\ Reported(u, Reports)' /\ run'[u].notified => notes'[u] = 1 \/ Owed(u)'
    BY DEF NothingForgotten
  <2>1. Unhurt(u)
    BY DEF Unhurt
  <2>2. /\ Before(u)' <=> Before(u)
        /\ Starting(u)' <=> Starting(u)
        /\ Pending(u)' <=> Pending(u)
        /\ Owed(u)' <=> Owed(u)
        /\ Reported(u, Reports)' <=> Reported(u, Reports)
    BY DEF Before, Starting, Pending, Owed, Reported
  <2> QED BY <1>2, <2>1, <2>2 DEF TurnsInv, NothingForgotten
<1> QED BY <1>3, <1>5, <1>6, <1>7, <1>8 DEF TurnsInv

\* An event that is news to the bot: it is of the newest turn, so it comes after
\* whatever is queued or in hand.
LEMMA HeardKeeps ==
  ASSUME TurnsInv, NEW t \in Turns, NEW kind \in AllKinds, NEW text \in Seq(Words), Tells(kind, t),
         UNCHANGED <<work, stream, notes, fails>>,
         run' \in Runs, current' = t, Enqueue(kind, t, text),
         \A u \in Turns : run'[u].notified = run[u].notified /\ run'[u].synced = run[u].synced,
         \A u \in Turns \ {t} : run'[u].status = run[u].status,
         current <= t, IF kind = "started" THEN current < t ELSE current = t
  PROVE  TurnsInv'
<1>1. /\ source \in Sources /\ source' \in Sources /\ \A u \in Turns \ {t} : source'[u] = source[u]
      /\ IF kind = "started"
         THEN /\ source[t].stage = "none" /\ source'[t].stage = "live"
              /\ \A u \in Turns : u < t => source[u].stage # "none"
         ELSE source[t].stage \in {"live", "final"} /\ source'[t].stage \in {"live", "final", "over"}
      /\ kind \in {"delta", "note"} => source'[t].stage = source[t].stage
      /\ kind = "final" => source'[t].stage = "final"
      /\ kind \in EndKinds => kind \in Ends /\ source'[t].stage = "over"
  BY DEF Tells, TurnsInv, ArrivalTypes
<1>2. /\ queue \in Seq(Events) /\ stream \in StreamRecord
      /\ \A u \in {0} \cup Turns : u \in Nat
      /\ current \in Nat /\ t \in Nat /\ stream.turn \in Nat /\ stream.turn <= current
      /\ \A u \in Turns : source[u].stage # "none" <=> u <= current
  BY TurnsAre DEF TurnsInv, ArrivalTypes, HandlingTypes, InOrder, StreamRecord
<1>3. /\ queue' \in Seq(Events)
      /\ \A i \in DOMAIN queue : /\ i \in DOMAIN queue'
                                 /\ queue'[i].kind = queue[i].kind
                                 /\ queue'[i].turn = queue[i].turn
      /\ \/ /\ DOMAIN queue' = DOMAIN queue /\ accepted' = accepted
            /\ missed \subseteq missed' /\ (kind = "delta" \/ t \in missed')
         \/ \E n \in DOMAIN queue' :
              /\ DOMAIN queue' = DOMAIN queue \cup {n} /\ \A i \in DOMAIN queue : i < n
              /\ queue'[n] = Event(kind, t, text) /\ missed' = missed
              /\ accepted' = IF kind \in {"final"} \cup Ends
                             THEN accepted \cup {<<t, kind>>} ELSE accepted
  BY <1>2, EnqueueIs
<1>4. \A i \in DOMAIN queue' :
        \/ i \in DOMAIN queue
        \/ /\ i \notin DOMAIN queue /\ queue'[i].kind = kind /\ queue'[i].turn = t
           /\ \A j \in DOMAIN queue' : j = i \/ j < i
           /\ kind \in {"final"} \cup EndKinds => <<t, kind>> \in accepted'
  <2>1. CASE DOMAIN queue' = DOMAIN queue
    BY <2>1
  <2>2. CASE DOMAIN queue' # DOMAIN queue
    <3>1. PICK n \in DOMAIN queue' :
            /\ DOMAIN queue' = DOMAIN queue \cup {n} /\ \A i \in DOMAIN queue : i < n
            /\ queue'[n] = Event(kind, t, text) /\ missed' = missed
            /\ accepted' = IF kind \in {"final"} \cup Ends
                           THEN accepted \cup {<<t, kind>>} ELSE accepted
      BY <1>3, <2>2
    <3>2. queue'[n].kind = kind /\ queue'[n].turn = t
      BY <3>1 DEF Event
    <3>3. kind \in {"final"} \cup EndKinds => <<t, kind>> \in accepted'
      BY <1>1, <3>1
    <3> QED BY <3>1, <3>2, <3>3
  <2> QED BY <2>1, <2>2
<1>5. /\ accepted \subseteq accepted' /\ accepted' \subseteq accepted \cup {<<t, kind>>}
      /\ kind \notin {"final"} \cup EndKinds => accepted' = accepted
      /\ missed \subseteq missed'
  BY <1>3, TurnsAre
<1>6. \A u \in Turns : source[u].stage = "over" => source'[u].stage = "over" /\ u # t
  BY <1>1
<1>7. \A u \in Turns : source'[u].stage # "none" <=> u <= current'
  <2> SUFFICES ASSUME NEW u \in Turns
               PROVE  source'[u].stage # "none" <=> u <= t
    OBVIOUS
  <2>1. u \in Nat
    BY <1>2
  <2>2. CASE u = t
    BY <1>1, <1>2, <2>2
  <2>3. CASE u # t
    <3>1. source'[u] = source[u]
      BY <1>1, <2>3
    <3>2. CASE kind = "started"
      <4>1. u < t => source[u].stage # "none"
        BY <1>1, <3>2
      <4>2. source[u].stage # "none" => u <= current
        BY <1>2
      <4> QED BY <1>2, <2>1, <2>3, <3>1, <4>1, <4>2
    <3>3. CASE kind # "started"
      BY <1>2, <3>1, <3>3
    <3> QED BY <3>2, <3>3
  <2> QED BY <2>2, <2>3
\* An event that was there is still genuine, and the new one comes after it.
<1>8. ASSUME NEW e \in Events, Genuine(e), NEW f \in Events, f.kind = e.kind, f.turn = e.turn
      PROVE  /\ Genuine(f)'
             /\ \A g \in Events : g.kind = kind /\ g.turn = t => Follows(f, g)
  <2>1. /\ e.turn \in Turns /\ e.turn \in Nat /\ e.turn <= current
        /\ e.kind \in EndKinds => source[e.turn].stage = "over"
    BY <1>2, <1>8 DEF Genuine, Events
  <2>2. Genuine(f)'
    BY <1>2, <1>5, <1>6, <1>8, <2>1 DEF Genuine
  <2>3. e.turn <= t /\ (kind = "started" \/ e.kind \in EndKinds => e.turn < t)
    <3>1. e.kind \in EndKinds => e.turn # t
      BY <1>6, <2>1
    <3>2. kind = "started" => current < t
      OBVIOUS
    <3> QED BY <1>2, <2>1, <3>1, <3>2
  <2> QED BY <1>8, <2>2, <2>3 DEF Follows
<1>9. ASSUME NEW g \in Events, g.kind = kind, g.turn = t,
             kind \in {"final"} \cup EndKinds => <<t, kind>> \in accepted'
      PROVE  Genuine(g)'
  BY <1>1, <1>2, <1>9 DEF Genuine
<1>10. \A i \in DOMAIN queue' : Genuine(queue[i])'
  <2> SUFFICES ASSUME NEW i \in DOMAIN queue'
               PROVE  Genuine(queue[i])'
    OBVIOUS
  <2>1. PICK f \in Events : f = queue'[i]
    BY <1>3
  <2>2. CASE i \in DOMAIN queue
    <3>1. PICK e \in Events : e = queue[i]
      BY <1>2, <2>2
    <3>2. Genuine(e) /\ f.kind = e.kind /\ f.turn = e.turn
      BY <1>3, <2>1, <2>2, <3>1 DEF TurnsInv, InOrder
    <3>3. Genuine(f)'
      BY <1>8, <3>2
    <3> QED BY <2>1, <3>3 DEF Genuine
  <2>3. CASE i \notin DOMAIN queue
    <3>1. Genuine(f)'
      BY <1>4, <1>9, <2>1, <2>3
    <3> QED BY <2>1, <3>1 DEF Genuine
  <2> QED BY <2>2, <2>3
<1>11. \A i, j \in DOMAIN queue' : i < j => Follows(queue'[i], queue'[j])
  <2> SUFFICES ASSUME NEW i \in DOMAIN queue', NEW j \in DOMAIN queue', i < j
               PROVE  Follows(queue'[i], queue'[j])
    OBVIOUS
  <2>1. i \in Nat /\ j \in Nat
    BY <1>3
  <2>2. i \in DOMAIN queue
    <3> SUFFICES ASSUME i \notin DOMAIN queue
                 PROVE  FALSE
      OBVIOUS
    <3>1. j = i \/ j < i
      BY <1>4
    <3> QED BY <2>1, <3>1
  <2>3. PICK e \in Events : e = queue[i]
    BY <1>2, <2>2
  <2>4. PICK f \in Events : f = queue'[i]
    BY <1>3
  <2>5. Genuine(e) /\ f.kind = e.kind /\ f.turn = e.turn
    BY <1>3, <2>2, <2>3, <2>4 DEF TurnsInv, InOrder
  <2>6. PICK g \in Events : g = queue'[j]
    BY <1>3
  <2>7. CASE j \in DOMAIN queue
    <3>1. Follows(queue[i], queue[j])
      BY <2>2, <2>7 DEF TurnsInv, InOrder
    <3> QED BY <1>3, <2>2, <2>7, <3>1 DEF Follows
  <2>8. CASE j \notin DOMAIN queue
    BY <1>4, <1>8, <2>4, <2>5, <2>6, <2>8
  <2> QED BY <2>7, <2>8
<1>12. work # Idle => /\ Genuine(work.event)'
                      /\ \A i \in DOMAIN queue' : Follows(work.event, queue'[i])
  <2> SUFFICES ASSUME work # Idle
               PROVE  /\ Genuine(work.event)'
                      /\ \A i \in DOMAIN queue' : Follows(work.event, queue'[i])
    OBVIOUS
  <2>1. PICK e \in Events : e = work.event
    BY DEF TurnsInv, HandlingTypes
  <2>2. Genuine(e) /\ \A i \in DOMAIN queue : Follows(e, queue[i])
    BY <2>1 DEF TurnsInv, InOrder
  <2>3. Genuine(e)' /\ \A g \in Events : g.kind = kind /\ g.turn = t => Follows(e, g)
    BY <1>8, <2>2
  <2>4. \A i \in DOMAIN queue' : Follows(e, queue'[i])
    <3> SUFFICES ASSUME NEW i \in DOMAIN queue'
                 PROVE  Follows(e, queue'[i])
      OBVIOUS
    <3>1. PICK g \in Events : g = queue'[i]
      BY <1>3
    <3>2. CASE i \in DOMAIN queue
      BY <1>3, <2>2, <3>2 DEF Follows
    <3>3. CASE i \notin DOMAIN queue
      BY <1>4, <2>3, <3>1, <3>3
    <3> QED BY <3>2, <3>3
  <2>5. Genuine(work.event)'
    BY <2>1, <2>3 DEF Genuine
  <2> QED BY <2>1, <2>4, <2>5
<1>13. InOrder'
  <2>1. stream'.turn <= current'
    BY <1>2
  <2> QED BY <1>7, <1>10, <1>11, <1>12, <2>1 DEF InOrder
<1>14. ArrivalTypes' /\ HandlingTypes' /\ CallRight'
  <2>1. accepted' \subseteq Turns \X ({"final"} \cup EndKinds)
    BY <1>5 DEF TurnsInv, ArrivalTypes
  <2> QED BY <1>1, <1>3, <2>1 DEF TurnsInv, ArrivalTypes, HandlingTypes, CallRight
<1>15. \A u \in Turns : Owed(u)' <=> Owed(u)
  BY DEF Owed
<1>16. \A u \in Turns : run[u].notified => <<u, "final">> \in accepted \/ source[u].stage = "over"
  BY DEF TurnsInv, ClaimRight
<1>17. ClaimRight'
  <2>1. ASSUME NEW u \in Turns
        PROVE  /\ notes'[u] <= 1 /\ (Owed(u)' => notes'[u] = 0)
               /\ notes'[u] # 0 \/ Owed(u)' \/ run'[u].synced => run'[u].notified
               /\ run'[u].notified => <<u, "final">> \in accepted' \/ source'[u].stage = "over"
               /\ <<u, "final">> \in accepted' => source'[u].stage \in {"final", "over"}
    <3>1. /\ notes[u] <= 1 /\ (Owed(u) => notes[u] = 0)
          /\ notes[u] # 0 \/ Owed(u) \/ run[u].synced => run[u].notified
          /\ run[u].notified => <<u, "final">> \in accepted \/ source[u].stage = "over"
          /\ <<u, "final">> \in accepted => source[u].stage \in {"final", "over"}
      BY DEF TurnsInv, ClaimRight
    <3>2. <<u, "final">> \in accepted' => source'[u].stage \in {"final", "over"}
      <4>1. CASE <<u, "final">> \in accepted
        <5>1. CASE u # t
          BY <1>1, <3>1, <4>1, <5>1
        <5>2. CASE u = t
          <6>1. source[t].stage \in {"final", "over"}
            BY <3>1, <4>1, <5>2
          <6> QED BY <1>1, <5>2, <6>1 DEF AllKinds
        <5> QED BY <5>1, <5>2
      <4>2. CASE <<u, "final">> \notin accepted
        <5> SUFFICES ASSUME <<u, "final">> \in accepted'
                     PROVE  source'[u].stage \in {"final", "over"}
          OBVIOUS
        <5>1. u = t /\ kind = "final"
          BY <1>5, <4>2
        <5> QED BY <1>1, <5>1
      <4> QED BY <4>1, <4>2
    <3> QED BY <1>5, <1>6, <1>15, <3>1, <3>2
  <2>2. stream'.told => stream'.turn # 0 /\ run'[stream'.turn].notified
    <3>1. stream.turn \in {0} \cup Turns
      BY <1>2 DEF StreamRecord
    <3> QED BY <3>1 DEF TurnsInv, ClaimRight
  <2> QED BY <2>1, <2>2 DEF ClaimRight
<1>18. OverBegan'
  <2>1. source'[t].stage # "none"
    BY <1>1
  <2> QED BY <1>1, <2>1 DEF TurnsInv, OverBegan
<1>19. \A u \in Turns : /\ Starting(u) => Starting(u)'
                        /\ Pending(u) => Pending(u)'
                        /\ u # t => (Starting(u)' <=> Starting(u))
  <2> SUFFICES ASSUME NEW u \in Turns
               PROVE  /\ Starting(u) => Starting(u)'
                      /\ Pending(u) => Pending(u)'
                      /\ u # t => (Starting(u)' <=> Starting(u))
    OBVIOUS
  <2>1. Starting(u) => Starting(u)'
    BY <1>3 DEF Starting
  <2>2. Pending(u) => Pending(u)'
    BY <1>3 DEF Pending
  <2>3. u # t => (Starting(u)' => Starting(u))
    BY <1>3, <1>4 DEF Starting
  <2> QED BY <2>1, <2>2, <2>3
<1>20. \A u \in Turns : u # t => (Reported(u, Reports)' <=> Reported(u, Reports))
  BY <1>5 DEF Reported
<1>21. ASSUME NEW u \in Turns, Unhurt(u)'
       PROVE  /\ source'[u].stage # "none" /\ Before(u)' => Starting(u)' \/ run'[u].notified
              /\ Reported(u, Reports)' => run'[u].notified \/ Pending(u)'
              /\ Reported(u, Reports)' /\ run'[u].notified => notes'[u] = 1 \/ Owed(u)'
  <2>1. Unhurt(u) /\ u \notin missed'
    BY <1>5, <1>21 DEF Unhurt
  <2>2. /\ source[u].stage # "none" /\ Before(u) => Starting(u) \/ run[u].notified
        /\ Reported(u, Reports) => run[u].notified \/ Pending(u)
        /\ Reported(u, Reports) /\ run[u].notified => notes[u] = 1 \/ Owed(u)
    BY <2>1 DEF TurnsInv, NothingForgotten
  <2>3. u <= t /\ Before(u)' => Before(u)
    <3> SUFFICES ASSUME u <= t, Before(u)'
                 PROVE  Before(u)
      OBVIOUS
    <3>1. \A v \in Turns : v < u => v # t
      BY <1>2
    <3> QED BY <1>19, <3>1 DEF Before
  <2>4. CASE u # t
    <3>1. source'[u] = source[u] /\ (source'[u].stage # "none" => u <= t)
      BY <1>1, <1>7, <2>4
    <3> QED BY <1>15, <1>19, <1>20, <2>2, <2>3, <2>4, <3>1
  <2>5. CASE u = t
    <3>1. kind # "delta" =>
            /\ \E n \in DOMAIN queue' : queue'[n] = Event(kind, t, text)
            /\ accepted' = IF kind \in {"final"} \cup Ends
                           THEN accepted \cup {<<t, kind>>} ELSE accepted
      BY <1>3, <2>1, <2>5
    <3>2. kind # "delta" => \E n \in DOMAIN queue' : queue'[n].kind = kind /\ queue'[n].turn = t
      BY <3>1 DEF Event
    <3>3. source'[u].stage # "none" /\ Before(u)' => Starting(u)' \/ run'[u].notified
      <4>1. CASE kind = "started"
        <5>1. Starting(t)'
          BY <3>2, <4>1 DEF Starting
        <5> QED BY <2>5, <5>1
      <4>2. CASE kind # "started"
        <5>1. source[u].stage # "none"
          BY <1>1, <2>5, <4>2
        <5> QED BY <1>2, <1>19, <2>2, <2>3, <2>5, <5>1
      <4> QED BY <4>1, <4>2
    <3>4. CASE Reported(u, Reports)
      BY <1>15, <1>19, <2>2, <3>3, <3>4
    <3>5. CASE ~Reported(u, Reports) /\ Reported(u, Reports)'
      <4>1. kind \in Reports
        BY <1>5, <3>5 DEF Reported
      <4>2. Pending(u)'
        BY <2>5, <3>2, <4>1 DEF Pending, Reports
      <4>3. ~run[u].notified
        <5>1. <<u, "final">> \notin accepted
          BY <3>5 DEF Reported, Reports
        <5>2. source[u].stage # "over"
          BY <1>6, <2>5
        <5> QED BY <1>16, <5>1, <5>2
      <4> QED BY <3>3, <4>2, <4>3
    <3>6. CASE ~Reported(u, Reports)'
      BY <3>3, <3>6
    <3> QED BY <3>4, <3>5, <3>6
  <2> QED BY <2>4, <2>5
<1>22. NothingForgotten'
  BY <1>21 DEF NothingForgotten
<1> QED BY <1>13, <1>14, <1>17, <1>18, <1>22 DEF TurnsInv

\* Whatever the provider tells.
LEMMA PublishKeeps ==
  ASSUME TurnsInv, NEW t \in Turns, NEW kind \in AllKinds, NEW text \in Seq(Words),
         Tells(kind, t), Publish(kind, t, text)
  PROVE  TurnsInv'
<1>1. UNCHANGED <<work, stream, notes, fails>>
  BY DEF Publish, handling
<1>2. CASE /\ kind # "started" /\ ~Concerns(kind, t)
           /\ UNCHANGED <<run, current, queue, missed, accepted>>
  BY <1>1, <1>2, UnheardKeeps
<1>3. CASE /\ run' \in Runs /\ current' = t /\ Enqueue(kind, t, text)
           /\ \A u \in Turns : /\ run'[u].notified = run[u].notified
                               /\ run'[u].synced = run[u].synced
           /\ \A u \in Turns \ {t} : run'[u].status = run[u].status
           /\ current \in Nat /\ current <= t
           /\ IF kind = "started" THEN current < t ELSE current = t
  BY <1>1, <1>3, HeardKeeps
<1> QED BY <1>2, <1>3, ConcernsIs

\* The provider's steps.
LEMMA ProviderKeeps == TurnsInv /\ Provider => TurnsInv'
<1> SUFFICES ASSUME TurnsInv, NEW t \in Turns,
                    \/ Starts(t) \/ Streams(t) \/ Remarks(t) \/ Answers(t)
                    \/ \E how \in Ends : Finishes(t, how)
             PROVE  TurnsInv'
  BY DEF Provider
<1>1. /\ source \in Sources /\ Ends \subseteq EndKinds /\ Answer \in Seq(Words)
      /\ <<>> \in Seq(Words) /\ <<"note">> \in Seq(Words)
  <2>1. source \in Sources /\ Ends \subseteq EndKinds /\ Answer \in Seq(Words)
    BY TurnsAre DEF TurnsInv, ArrivalTypes
  <2>2. <<>> \in Seq(Words) /\ <<"note">> \in Seq(Words)
    <3>1. "note" \in Words
      BY DEF Words
    <3> QED BY <3>1
  <2> QED BY <2>1, <2>2
<1>2. CASE Starts(t)
  <2>1. /\ source[t].stage = "none" /\ \A u \in Turns : u < t => source[u].stage # "none"
        /\ source' = [source EXCEPT ![t].stage = "live"] /\ Publish("started", t, <<>>)
    BY <1>2 DEF Starts
  <2>2. /\ source' \in Sources /\ source'[t].stage = "live"
        /\ \A u \in Turns \ {t} : source'[u] = source[u]
    BY <1>1, <2>1 DEF Sources
  <2>3. Tells("started", t)
    BY <2>1, <2>2 DEF Tells, EndKinds
  <2>4. "started" \in AllKinds
    BY DEF AllKinds
  <2> QED BY <1>1, <2>1, <2>3, <2>4, PublishKeeps
<1>3. CASE Streams(t)
  <2>1. /\ source[t].stage = "live" /\ source[t].pieces < Len(Answer)
        /\ source' = [source EXCEPT ![t].pieces = @ + 1]
        /\ Publish("delta", t, <<Answer[source[t].pieces + 1]>>)
    BY <1>3 DEF Streams
  <2>2. PICK p \in Nat : p = source[t].pieces
    BY <1>1 DEF Sources
  <2>3. PICK text : text = <<Answer[p + 1]>>
    OBVIOUS
  <2>4. text \in Seq(Words) /\ Publish("delta", t, text)
    BY <1>1, <2>1, <2>2, <2>3
  <2>5. /\ source' \in Sources /\ source'[t].stage = source[t].stage
        /\ \A u \in Turns \ {t} : source'[u] = source[u]
    BY <1>1, <2>1 DEF Sources
  <2>6. Tells("delta", t)
    BY <2>1, <2>5 DEF Tells, EndKinds
  <2>7. "delta" \in AllKinds
    BY DEF AllKinds
  <2> QED BY <2>4, <2>6, <2>7, PublishKeeps
<1>4. CASE Remarks(t)
  <2>1. /\ source[t].stage = "live" /\ source' = [source EXCEPT ![t].noted = TRUE]
        /\ Publish("note", t, <<"note">>)
    BY <1>4 DEF Remarks
  <2>2. /\ source' \in Sources /\ source'[t].stage = source[t].stage
        /\ \A u \in Turns \ {t} : source'[u] = source[u]
    BY <1>1, <2>1 DEF Sources
  <2>3. Tells("note", t)
    BY <2>1, <2>2 DEF Tells, EndKinds
  <2>4. "note" \in AllKinds
    BY DEF AllKinds
  <2> QED BY <1>1, <2>1, <2>3, <2>4, PublishKeeps
<1>5. CASE Answers(t)
  <2>1. /\ source[t].stage = "live" /\ Publish("final", t, Answer)
        /\ source' = [source EXCEPT ![t].stage = "final", ![t].pieces = Len(Answer)]
    BY <1>5 DEF Answers
  <2>2. PICK p \in Nat : p = Len(Answer)
    BY <1>1
  <2>3. source' = [source EXCEPT ![t].stage = "final", ![t].pieces = p]
    BY <2>1, <2>2
  <2>4. source' \in Sources
    BY <1>1, <2>3 DEF Sources
  <2>5. source'[t].stage = "final"
    BY <1>1, <2>3 DEF Sources
  <2>6. \A u \in Turns \ {t} : source'[u] = source[u]
    BY <1>1, <2>3 DEF Sources
  <2>7. Tells("final", t)
    BY <2>1, <2>4, <2>5, <2>6 DEF Tells, EndKinds
  <2>8. "final" \in AllKinds
    BY DEF AllKinds
  <2> QED BY <1>1, <2>1, <2>7, <2>8, PublishKeeps
<1>6. CASE \E how \in Ends : Finishes(t, how)
  <2>1. PICK how \in Ends : Finishes(t, how)
    BY <1>6
  <2>2. /\ source[t].stage \in {"live", "final"} /\ Publish(how, t, <<>>)
        /\ source' = [source EXCEPT ![t].stage = "over"]
    BY <2>1 DEF Finishes
  <2>3. /\ source' \in Sources /\ source'[t].stage = "over"
        /\ \A u \in Turns \ {t} : source'[u] = source[u]
    BY <1>1, <2>2 DEF Sources
  <2>4. how \in EndKinds /\ how \in AllKinds
    BY <1>1 DEF AllKinds
  <2>5. Tells(how, t)
    BY <2>2, <2>3, <2>4 DEF Tells, EndKinds
  <2> QED BY <1>1, <2>2, <2>4, <2>5, PublishKeeps
<1> QED BY <1>2, <1>3, <1>4, <1>5, <1>6

-----------------------------------------------------------------------------
(* The theorems.                                                           *)

\* Nothing has begun.
LEMMA InitTurns == Init => TurnsInv
<1> SUFFICES ASSUME Init
             PROVE  TurnsInv
  OBVIOUS
<1>1. /\ \A t \in Turns : t \in Nat /\ t # 0
      /\ Idle.call = "" /\ Idle.event.kind = "none" /\ stream.turn = 0 /\ ~stream.told
  BY TurnsAre DEF Init, Idle, NoEvent, NoStream
<1>2. /\ source = [t \in Turns |-> [stage |-> "none", pieces |-> 0, noted |-> FALSE]]
      /\ run = [t \in Turns |-> [status |-> "none", synced |-> FALSE, notified |-> FALSE]]
      /\ current = 0 /\ queue = <<>> /\ accepted = {} /\ work = Idle
      /\ stream = NoStream /\ notes = [t \in Turns |-> 0] /\ fails = 0
  BY DEF Init
<1>3. ArrivalTypes /\ HandlingTypes
  <2>1. source \in Sources /\ run \in Runs
    BY <1>2 DEF Sources, Runs
  <2>2. stream \in StreamRecord
    BY <1>2 DEF StreamRecord, NoStream
  <2> QED BY <1>2, <2>1, <2>2 DEF ArrivalTypes, HandlingTypes
<1>4. InOrder
  <2>1. \A t \in Turns : source[t].stage # "none" <=> t <= current
    <3>1. \A t \in Turns : source[t].stage = "none"
      BY <1>2
    <3>2. \A t \in Turns : ~(t <= current)
      <4>1. current = 0 /\ \A t \in Turns : t \in Nat /\ t # 0
        BY <1>2, TurnsAre
      <4> QED BY <4>1
    <3> QED BY <3>1, <3>2
  <2>2. DOMAIN queue = {} /\ stream.turn <= current
    <3>1. queue = <<>> /\ stream.turn = 0 /\ current = 0
      BY <1>1, <1>2
    <3> QED BY <3>1
  <2> QED BY <1>2, <2>1, <2>2 DEF InOrder
<1>5. CallRight
  BY <1>1, <1>2 DEF CallRight
<1>6. ClaimRight
  <2>1. \A t \in Turns : ~Owed(t)
    BY <1>1, <1>2 DEF Owed
  <2>2. \A t \in Turns : notes[t] = 0 /\ ~run[t].synced /\ ~run[t].notified
    BY <1>2
  <2>3. accepted = {} /\ ~stream.told
    BY <1>1, <1>2
  <2> QED BY <2>1, <2>2, <2>3 DEF ClaimRight
<1>7. NothingForgotten
  BY <1>2 DEF NothingForgotten, Reported
<1>8. OverBegan
  BY <1>2 DEF OverBegan
<1> QED BY <1>3, <1>4, <1>5, <1>6, <1>7, <1>8 DEF TurnsInv

\* Every step keeps the invariant.
LEMMA NextTurns == TurnsInv /\ [Next]_vars => TurnsInv'
<1> SUFFICES ASSUME TurnsInv, [Next]_vars
             PROVE  TurnsInv'
  OBVIOUS
<1>1. CASE Provider
  BY <1>1, ProviderKeeps
<1>2. CASE Consumer
  BY <1>2, IgnoreKeeps, TakeStartedKeeps, TakeDeltaKeeps, TakeNoteKeeps, TakeFinalKeeps, TakeEndKeeps,
     ReplacedKeeps, PlacedKeeps, ClearedKeeps, SwitchedKeeps, ShownKeeps, ClosedKeeps, NotifiedKeeps
     DEF Consumer
<1>3. CASE Throttle
  BY <1>3, LoopKeeps
<1>4. CASE Restart
  BY <1>4, RestartKeeps
<1>5. CASE Retried \/ Lands \/ UNCHANGED vars
  <2>1. UNCHANGED <<arrival, work, stream, notes, fails>>
    BY <1>5 DEF Retried, Retries, Lands, vars, handling
  <2>2. fails' \in Nat /\ (fails' = 0 => fails = 0)
    BY <2>1 DEF TurnsInv, HandlingTypes
  <2> QED BY <2>1, <2>2, SameKeeps
<1> QED BY <1>1, <1>2, <1>3, <1>4, <1>5 DEF Next

\* The invariant of the topic's turns: the queue holds events of turns in their
\* order, a claim is made once, and a report is pending until it is claimed.
THEOREM TopicTurnsInvariant == Spec => []TurnsInv
BY InitTurns, NextTurns, PTL DEF Spec

\* At most one notification tells the end of a turn, whichever of its events, calls
\* and restarts come in whatever order.
THEOREM NotifiedAtMostOnce == Spec => []NotifiedOnce
<1>1. TurnsInv => NotifiedOnce
  BY DEF TurnsInv, ClaimRight, NotifiedOnce
<1> QED BY <1>1, TopicTurnsInvariant, PTL

\* A turn whose end was reported has been announced when nothing is under way, unless
\* one of its events was lost or a call failed.
THEOREM EndIsAnnounced == Spec => []EndAnnounced
<1>1. TurnsInv => EndAnnounced
  <2> SUFFICES ASSUME TurnsInv, AtRest, fails = 0, NEW t \in Turns \ missed,
                      Reported(t, Reports)
               PROVE  notes[t] = 1
    BY DEF EndAnnounced, Reports
  <2>1. Unhurt(t)
    BY DEF Unhurt
  <2>2. queue = <<>> /\ work = Idle
    BY DEF AtRest
  <2>3. Idle.event.kind = "none" /\ Idle.call = ""
    BY DEF Idle, NoEvent
  <2>4. ~Pending(t) /\ ~Owed(t)
    <3>1. DOMAIN queue = {}
      BY <2>2
    <3>2. work.event.kind = "none" /\ work.call = ""
      BY <2>2, <2>3
    <3> QED BY <3>1, <3>2 DEF Pending, Owed, Reports
  <2> QED BY <2>1, <2>4 DEF TurnsInv, NothingForgotten
<1> QED BY <1>1, TopicTurnsInvariant, PTL

-----------------------------------------------------------------------------
(* What the topic shows of a turn's answer.                                *)

Queued(kind, t) == \E i \in DOMAIN queue : queue[i].kind = kind /\ queue[i].turn = t

\* Text is not empty, and a final answer is the answer.
Carries(e) == (e.kind \in {"delta", "note"} => e.text # <<>>) /\ (e.kind = "final" => e.text = Answer)

TextsRight == Carries(work.event) /\ \A i \in DOMAIN queue : Carries(queue[i])

\* Text may join the last event only; behind a turn's final answer only its end
\* comes, and before it some of its text came.
FinalLast ==
  /\ lastDelta # 0 =>
       queue # <<>> /\ queue[Len(queue)].kind = "delta" /\ queue[Len(queue)].turn = lastDelta
  /\ \A i, j \in DOMAIN queue :
       i < j /\ queue[i].kind = "final" /\ queue[j].turn = queue[i].turn => queue[j].kind \in EndKinds
  /\ work.event.kind = "final" =>
       \A i \in DOMAIN queue : queue[i].turn = work.event.turn => queue[i].kind \in EndKinds
  /\ \A t \in Turns : <<t, "final">> \in accepted => source[t].pieces > 0

\* No text comes for a stream that is done.
DoneQuiet == stream.done =>
  /\ stream.turn # 0 /\ ~Queued("delta", stream.turn)
  /\ source[stream.turn].stage # "live" \/ current # stream.turn

\* The loop runs beside nothing else of the consumer, for a stream with text.
LoopRight ==
  /\ loop \in [stage : {"off", "due", "editing", "sleeping"}, text : Seq(Words)]
  /\ loop # LoopOff => /\ work = Idle /\ stream.turn # 0 /\ stream.moved /\ ~stream.done
                       /\ stream.buffer # <<>>
  /\ loop.stage = "editing" => loop.text # <<>>

Places == {"wait", "body", "note", "reply"}

Untouched(t) == \A place \in Places : topic[<<t, place>>] = Gone
Asides(t)    == topic[<<t, "note">>] = Gone /\ topic[<<t, "reply">>] = Gone

\* A turn that nothing was lost of and no call failed for: it may still get an
\* answer, or has got one.
Matters(t) ==
  /\ Unhurt(t)
  /\ \/ source[t].stage = "none"
     \/ source[t].stage = "live" /\ current = t
     \/ <<t, "final">> \in accepted

\* Its start is still to be handled, and what was told of it since.
Ahead(t) ==
  /\ Untouched(t) /\ stream.turn # t /\ ~run[t].synced
  /\ source[t].stage # "none" => Starting(t)
  /\ work.event.turn = t => work.event.kind = "started" /\ work.call \in {"replace", "place"}
  /\ source[t].pieces > 0 => Queued("delta", t)
  /\ <<t, "final">> \in accepted => Queued("final", t)

\* The stream has its own message, and not the placeholder any more.
Own == stream.moved /\ work.call \notin {"clear", "switch"}

MessageRight(t) ==
  /\ work.call \in {"clear", "switch"} => stream.moved
  /\ stream.msg = IF Own THEN "body" ELSE "wait"
  /\ topic[<<t, "body">>] # Gone <=> Own
  /\ topic[<<t, "wait">>] # Gone <=> ~Own /\ work.call # "switch"

\* The message is about to become the answer.
Editing(t) ==
  /\ work.event.kind = "final" /\ work.event.turn = t /\ work.call = "edit"
  /\ stream.moved /\ stream.buffer = Answer

\* It streams.
Open(t) ==
  /\ stream.turn = t /\ ~stream.done /\ Asides(t) /\ MessageRight(t)
  /\ work.call \in {"", "clear", "switch", "edit"}
  /\ work.call = "edit" => stream.buffer # <<>>
  /\ source[t].pieces > 0 => stream.moved \/ Queued("delta", t)
  /\ <<t, "final">> \in accepted => Queued("final", t) \/ Editing(t)

\* The answer stands in the topic, and nothing that comes changes that but an edit given up.
Answered(t) ==
  /\ <<t, "final">> \in accepted
  /\ Holds(<<t, "body">>) /\ topic[<<t, "wait">>] = Gone /\ Asides(t)
  /\ \A i \in DOMAIN queue : queue[i].turn = t => queue[i].kind \in EndKinds
  /\ work.event.turn = t => work.call = "notify"
  /\ stream.turn = t =>
       stream.done /\ stream.moved /\ stream.buffer = Answer /\ work.call \in {"", "notify"}

Stands(t) == Ahead(t) \/ Open(t) \/ Answered(t)

TopicTypes == topic = [m \in Messages |-> topic[m]]

Around == TopicTypes /\ TextsRight /\ FinalLast /\ DoneQuiet /\ LoopRight

ShownInv == Around /\ \A t \in Turns : Matters(t) => Stands(t)

\* A turn that began, and that nothing is to be shown of any more.
Lost(t) == source[t].stage # "none" /\ ~Matters(t)

\* A call that is carried out late changes the text of a message at most, or it is for
\* a turn that is lost.
Harmless(a) ==
  \E n, place :
    /\ a.msg = <<n, place>>
    /\ (~a.new /\ a.text # Gone) \/ (n \in Turns => Lost(n))

DriftRight == \A a \in adrift : Harmless(a)

\* Of each turn's final answer some text was told before.
TextFirst == Streamed /\ Answer # <<>>

-----------------------------------------------------------------------------
(* A step of the consumer about e, and the turns it is not about.          *)

Consumes(e) ==
  /\ Handles(e) /\ (work # Idle => lastDelta' = lastDelta)
  /\ UNCHANGED <<source, current, accepted, missed, overtook>>
  /\ fails' = 0 => fails = 0
  /\ work' = Idle \/ work'.event = e

LEMMA IdleIs == Idle.call = "" /\ Idle.event.kind = "none" /\ Idle.event.turn = 0
BY DEF Idle, NoEvent

\* A queue's last event stays its last.
LEMMA TailLast ==
  ASSUME NEW S, NEW q \in Seq(S), Len(q) > 1, NEW r, r = Tail(q)
  PROVE  r # <<>> /\ r[Len(r)] = q[Len(q)]
<1>1. PICK n \in Nat : n = Len(q) /\ n > 1
  OBVIOUS
<1>2. Len(r) = n - 1 /\ \A i \in 1 .. n - 1 : r[i] = q[i + 1]
  BY <1>1
<1>3. PICK m \in Nat : m = n - 1 /\ m >= 1
  BY <1>1
<1>4. m \in 1 .. n - 1 /\ m + 1 = n /\ m # 0
  BY <1>1, <1>3
<1>5. Len(r) = m /\ r[m] = q[n] /\ Len(r) # 0
  BY <1>2, <1>3, <1>4
<1>6. r # <<>>
  <2>1. Len(<<>>) = 0
    OBVIOUS
  <2> QED BY <1>5, <2>1, Zenon
<1> QED BY <1>1, <1>5, <1>6, Zenon

\* What it leaves in the queue.
LEMMA QueueKept ==
  ASSUME TurnsInv, Around, NEW e, Consumes(e)
  PROVE  /\ FinalLast' /\ TextsRight' /\ Carries(e)
         /\ \A kind, t : Queued(kind, t)' => Queued(kind, t)
         /\ \A kind, t : Queued(kind, t) => Queued(kind, t)' \/ (kind = e.kind /\ t = e.turn)
         /\ e.kind = "final" =>
              \A i \in DOMAIN queue' : queue'[i].turn = e.turn => queue'[i].kind \in EndKinds
<1>0. /\ queue \in Seq(Events) /\ Handles(e) /\ UNCHANGED <<source, current, accepted>>
      /\ work' = Idle \/ work'.event = e
  BY DEF TurnsInv, ArrivalTypes, Consumes
<1>1. /\ \A i \in DOMAIN queue' : \E j \in DOMAIN queue : queue'[i] = queue[j]
      /\ \A j \in DOMAIN queue : queue[j] = e \/ \E i \in DOMAIN queue' : queue'[i] = queue[j]
      /\ work = Idle => \E j \in DOMAIN queue : queue[j] = e
      /\ work # Idle => work.event = e /\ queue' = queue /\ lastDelta' = lastDelta
  BY <1>0, HandlesIs DEF Handles, Consumes
<1>2. Carries(e)
  BY <1>1 DEF Around, TextsRight
<1>3. TextsRight'
  <2>1. Carries(work'.event)
    BY <1>0, <1>2, IdleIs DEF Carries
  <2> QED BY <1>1, <2>1 DEF Around, TextsRight, Carries
<1>4. ASSUME work = Idle
      PROVE  /\ Len(queue) \in Nat /\ Len(queue) >= 1 /\ DOMAIN queue = 1 .. Len(queue)
             /\ Len(queue') = Len(queue) - 1 /\ DOMAIN queue' = 1 .. Len(queue) - 1
             /\ queue[1] = e
             /\ \A i \in DOMAIN queue' : queue'[i] = queue[i + 1]
             /\ lastDelta' = IF Len(queue) = 1 THEN 0 ELSE lastDelta
  <2>1. queue # <<>> /\ e = Head(queue) /\ queue' = Tail(queue)
        /\ lastDelta' = IF Len(queue) = 1 THEN 0 ELSE lastDelta
    BY <1>0, <1>4 DEF Handles, Took
  <2>2. /\ Len(queue) \in Nat /\ Len(queue) >= 1 /\ DOMAIN queue = 1 .. Len(queue)
        /\ e = queue[1] /\ Len(queue') = Len(queue) - 1
        /\ DOMAIN queue' = 1 .. Len(queue) - 1
        /\ \A i \in 1 .. Len(queue) - 1 : queue'[i] = queue[i + 1]
    BY <1>0, <2>1
  <2> QED BY <2>1, <2>2
<1>5. e.kind = "final" =>
        \A i \in DOMAIN queue' : queue'[i].turn = e.turn => queue'[i].kind \in EndKinds
  <2>1. CASE work = Idle
    <3> SUFFICES ASSUME e.kind = "final", NEW i \in DOMAIN queue', queue'[i].turn = e.turn
                 PROVE  queue'[i].kind \in EndKinds
      OBVIOUS
    <3>1. 1 \in DOMAIN queue /\ i + 1 \in DOMAIN queue /\ 1 < i + 1
      BY <1>4, <2>1
    <3>2. queue[1].kind = "final" /\ queue[i + 1].turn = queue[1].turn /\ queue'[i] = queue[i + 1]
      BY <1>4, <2>1
    <3> QED BY <3>1, <3>2 DEF Around, FinalLast
  <2>2. CASE work # Idle
    BY <1>1, <2>2 DEF Around, FinalLast
  <2> QED BY <2>1, <2>2
<1>6. FinalLast'
  <2>1. lastDelta' # 0 =>
          queue' # <<>> /\ queue'[Len(queue')].kind = "delta" /\ queue'[Len(queue')].turn = lastDelta'
    <3>1. CASE work = Idle
      <4> SUFFICES ASSUME lastDelta' # 0
                   PROVE  queue' # <<>> /\ queue'[Len(queue')] = queue[Len(queue)] /\ lastDelta' = lastDelta
        BY DEF Around, FinalLast
      <4>1. queue' = Tail(queue) /\ lastDelta' = lastDelta
        BY <1>0, <3>1 DEF Handles, Took
      <4>2. PICK q, r : q = queue /\ r = queue' /\ q \in Seq(Events) /\ r = Tail(q)
        BY <1>0, <4>1
      <4>3. Len(q) > 1
        BY <1>4, <3>1, <4>2
      <4>4. r # <<>> /\ r[Len(r)] = q[Len(q)]
        BY <4>2, <4>3, TailLast
      <4> QED BY <4>1, <4>2, <4>4
    <3>2. CASE work # Idle
      BY <1>1, <3>2 DEF Around, FinalLast
    <3> QED BY <3>1, <3>2
  <2>2. \A i, j \in DOMAIN queue' :
          i < j /\ queue'[i].kind = "final" /\ queue'[j].turn = queue'[i].turn => queue'[j].kind \in EndKinds
    <3>1. CASE work = Idle
      <4> SUFFICES ASSUME NEW i \in DOMAIN queue', NEW j \in DOMAIN queue', i < j,
                          queue'[i].kind = "final", queue'[j].turn = queue'[i].turn
                   PROVE  queue'[j].kind \in EndKinds
        OBVIOUS
      <4>1. i + 1 \in DOMAIN queue /\ j + 1 \in DOMAIN queue /\ i + 1 < j + 1
        BY <1>4, <3>1
      <4>2. queue'[i] = queue[i + 1] /\ queue'[j] = queue[j + 1]
        BY <1>4, <3>1
      <4> QED BY <4>1, <4>2 DEF Around, FinalLast
    <3>2. CASE work # Idle
      BY <1>1, <3>2 DEF Around, FinalLast
    <3> QED BY <3>1, <3>2
  <2>3. work'.event.kind = "final" =>
          \A i \in DOMAIN queue' : queue'[i].turn = work'.event.turn => queue'[i].kind \in EndKinds
    BY <1>0, <1>5, IdleIs
  <2>4. \A t \in Turns : <<t, "final">> \in accepted' => source'[t].pieces > 0
    BY <1>0 DEF Around, FinalLast
  <2> QED BY <2>1, <2>2, <2>3, <2>4 DEF FinalLast
<1>7. /\ \A kind, t : Queued(kind, t)' => Queued(kind, t)
      /\ \A kind, t : Queued(kind, t) => Queued(kind, t)' \/ (kind = e.kind /\ t = e.turn)
  BY <1>1 DEF Queued
<1> QED BY <1>2, <1>3, <1>5, <1>6, <1>7

\* A stream that is done, or is made so by the step, gets no more text.
LEMMA DoneKept ==
  ASSUME TurnsInv, Around, NEW e, Consumes(e),
         stream'.done =>
           /\ stream'.turn = stream.turn
           /\ \/ stream.done
              \/ e.kind = "started" /\ stream.turn \notin {0, e.turn}
              \/ e.kind \in {"final"} \cup EndKinds /\ stream.turn = e.turn
  PROVE  DoneQuiet'
<1> SUFFICES ASSUME stream'.done
             PROVE  /\ stream.turn # 0 /\ ~Queued("delta", stream.turn)'
                    /\ source[stream.turn].stage # "live" \/ current # stream.turn
  BY DEF DoneQuiet, Queued, Consumes
<1>1. /\ e \in Events /\ Genuine(e) /\ queue' \in Seq(Events)
      /\ \A i \in DOMAIN queue' : Follows(e, queue'[i])
      /\ e.turn \in Nat /\ e.turn \in Turns /\ e.turn # 0 /\ stream.turn \in Nat /\ current \in Nat
      /\ \A i \in DOMAIN queue' : queue'[i].turn \in Nat
  <2>1. /\ e \in Events /\ Genuine(e) /\ queue' \in Seq(Events)
        /\ \A i \in DOMAIN queue' : Follows(e, queue'[i])
    BY HandlesIs DEF Consumes
  <2>2. e.turn \in Turns /\ stream.turn \in {0} \cup Turns /\ current \in {0} \cup Turns
    BY <2>1 DEF Events, TurnsInv, ArrivalTypes, HandlingTypes, StreamRecord
  <2>3. \A i \in DOMAIN queue' : queue'[i].turn \in Turns
    <3>1. \A i \in DOMAIN queue' : queue'[i] \in Events
      BY <2>1
    <3> QED BY <3>1 DEF Events
  <2> QED BY <2>1, <2>2, <2>3, TurnsAre
<1>2. CASE stream.done
  <2>1. Queued("delta", stream.turn)' => Queued("delta", stream.turn)
    BY QueueKept DEF Queued
  <2> QED BY <1>2, <2>1 DEF Around, DoneQuiet
<1>3. CASE e.kind = "started" /\ stream.turn \notin {0, e.turn}
  <2>1. stream.turn < e.turn /\ e.turn <= current
    BY <1>1, <1>3 DEF Genuine
  <2>2. \A i \in DOMAIN queue' : queue'[i].turn # stream.turn
    BY <1>1, <2>1 DEF Follows
  <2> QED BY <1>1, <1>3, <2>1, <2>2 DEF Queued
<1>4. CASE e.kind = "final" /\ stream.turn = e.turn
  <2>1. \A i \in DOMAIN queue' : queue'[i].turn = e.turn => queue'[i].kind \in EndKinds
    BY <1>4, QueueKept
  <2>2. source[e.turn].stage \in {"final", "over"}
    BY <1>1, <1>4 DEF Genuine, TurnsInv, ClaimRight
  <2> QED BY <1>1, <1>4, <2>1, <2>2 DEF Queued, EndKinds
<1>5. CASE e.kind \in EndKinds /\ stream.turn = e.turn
  <2>1. \A i \in DOMAIN queue' : queue'[i].turn # stream.turn
    BY <1>1, <1>5 DEF Follows
  <2>2. source[e.turn].stage = "over"
    BY <1>1, <1>5 DEF Genuine
  <2> QED BY <1>1, <1>5, <2>1, <2>2 DEF Queued
<1> QED BY <1>2, <1>3, <1>4, <1>5


-----------------------------------------------------------------------------
(* The topic.                                                              *)

\* The step leaves the turn's messages as they are.
Still(t) == \A place \in Places : topic'[<<t, place>>] = topic[<<t, place>>]

\* The step makes no message come or go.
Same(t)  == \A place \in Places : topic'[<<t, place>>] = Gone <=> topic[<<t, place>>] = Gone
NoneGoes == \A t \in Turns : Same(t)

LEMMA MessageIs == \A n, place : <<n, place>> \in Messages <=> n \in Turns /\ place \in Places
BY DEF Messages, Places

\* One message is changed.
LEMMA ShowIs ==
  ASSUME TopicTypes, NEW n, NEW place, NEW text, topic' = Show(<<n, place>>, text)
  PROVE  /\ TopicTypes'
         /\ n \in Turns /\ place \in Places => topic'[<<n, place>>] = text
         /\ \A t \in Turns, p \in Places :
              t # n \/ p # place => topic'[<<t, p>>] = topic[<<t, p>>]
         /\ \A t \in Turns : t # n => Still(t)
<1>1. topic' = [topic EXCEPT ![<<n, place>>] = text] /\ topic = [m \in Messages |-> topic[m]]
  BY DEF Show, TopicTypes
<1>2. DOMAIN topic = Messages
  BY <1>1
<1>3. TopicTypes'
  BY <1>1 DEF TopicTypes
<1>4. n \in Turns /\ place \in Places => topic'[<<n, place>>] = text
  BY <1>1, <1>2, MessageIs
<1>5. \A t \in Turns, p \in Places :
        t # n \/ p # place => topic'[<<t, p>>] = topic[<<t, p>>]
  <2> SUFFICES ASSUME NEW t \in Turns, NEW p \in Places, t # n \/ p # place
               PROVE  topic'[<<t, p>>] = topic[<<t, p>>]
    OBVIOUS
  <2>1. <<t, p>> \in Messages /\ <<t, p>> # <<n, place>>
    BY MessageIs
  <2> QED BY <1>1, <1>2, <2>1
<1> QED BY <1>3, <1>4, <1>5 DEF Still

\* A message that is there is edited, and stays there.
LEMMA EditIs ==
  ASSUME TopicTypes, NEW n, NEW place, NEW text, text # Gone, topic' = Edit(<<n, place>>, text)
  PROVE  /\ TopicTypes' /\ NoneGoes /\ \A t \in Turns : t # n => Still(t)
         /\ \A t \in Turns, p \in Places :
              \/ topic'[<<t, p>>] = topic[<<t, p>>]
              \/ t = n /\ p = place /\ topic'[<<t, p>>] = text
<1>1. CASE <<n, place>> \notin Messages \/ topic[<<n, place>>] = Gone
  <2>1. topic' = topic
    BY <1>1 DEF Edit
  <2> QED BY <2>1 DEF TopicTypes, NoneGoes, Same, Still
<1>2. CASE <<n, place>> \in Messages /\ topic[<<n, place>>] # Gone
  <2>1. topic' = Show(<<n, place>>, text) /\ n \in Turns /\ place \in Places
    BY <1>2, MessageIs DEF Edit
  <2>2. /\ TopicTypes' /\ topic'[<<n, place>>] = text
        /\ \A t \in Turns, p \in Places :
              t # n \/ p # place => topic'[<<t, p>>] = topic[<<t, p>>]
        /\ \A t \in Turns : t # n => Still(t)
    BY <2>1, ShowIs
  <2>3. NoneGoes
    BY <1>2, <2>2 DEF NoneGoes, Same
  <2> QED BY <2>2, <2>3
<1> QED BY <1>1, <1>2

\* What the calls ask of Telegram.
LEMMA AskedIs ==
  /\ work.call \in {"replace", "clear", "drop"} =>
       Done(Asked) = Show(<<stream.turn, stream.msg>>, Gone)
  /\ work.call = "place"  => Done(Asked) = Show(<<work.event.turn, "wait">>, Thinking)
  /\ work.call = "switch" => Done(Asked) = Show(<<work.event.turn, "body">>, work.event.text)
  /\ work.call = "edit"   => Done(Asked) = Edit(<<stream.turn, stream.msg>>, stream.buffer)
  /\ work.call = "last"   => Done(Asked) = Edit(<<stream.turn, stream.msg>>, LastText)
  /\ work.call = "reply"  =>
       \E place : Done(Asked) = Show(<<work.event.turn, place>>, work.event.text)
BY DEF Asked, Done, Puts, Edits, Message

\* What the loop asks of it.
LEMMA LoopAskedIs == Done(LoopAsked) = Edit(<<stream.turn, stream.msg>>, loop.text)
BY DEF LoopAsked, Done, Edits, Message

\* A cancelled edit leaves the topic as it is: it may be carried out later.
LEMMA CancelIs ==
  ASSUME TopicTypes, Cancel
  PROVE  /\ TopicTypes' /\ NoneGoes /\ loop' = LoopOff /\ overtook' = overtook
         /\ \A t \in Turns : Still(t)
BY DEF Cancel, TopicTypes, NoneGoes, Same, Still

\* Text joined with text that is not empty is not empty.
LEMMA JoinIs ==
  ASSUME NEW a \in Seq(Words), NEW b \in Seq(Words), b # <<>>
  PROVE  a \o b \in Seq(Words) /\ a \o b # <<>>
<1>1. PICK c : c = a \o b
  OBVIOUS
<1>2. c \in Seq(Words) /\ Len(c) = Len(a) + Len(b) /\ Len(a) \in Nat /\ Len(b) \in Nat
  BY <1>1
<1>3. Len(b) # 0
  OBVIOUS
<1>4. Len(c) # 0
  BY <1>2, <1>3
<1>5. c # <<>>
  BY <1>4
<1> QED BY <1>1, <1>2, <1>5

-----------------------------------------------------------------------------
(* A step of the consumer about e: the turns it is not about.              *)

\* The event in hand, or taken, is the start of a turn that is ahead, or the end
\* of one that is answered.
LEMMA OwnIs ==
  ASSUME TurnsInv, NEW e, Consumes(e)
  PROVE  /\ Ahead(e.turn) => e.kind = "started" /\ (work # Idle => work.call \in {"replace", "place"})
         /\ Answered(e.turn) => IF work = Idle THEN e.kind \in EndKinds ELSE work.call = "notify"
<1>1. /\ e \in Events /\ Genuine(e) /\ e.turn \in Turns /\ source[e.turn].stage # "none"
      /\ \A j \in DOMAIN queue : queue[j] = e \/ \E i \in DOMAIN queue' : queue'[i] = queue[j]
      /\ \A i \in DOMAIN queue' : Follows(e, queue'[i])
      /\ work = Idle => \E j \in DOMAIN queue : queue[j] = e
      /\ work # Idle => work.event = e
  BY HandlesIs, BegunIs DEF Consumes, Handles
<1>2. e.turn \in Nat
  BY <1>1, TurnsAre
<1>3. ASSUME Ahead(e.turn), work = Idle
      PROVE  e.kind = "started"
  <2>1. work.event.kind = "none"
    BY <1>3, IdleIs
  <2>2. PICK j \in DOMAIN queue : queue[j].kind = "started" /\ queue[j].turn = e.turn
    BY <1>1, <1>3, <2>1 DEF Ahead, Starting
  <2>3. CASE queue[j] = e
    BY <2>2, <2>3
  <2>4. CASE \E i \in DOMAIN queue' : queue'[i] = queue[j]
    <3>1. e.turn < queue[j].turn
      BY <1>1, <2>2, <2>4 DEF Follows
    <3> QED BY <1>2, <2>2, <3>1
  <2> QED BY <1>1, <2>3, <2>4
<1>4. ASSUME Ahead(e.turn), work # Idle
      PROVE  e.kind = "started" /\ work.call \in {"replace", "place"}
  BY <1>1, <1>4 DEF Ahead
<1>5. Answered(e.turn) => IF work = Idle THEN e.kind \in EndKinds ELSE work.call = "notify"
  BY <1>1 DEF Answered
<1> QED BY <1>3, <1>4, <1>5

\* The message that is open is of the event's turn: behind it nothing else comes.
LEMMA OpenIsMine ==
  ASSUME TurnsInv, NEW e, Handles(e), NEW t \in Turns, Matters(t), Open(t)
  PROVE  t = e.turn
<1>1. /\ e \in Events /\ Genuine(e)
      /\ \A j \in DOMAIN queue : queue[j] = e \/ \E i \in DOMAIN queue' : queue'[i] = queue[j]
      /\ \A i \in DOMAIN queue' : Follows(e, queue'[i])
      /\ work # Idle => work.event = e
  BY HandlesIs DEF Handles
<1>2. e.turn \in Nat /\ t \in Nat /\ current \in Nat
  <2>1. e.turn \in Turns /\ current \in {0} \cup Turns
    BY <1>1 DEF Events, TurnsInv, ArrivalTypes
  <2> QED BY <2>1, TurnsAre
<1>3. t <= e.turn /\ e.turn <= current
  BY <1>1 DEF Genuine, Open
<1>4. source[t].stage # "none"
  BY <1>2, <1>3 DEF TurnsInv, InOrder
<1>5. CASE current = t
  BY <1>2, <1>3, <1>5
<1>6. CASE <<t, "final">> \in accepted
  <2>1. CASE Editing(t)
    <3>1. work # Idle
      BY <2>1, IdleIs DEF Editing
    <3> QED BY <1>1, <2>1, <3>1 DEF Editing
  <2>2. CASE Queued("final", t)
    <3>1. PICK j \in DOMAIN queue : queue[j].turn = t
      BY <2>2 DEF Queued
    <3>2. queue[j] = e \/ e.turn <= queue[j].turn
      BY <1>1 DEF Follows
    <3> QED BY <1>2, <1>3, <3>1, <3>2
  <2> QED BY <1>6, <2>1, <2>2 DEF Open
<1> QED BY <1>4, <1>5, <1>6 DEF Matters

\* The stream shows an answer, and nobody is about to take its message.
Rests == stream.done /\ stream.moved /\ stream.buffer # <<>> /\ work.call \in {"", "notify"}

\* What the step does to the turns that e is not of.
Leaves(e) ==
  /\ \A t \in Turns \ {e.turn} :
       /\ stream.turn # t \/ Rests => Still(t)
       /\ run'[t].synced = run[t].synced
  /\ stream'.turn \in {stream.turn, 0, e.turn}
  /\ stream.turn # e.turn /\ Rests =>
       stream'.turn # stream.turn \/ (stream' = stream /\ work'.call \in {"", "notify"})

LEMMA OthersStand ==
  ASSUME TurnsInv, Around, TextFirst, NEW e, Consumes(e), Leaves(e),
         NEW t \in Turns \ {e.turn}, Matters(t), Stands(t)
  PROVE  Stands(t)'
<1>1. /\ Handles(e) /\ UNCHANGED <<source, accepted>> /\ t # e.turn /\ t # 0
      /\ work' = Idle \/ work'.event = e
      /\ work = Idle \/ work.event = e
      /\ run'[t].synced = run[t].synced
      /\ stream'.turn = t => stream.turn = t
  BY TurnsAre DEF Consumes, Handles, Leaves
<1>2. work.event.turn # t /\ work'.event.turn # t
  BY <1>1, IdleIs
<1>3. /\ \A kind : Queued(kind, t)' <=> Queued(kind, t)
      /\ \A i \in DOMAIN queue' : \E j \in DOMAIN queue : queue'[i] = queue[j]
  BY <1>1, QueueKept, HandlesIs
<1>4. CASE Ahead(t)
  <2>1. Still(t) /\ Untouched(t) /\ stream.turn # t
    BY <1>4 DEF Leaves, Ahead
  <2>2. Untouched(t)' /\ stream'.turn # t /\ ~run'[t].synced
    BY <1>1, <1>4, <2>1 DEF Untouched, Still, Ahead
  <2>3. Starting(t) => Starting(t)'
    BY <1>2, <1>3 DEF Starting, Queued
  <2>4. Ahead(t)'
    BY <1>1, <1>2, <1>3, <1>4, <2>2, <2>3 DEF Ahead
  <2> QED BY <2>4 DEF Stands
<1>5. CASE Open(t)
  BY <1>1, <1>5, OpenIsMine
<1>6. CASE Answered(t)
  <2>1. stream.turn = t => Rests /\ stream.buffer = Answer
    BY <1>6 DEF Answered, Rests, TextFirst
  <2>2. Still(t)
    BY <2>1 DEF Leaves
  <2>3. /\ Holds(<<t, "body">>)' /\ topic'[<<t, "wait">>] = Gone
        /\ topic'[<<t, "note">>] = Gone /\ topic'[<<t, "reply">>] = Gone
    BY <1>6, <2>2 DEF Still, Answered, Asides, Places, Holds, Consumes
  <2>4. stream'.turn = t =>
          stream'.done /\ stream'.moved /\ stream'.buffer = Answer /\ work'.call \in {"", "notify"}
    BY <1>1, <1>6, <2>1 DEF Leaves, Answered
  <2>5. Answered(t)'
    BY <1>1, <1>2, <1>3, <1>6, <2>3, <2>4 DEF Answered, Asides, Gone
  <2> QED BY <2>5 DEF Stands
<1> QED BY <1>4, <1>5, <1>6 DEF Stands

\* A step that leaves the others alone, and what is left to show of it.
LEMMA ConsumerShows ==
  ASSUME TurnsInv, ShownInv, TextFirst, NEW e, Consumes(e), Leaves(e),
         TopicTypes', DoneQuiet', LoopRight',
         Matters(e.turn)' /\ Matters(e.turn) /\ Stands(e.turn) => Stands(e.turn)'
  PROVE  ShownInv'
<1>1. FinalLast' /\ TextsRight'
  BY QueueKept DEF ShownInv
<1>2. ASSUME NEW t \in Turns, Matters(t)'
      PROVE  Stands(t)'
  <2>1. Matters(t)
    BY <1>2 DEF Consumes, Matters, Unhurt
  <2>2. CASE t = e.turn
    BY <1>2, <2>1, <2>2 DEF ShownInv
  <2>3. CASE t # e.turn
    BY <2>1, <2>3, OthersStand DEF ShownInv
  <2> QED BY <2>2, <2>3
<1> QED BY <1>1, <1>2 DEF ShownInv, Around

\* The loop stands still when a call is waited for.
LEMMA LoopStays ==
  ASSUME LoopRight, \/ loop' = LoopOff
                    \/ loop' = loop /\ (work # Idle \/ (work' = work /\ stream' = stream))
  PROVE  LoopRight'
<1>1. LoopOff \in [stage : {"off", "due", "editing", "sleeping"}, text : Seq(Words)]
      /\ LoopOff.stage # "editing"
  BY DEF LoopOff
<1> QED BY <1>1 DEF LoopRight

\* The queue of e's own turn.
LEMMA OwnQueue ==
  ASSUME TurnsInv, Around, NEW e, Consumes(e)
  PROVE  \A kind : kind # e.kind => (Queued(kind, e.turn)' <=> Queued(kind, e.turn))
BY QueueKept

-----------------------------------------------------------------------------
(* The consumer takes an event.                                            *)

\* An event that is taken, with what is done to the calls.
LEMMA TakesIs ==
  ASSUME TurnsInv, NEW e \in {queue[k] : k \in DOMAIN queue}, Took(e), Kept, UNCHANGED <<fails, overtook>>,
         work' = Idle \/ work'.event = e
  PROVE  /\ Consumes(e) /\ work = Idle /\ work.call = "" /\ work.event.kind = "none"
         /\ UNCHANGED <<source, current, accepted>>
         /\ e \in Events /\ e.turn \in Turns /\ e.turn # 0 /\ Genuine(e)
         /\ stream \in StreamRecord /\ run \in Runs
<1>1. /\ Handles(e) /\ work = Idle /\ Idle.call = "" /\ Idle.event.kind = "none"
      /\ e \in Events /\ e.turn \in Turns /\ e.turn # 0
      /\ stream \in StreamRecord /\ run \in Runs
  BY TakenIs
<1>2. Genuine(e)
  BY <1>1, HandlesIs
<1> QED BY <1>1, <1>2 DEF Kept, Consumes

\* No news: nothing is shown of it.
LEMMA IgnoreShows == TextFirst /\ TurnsInv /\ ShownInv /\ Ignore => ShownInv'
<1> SUFFICES ASSUME TextFirst, TurnsInv, ShownInv, Ignore
             PROVE  ShownInv'
  OBVIOUS
<1>1. PICK e \in {queue[k] : k \in DOMAIN queue} :
        Took(e) /\ Ignores(e) /\ Kept /\ UNCHANGED <<handling, drift, run>>
  BY DEF Ignore
<1>2. UNCHANGED <<work, stream, loop, topic, fails, run, overtook>>
  BY <1>1 DEF handling, drift
<1>3. work = Idle
  BY <1>1 DEF Took
<1>4. /\ Consumes(e) /\ work.call = "" /\ work.event.kind = "none" /\ e \in Events
      /\ UNCHANGED <<source, current, accepted>> /\ e.turn # 0
  BY <1>1, <1>2, <1>3, TakesIs
<1>5. Leaves(e)
  BY <1>2, <1>3, <1>4 DEF Leaves, Still, Rests
<1>6. TopicTypes' /\ LoopRight'
  BY <1>2, LoopStays DEF ShownInv, Around, TopicTypes
<1>7. DoneQuiet'
  BY <1>2, <1>4, DoneKept DEF ShownInv
<1>8. ASSUME Stands(e.turn), Matters(e.turn)
      PROVE  Stands(e.turn)'
  <2>1. ~Ahead(e.turn)
    <3>1. Ahead(e.turn) => e.kind = "started" /\ ~run[e.turn].synced /\ stream.turn # e.turn
      BY <1>4, OwnIs DEF Ahead
    <3> QED BY <1>1, <3>1 DEF Ignores
  <2>2. CASE Open(e.turn)
    <3>1. e.kind \notin {"delta", "final"}
      BY <1>1, <1>4, <2>2 DEF Ignores, Open, Stale
    <3>2. /\ Queued("delta", e.turn)' <=> Queued("delta", e.turn)
          /\ Queued("final", e.turn)' <=> Queued("final", e.turn)
      BY <1>4, <3>1, OwnQueue DEF ShownInv
    <3>3. Open(e.turn)'
      BY <1>2, <1>4, <2>2, <3>2 DEF Open, Asides, MessageRight, Own, Editing
    <3> QED BY <3>3 DEF Stands
  <2>3. CASE Answered(e.turn)
    <3>1. \A i \in DOMAIN queue' : \E j \in DOMAIN queue : queue'[i] = queue[j]
      BY <1>4, HandlesIs DEF Consumes
    <3>2. Answered(e.turn)'
      BY <1>2, <1>4, <2>3, <3>1 DEF Answered, Asides, Holds
    <3> QED BY <3>2 DEF Stands
  <2> QED BY <1>8, <2>1, <2>2, <2>3 DEF Stands
<1> QED BY <1>4, <1>5, <1>6, <1>7, <1>8, ConsumerShows

\* A start is taken: the message of the turn before is left.
LEMMA TakeStartedShows == TextFirst /\ TurnsInv /\ ShownInv /\ TakeStarted => ShownInv'
<1> SUFFICES ASSUME TextFirst, TurnsInv, ShownInv, TakeStarted
             PROVE  ShownInv'
  OBVIOUS
<1>1. PICK e \in {queue[k] : k \in DOMAIN queue} :
        /\ e.kind = "started" /\ Took(e) /\ ~Ignores(e)
        /\ \/ /\ stream.turn = 0
              /\ Await(e, "place") /\ UNCHANGED <<stream, loop, topic, drift>>
           \/ /\ stream.turn # 0 /\ (~stream.moved \/ stream.buffer = <<>>)
              /\ Await(e, "replace") /\ Cancel
              /\ stream' = [stream EXCEPT !.done = TRUE]
           \/ /\ stream.turn # 0 /\ stream.moved /\ stream.buffer # <<>>
              /\ Await(e, "place") /\ Cancel
              /\ stream' = NoStream
        /\ Kept /\ UNCHANGED <<run, notes, fails>>
  BY DEF TakeStarted
<1>2. work'.event = e /\ work'.call \in {"place", "replace"}
  BY <1>1, AwaitIs
<1>3. /\ Consumes(e) /\ work = Idle /\ work.call = "" /\ work.event.kind = "none" /\ e \in Events
      /\ UNCHANGED <<source, current, accepted, run>> /\ e.turn # 0 /\ e.turn \in Turns
      /\ stream \in StreamRecord
  BY <1>1, <1>2, TakesIs DEF Cancel, drift
<1>4. stream.turn # e.turn /\ ~run[e.turn].synced
  BY <1>1 DEF Ignores
<1>5. /\ TopicTypes' /\ NoneGoes /\ LoopRight'
      /\ \A t \in Turns : t # stream.turn \/ stream.done => Still(t)
  <2>1. CASE UNCHANGED <<stream, loop, topic>> /\ stream.turn = 0
    <3>1. loop = LoopOff
      BY <2>1 DEF ShownInv, Around, LoopRight
    <3> QED BY <2>1, <3>1, LoopStays DEF ShownInv, Around, TopicTypes, NoneGoes, Same, Still
  <2>2. CASE Cancel
    BY <1>3, <2>2, CancelIs, LoopStays DEF ShownInv, Around
  <2> QED BY <1>1, <2>1, <2>2
<1>6. /\ stream'.turn \in {stream.turn, 0}
      /\ stream'.done => stream'.turn = stream.turn /\ (stream.done \/ stream.turn # 0)
      /\ stream.turn # e.turn /\ Rests => stream'.turn # stream.turn
  <2>1. CASE stream.turn = 0 /\ stream' = stream
    BY <2>1 DEF ShownInv, Around, DoneQuiet, Rests
  <2>2. CASE /\ stream.turn # 0 /\ (~stream.moved \/ stream.buffer = <<>>)
             /\ stream' = [stream EXCEPT !.done = TRUE]
    <3>1. stream'.turn = stream.turn
      BY <1>3, <2>2 DEF StreamRecord
    <3> QED BY <2>2, <3>1 DEF Rests
  <2>3. CASE stream.turn # 0 /\ stream' = NoStream
    <3>1. stream'.turn = 0 /\ ~stream'.done
      BY <2>3 DEF NoStream
    <3> QED BY <2>3, <3>1
  <2> QED BY <1>1, <2>1, <2>2, <2>3
<1>7. Leaves(e)
  BY <1>3, <1>5, <1>6 DEF Leaves, Rests
<1>8. DoneQuiet'
  BY <1>1, <1>3, <1>4, <1>6, DoneKept DEF ShownInv
<1>9. ASSUME Stands(e.turn)
      PROVE  Stands(e.turn)'
  <2>1. Ahead(e.turn)
    <3>1. ~Open(e.turn)
      BY <1>4 DEF Open
    <3>2. ~Answered(e.turn)
      BY <1>1, <1>3, OwnIs DEF EndKinds
    <3> QED BY <1>9, <3>1, <3>2 DEF Stands
  <2>2. Untouched(e.turn)' /\ stream'.turn # e.turn
    BY <1>3, <1>4, <1>5, <1>6, <2>1 DEF Untouched, NoneGoes, Same, Ahead
  <2>3. Starting(e.turn)'
    BY <1>1, <1>2 DEF Starting
  <2>4. /\ Queued("delta", e.turn)' <=> Queued("delta", e.turn)
        /\ Queued("final", e.turn)' <=> Queued("final", e.turn)
    BY <1>1, <1>3, OwnQueue DEF ShownInv
  <2>5. Ahead(e.turn)'
    BY <1>1, <1>2, <1>3, <2>1, <2>2, <2>3, <2>4 DEF Ahead
  <2> QED BY <2>5 DEF Stands
<1> QED BY <1>3, <1>5, <1>7, <1>8, <1>9, ConsumerShows

\* Text is taken: it joins the message, or the message is about to be made.
LEMMA TakeDeltaShows == TextFirst /\ TurnsInv /\ ShownInv /\ TakeDelta => ShownInv'
<1> SUFFICES ASSUME TextFirst, TurnsInv, ShownInv, TakeDelta
             PROVE  ShownInv'
  OBVIOUS
<1>1. PICK e \in {queue[k] : k \in DOMAIN queue} :
        /\ e.kind = "delta" /\ Took(e) /\ ~Ignores(e)
        /\ \/ /\ stream.moved /\ stream' = [stream EXCEPT !.buffer = @ \o e.text]
              /\ loop' = IF loop.stage = "off" THEN [LoopOff EXCEPT !.stage = "due"] ELSE loop
              /\ UNCHANGED work
           \/ /\ ~stream.moved /\ stream' = [stream EXCEPT !.moved = TRUE]
              /\ Await(e, "clear") /\ UNCHANGED loop
        /\ Kept /\ UNCHANGED <<run, topic, notes, fails, drift>>
  BY DEF TakeDelta
<1>2. work = Idle
  BY <1>1 DEF Took
<1>3. work' = Idle \/ (work'.event = e /\ work'.call = "clear")
  BY <1>1, <1>2, AwaitIs
<1>4. /\ Consumes(e) /\ work.call = "" /\ work.event.kind = "none" /\ e \in Events
      /\ UNCHANGED <<source, current, accepted, run, topic>> /\ e.turn # 0 /\ e.turn \in Turns
      /\ stream \in StreamRecord /\ e.text \in Seq(Words)
  BY <1>1, <1>3, TakesIs DEF Events, drift
<1>5. stream.turn = e.turn
  BY <1>1 DEF Ignores
<1>6. e.text # <<>>
  <2>1. Carries(e)
    BY <1>4, QueueKept DEF ShownInv
  <2> QED BY <1>1, <2>1 DEF Carries
<1>7. ~stream.done
  <2>1. Queued("delta", stream.turn)
    BY <1>1, <1>5 DEF Queued
  <2> QED BY <2>1 DEF ShownInv, Around, DoneQuiet
<1>8. /\ stream'.turn = stream.turn /\ stream'.done = stream.done /\ stream'.msg = stream.msg
      /\ stream'.moved /\ (stream.moved => stream'.buffer \in Seq(Words) /\ stream'.buffer # <<>>)
  <2>1. CASE stream.moved /\ stream' = [stream EXCEPT !.buffer = @ \o e.text]
    <3>1. /\ stream'.turn = stream.turn /\ stream'.done = stream.done /\ stream'.msg = stream.msg
          /\ stream'.moved = stream.moved /\ stream'.buffer = stream.buffer \o e.text
      BY <1>4, <2>1 DEF StreamRecord
    <3>2. PICK a, b \in Seq(Words) : a = stream.buffer /\ b = e.text
      BY <1>4 DEF StreamRecord
    <3>3. a \o b \in Seq(Words) /\ a \o b # <<>>
      BY <1>6, <3>2, JoinIs
    <3> QED BY <2>1, <3>1, <3>2, <3>3
  <2>2. CASE ~stream.moved /\ stream' = [stream EXCEPT !.moved = TRUE]
    BY <1>4, <2>2 DEF StreamRecord
  <2> QED BY <1>1, <2>1, <2>2
<1>9. LoopRight'
  <2>1. CASE stream.moved
    <3>1. /\ UNCHANGED work
          /\ loop' = IF loop.stage = "off" THEN [LoopOff EXCEPT !.stage = "due"] ELSE loop
      BY <1>1, <2>1
    <3>2. [LoopOff EXCEPT !.stage = "due"] = [stage |-> "due", text |-> <<>>]
      BY DEF LoopOff
    <3>3. /\ loop' \in [stage : {"off", "due", "editing", "sleeping"}, text : Seq(Words)]
          /\ loop'.stage = "editing" => loop'.text # <<>>
      <4>1. /\ loop \in [stage : {"off", "due", "editing", "sleeping"}, text : Seq(Words)]
            /\ loop.stage = "editing" => loop.text # <<>>
        BY DEF ShownInv, Around, LoopRight
      <4>2. CASE loop' = loop
        BY <4>1, <4>2
      <4>3. CASE loop' = [stage |-> "due", text |-> <<>>]
        BY <4>3
      <4> QED BY <3>1, <3>2, <4>2, <4>3
    <3> QED BY <1>2, <1>4, <1>5, <1>7, <1>8, <2>1, <3>1, <3>3 DEF LoopRight
  <2>2. CASE ~stream.moved
    <3>1. loop' = loop /\ loop = LoopOff
      BY <1>1, <2>2 DEF ShownInv, Around, LoopRight
    <3> QED BY <3>1, LoopStays DEF ShownInv, Around
  <2> QED BY <2>1, <2>2
<1>10. Leaves(e)
  BY <1>4, <1>5, <1>8 DEF Leaves, Still
<1>11. DoneQuiet' /\ TopicTypes'
  BY <1>4, <1>7, <1>8, DoneKept DEF ShownInv, Around, TopicTypes
<1>12. ASSUME Stands(e.turn)
       PROVE  Stands(e.turn)'
  <2>1. Open(e.turn)
    BY <1>1, <1>2, <1>4, <1>12, OwnIs DEF EndKinds, Stands
  <2>2. Queued("final", e.turn)' <=> Queued("final", e.turn)
    BY <1>1, <1>4, OwnQueue DEF ShownInv
  <2>3. ~Editing(e.turn)
    BY <1>4 DEF Editing
  <2>4. MessageRight(e.turn)' /\ work'.call \in {"", "clear"}
    <3>1. CASE stream.moved
      <4>1. work' = work
        BY <1>1, <3>1
      <4> QED BY <1>4, <1>8, <2>1, <3>1, <4>1 DEF Open, MessageRight, Own
    <3>2. CASE ~stream.moved
      <4>1. work'.call = "clear"
        BY <1>1, <3>2, AwaitIs
      <4> QED BY <1>4, <1>8, <2>1, <3>2, <4>1 DEF Open, MessageRight, Own
    <3> QED BY <3>1, <3>2
  <2>5. Open(e.turn)'
    BY <1>4, <1>8, <2>1, <2>2, <2>3, <2>4 DEF Open, Asides
  <2> QED BY <2>5 DEF Stands
<1> QED BY <1>4, <1>9, <1>10, <1>11, <1>12, ConsumerShows

\* A remark is taken: it is about to take the message's text.
LEMMA TakeNoteShows == TextFirst /\ TurnsInv /\ ShownInv /\ TakeNote => ShownInv'
<1> SUFFICES ASSUME TextFirst, TurnsInv, ShownInv, TakeNote
             PROVE  ShownInv'
  OBVIOUS
<1>1. PICK e \in {queue[k] : k \in DOMAIN queue} :
        /\ e.kind = "note" /\ Took(e) /\ ~Ignores(e)
        /\ \/ stream.turn = 0 /\ Await(e, "reply") /\ UNCHANGED <<stream, loop, topic, drift>>
           \/ /\ stream.turn # 0 /\ stream' = [stream EXCEPT !.buffer = e.text]
              /\ Await(e, "edit") /\ Cancel
        /\ Kept /\ UNCHANGED <<run, notes, fails>>
  BY DEF TakeNote
<1>2. work'.event = e /\ work'.call \in {"reply", "edit"}
  BY <1>1, AwaitIs
<1>3. /\ Consumes(e) /\ work = Idle /\ work.call = "" /\ work.event.kind = "none" /\ e \in Events
      /\ UNCHANGED <<source, current, accepted, run>> /\ e.turn # 0 /\ e.turn \in Turns
      /\ stream \in StreamRecord /\ e.text \in Seq(Words)
  BY <1>1, <1>2, TakesIs DEF Events, Cancel, drift
<1>4. stream.turn \in {0, e.turn} /\ ~stream.done
  BY <1>1 DEF Ignores, Stale
<1>5. /\ TopicTypes' /\ NoneGoes /\ LoopRight'
      /\ \A t \in Turns : t # stream.turn \/ stream.done => Still(t)
  <2>1. CASE UNCHANGED <<stream, loop, topic>> /\ stream.turn = 0
    <3>1. loop = LoopOff
      BY <2>1 DEF ShownInv, Around, LoopRight
    <3> QED BY <2>1, <3>1, LoopStays DEF ShownInv, Around, TopicTypes, NoneGoes, Same, Still
  <2>2. CASE Cancel
    BY <1>3, <2>2, CancelIs, LoopStays DEF ShownInv, Around
  <2> QED BY <1>1, <2>1, <2>2
<1>6. /\ stream'.turn = stream.turn /\ ~stream'.done
      /\ stream'.moved = stream.moved /\ stream'.msg = stream.msg
      /\ stream.turn # 0 => stream'.buffer = e.text /\ work'.call = "edit"
  <2>1. CASE stream.turn = 0 /\ stream' = stream
    BY <1>4, <2>1
  <2>2. CASE stream.turn # 0 /\ stream' = [stream EXCEPT !.buffer = e.text] /\ Await(e, "edit")
    BY <1>3, <1>4, <2>2, AwaitIs DEF StreamRecord
  <2> QED BY <1>1, <2>1, <2>2
<1>7. Leaves(e)
  BY <1>3, <1>4, <1>5, <1>6, TurnsAre DEF Leaves, Rests
<1>8. DoneQuiet'
  BY <1>6 DEF DoneQuiet
<1>9. ASSUME Stands(e.turn)
      PROVE  Stands(e.turn)'
  <2>1. Open(e.turn)
    BY <1>1, <1>3, <1>9, OwnIs DEF EndKinds, Stands
  <2>2. stream.turn = e.turn
    BY <2>1 DEF Open
  <2>3. stream'.buffer = e.text /\ work'.call = "edit" /\ e.text # <<>>
    <3>1. Carries(e)
      BY <1>3, QueueKept DEF ShownInv
    <3> QED BY <1>1, <1>3, <1>6, <2>2, <3>1 DEF Carries
  <2>4. /\ Queued("delta", e.turn)' <=> Queued("delta", e.turn)
        /\ Queued("final", e.turn)' <=> Queued("final", e.turn)
    BY <1>1, <1>3, OwnQueue DEF ShownInv
  <2>5. ~Editing(e.turn)
    BY <1>3 DEF Editing
  <2>6. MessageRight(e.turn)' /\ Asides(e.turn)'
    BY <1>3, <1>5, <1>6, <2>1, <2>3 DEF Open, MessageRight, Own, Asides, NoneGoes, Same, Places
  <2>7. Open(e.turn)'
    BY <1>3, <1>6, <2>1, <2>2, <2>3, <2>4, <2>5, <2>6 DEF Open
  <2> QED BY <2>7 DEF Stands
<1> QED BY <1>3, <1>5, <1>7, <1>8, <1>9, ConsumerShows

\* What a claim leaves the consumer with.
LEMMA ClaimIs ==
  ASSUME NEW e, NEW s, NEW r, NEW wanted, Claim(e, s, r, wanted)
  PROVE  /\ work' = Idle \/ (work'.event = e /\ work'.call = "notify")
         /\ work'.call \in {"", "notify"}
         /\ run' = r \/ run' = [r EXCEPT ![e.turn].notified = TRUE]
<1>1. work' = Idle \/ work' = Tell(e)
  BY DEF Claim
<1>2. Tell(e).event = e /\ Tell(e).call = "notify"
  BY DEF Tell
<1>3. run' = r \/ run' = [r EXCEPT ![e.turn].notified = TRUE]
  BY DEF Claim
<1> QED BY <1>1, <1>2, <1>3, IdleIs

\* A run of another turn is untouched by it.
LEMMA ClaimedRun ==
  ASSUME run \in Runs, NEW u \in Turns, NEW r \in Runs,
         \A t \in Turns \ {u} : r[t].synced = run[t].synced,
         run' = r \/ run' = [r EXCEPT ![u].notified = TRUE]
  PROVE  \A t \in Turns \ {u} : run'[t].synced = run[t].synced
BY DEF Runs

\* A final answer is taken: it is about to take the message's text.
LEMMA TakeFinalShows == TextFirst /\ TurnsInv /\ ShownInv /\ TakeFinal => ShownInv'
<1> SUFFICES ASSUME TextFirst, TurnsInv, ShownInv, TakeFinal
             PROVE  ShownInv'
  OBVIOUS
<1>1. PICK e \in {queue[k] : k \in DOMAIN queue} :
        /\ e.kind = "final" /\ Took(e) /\ ~Ignores(e)
        /\ \/ /\ stream.turn = 0
              /\ Await(e, "reply") /\ UNCHANGED <<run, stream, loop, topic, drift>>
           \/ /\ stream.turn = 0 \/ stream.done
              /\ Claim(e, stream, run, TRUE)
              /\ stream' = Told(stream) /\ UNCHANGED <<loop, topic, drift>>
           \/ /\ stream.turn # 0 /\ ~stream.done
              /\ stream' = [stream EXCEPT !.buffer = e.text]
              /\ Await(e, "edit") /\ Cancel /\ UNCHANGED run
        /\ Kept /\ UNCHANGED <<notes, fails>>
  BY DEF TakeFinal
<1>2. work' = Idle \/ (work'.event = e /\ work'.call \in {"reply", "edit", "notify"})
  BY <1>1, AwaitIs, ClaimIs
<1>3. /\ Consumes(e) /\ work = Idle /\ work.call = "" /\ work.event.kind = "none" /\ e \in Events
      /\ UNCHANGED <<source, current, accepted>> /\ e.turn # 0 /\ e.turn \in Turns /\ Genuine(e)
      /\ stream \in StreamRecord /\ run \in Runs /\ e.text \in Seq(Words)
  BY <1>1, <1>2, TakesIs DEF Events, Cancel, drift
<1>4. stream.turn \in {0, e.turn}
  BY <1>1 DEF Ignores, Stale
<1>5. /\ TopicTypes' /\ NoneGoes /\ LoopRight'
      /\ \A t \in Turns : t # stream.turn \/ stream.done => Still(t)
  <2>1. CASE UNCHANGED <<loop, topic>> /\ (stream.turn = 0 \/ stream.done)
    <3>1. loop = LoopOff
      BY <2>1 DEF ShownInv, Around, LoopRight
    <3> QED BY <2>1, <3>1, LoopStays DEF ShownInv, Around, TopicTypes, NoneGoes, Same, Still
  <2>2. CASE Cancel
    BY <1>3, <2>2, CancelIs, LoopStays DEF ShownInv, Around
  <2> QED BY <1>1, <2>1, <2>2
<1>6. stream'.turn = stream.turn /\ stream'.done = stream.done
  <2>1. CASE stream' = stream
    BY <2>1
  <2>2. CASE stream' = Told(stream)
    <3>1. CASE stream.turn = 0
      BY <2>2, <3>1 DEF Told
    <3>2. CASE stream.turn # 0
      <4>1. stream' = [stream EXCEPT !.told = TRUE]
        BY <2>2, <3>2 DEF Told
      <4> QED BY <1>3, <4>1 DEF StreamRecord
    <3> QED BY <3>1, <3>2
  <2>3. CASE stream' = [stream EXCEPT !.buffer = e.text]
    BY <1>3, <2>3 DEF StreamRecord
  <2> QED BY <1>1, <2>1, <2>2, <2>3
<1>7. \A t \in Turns \ {e.turn} : run'[t].synced = run[t].synced
  <2>1. CASE run' = run
    BY <2>1
  <2>2. CASE Claim(e, stream, run, TRUE)
    <3>1. run' = run \/ run' = [run EXCEPT ![e.turn].notified = TRUE]
      BY <2>2, ClaimIs
    <3> QED BY <1>3, <3>1, ClaimedRun
  <2> QED BY <1>1, <2>1, <2>2
<1>8. Leaves(e)
  <2>1. stream.done => stream.turn # 0
    BY DEF ShownInv, Around, DoneQuiet
  <2>2. stream.turn # e.turn /\ Rests => FALSE
    BY <1>4, <2>1 DEF Rests
  <2> QED BY <1>4, <1>5, <1>6, <1>7, <2>2, TurnsAre DEF Leaves, Rests
<1>9. DoneQuiet'
  BY <1>3, <1>6, DoneKept DEF ShownInv
<1>10. ASSUME Stands(e.turn)
       PROVE  Stands(e.turn)'
  <2>1. Open(e.turn)
    BY <1>1, <1>3, <1>10, OwnIs DEF EndKinds, Stands
  <2>2. stream.turn = e.turn /\ ~stream.done
    BY <2>1 DEF Open
  <2>3. /\ stream' = [stream EXCEPT !.buffer = e.text] /\ Await(e, "edit")
    BY <1>1, <1>3, <2>2
  <2>4. work'.event = e /\ work'.call = "edit"
    BY <2>3, AwaitIs
  <2>5. /\ stream'.buffer = e.text /\ stream'.moved = stream.moved /\ stream'.msg = stream.msg
    BY <1>3, <2>3 DEF StreamRecord
  <2>6. e.text = Answer
    <3>1. Carries(e)
      BY <1>3, QueueKept DEF ShownInv
    <3> QED BY <1>1, <3>1 DEF Carries
  <2>7. <<e.turn, "final">> \in accepted
    BY <1>1, <1>3 DEF Genuine
  <2>8. stream.moved
    <3>1. source[e.turn].pieces > 0
      BY <1>3, <2>7 DEF ShownInv, Around, FinalLast
    <3>2. ~Queued("delta", e.turn)
      <4>1. ~Queued("delta", e.turn)'
        <5>1. \A i \in DOMAIN queue' : queue'[i].turn = e.turn => queue'[i].kind \in EndKinds
          BY <1>1, <1>3, QueueKept DEF ShownInv
        <5> QED BY <5>1 DEF Queued, EndKinds
      <4> QED BY <1>1, <1>3, <4>1, OwnQueue DEF ShownInv
    <3> QED BY <2>1, <3>1, <3>2 DEF Open
  <2>9. Editing(e.turn)'
    BY <1>1, <2>4, <2>5, <2>6, <2>8 DEF Editing
  <2>10. MessageRight(e.turn)' /\ Asides(e.turn)'
    BY <1>3, <1>5, <2>1, <2>4, <2>5 DEF Open, MessageRight, Own, Asides, NoneGoes, Same, Places
  <2>11. Open(e.turn)'
    BY <1>6, <2>2, <2>4, <2>5, <2>6, <2>8, <2>9, <2>10 DEF Open, TextFirst
  <2> QED BY <2>11 DEF Stands
<1> QED BY <1>3, <1>5, <1>8, <1>9, <1>10, ConsumerShows

\* The end of a turn whose message it is leaves the others' runs alone.
LEMMA ClosesRun ==
  ASSUME run \in Runs, NEW e, e.turn \in Turns, Close(e)
  PROVE  /\ stream' = NoStream /\ (work' = Idle \/ work'.event = e)
         /\ work'.call \in {"", "notify"}
         /\ \A t \in Turns \ {e.turn} : run'[t].synced = run[t].synced
<1>1. PICK text : /\ Claim(e, stream,
                           [run EXCEPT ![e.turn].status = "over", ![e.turn].synced = @ \/ text # <<>>],
                           e.kind = "mirrored" => text # <<>>)
                  /\ stream' = NoStream
  BY DEF Close
<1>2. PICK b \in BOOLEAN : b = (text # <<>>)
  OBVIOUS
<1>3. PICK u \in Turns : u = e.turn
  OBVIOUS
<1>4. PICK r : r = [run EXCEPT ![u].status = "over", ![u].synced = @ \/ b]
  OBVIOUS
<1>5. PICK wanted : wanted = (e.kind = "mirrored" => text # <<>>)
  OBVIOUS
<1>6. PICK s : s = stream
  OBVIOUS
<1>7. Claim(e, s, r, wanted)
  BY <1>1, <1>2, <1>3, <1>4, <1>5, <1>6
<1>8. /\ work' = Idle \/ work'.event = e
      /\ work'.call \in {"", "notify"}
      /\ run' = r \/ run' = [r EXCEPT ![u].notified = TRUE]
  BY <1>3, <1>7, ClaimIs
<1>9. r \in Runs
  BY <1>4 DEF Runs
<1>10. \A t \in Turns \ {u} : r[t].synced = run[t].synced
  BY <1>4 DEF Runs
<1> QED BY <1>1, <1>3, <1>8, <1>9, <1>10, ClaimedRun

\* An end is taken: of a turn that was to get an answer, it has it by now.
LEMMA TakeEndShows == TextFirst /\ TurnsInv /\ ShownInv /\ TakeEnd => ShownInv'
<1> SUFFICES ASSUME TextFirst, TurnsInv, ShownInv, TakeEnd
             PROVE  ShownInv'
  OBVIOUS
<1>1. PICK e \in {queue[k] : k \in DOMAIN queue} :
        /\ e.kind \in Ends /\ Took(e) /\ ~Ignores(e)
        /\ \/ /\ stream.turn = 0
              /\ IF e.kind = "mirrored"
                 THEN run' = [run EXCEPT ![e.turn].status = "over"] /\ UNCHANGED work
                 ELSE Claim(e, stream, [run EXCEPT ![e.turn].status = "over"], TRUE)
              /\ UNCHANGED <<stream, loop, topic, drift>>
           \/ /\ stream.turn # 0 /\ stream.done
              /\ Claim(e, stream, [run EXCEPT ![e.turn].status = "over"], TRUE)
              /\ stream' = NoStream /\ UNCHANGED <<loop, topic, drift>>
           \/ /\ stream.turn # 0 /\ ~stream.done /\ Close(e) /\ Cancel
           \/ /\ stream.turn # 0 /\ ~stream.done /\ LastCall(e) # ""
              /\ stream' = [stream EXCEPT !.done = TRUE]
              /\ Await(e, LastCall(e)) /\ Cancel /\ UNCHANGED run
        /\ Kept /\ UNCHANGED <<notes, fails>>
  BY DEF TakeEnd
<1>2. /\ work = Idle /\ e.turn \in Turns /\ run \in Runs /\ stream \in StreamRecord
  BY <1>1, TakenIs
<1>3. PICK over : over = [run EXCEPT ![e.turn].status = "over"]
  OBVIOUS
<1>4. over \in Runs /\ \A t \in Turns : over[t].synced = run[t].synced
  <2>1. PICK u \in Turns : u = e.turn
    BY <1>2
  <2>2. over = [run EXCEPT ![u].status = "over"]
    BY <1>3, <2>1
  <2> QED BY <1>2, <2>2 DEF Runs
<1>5. ASSUME NEW s, Claim(e, s, over, TRUE)
      PROVE  /\ work' = Idle \/ work'.event = e
             /\ work'.call \in {"", "notify"}
             /\ \A t \in Turns \ {e.turn} : run'[t].synced = run[t].synced
  <2>1. /\ work' = Idle \/ work'.event = e
        /\ work'.call \in {"", "notify"}
        /\ run' = over \/ run' = [over EXCEPT ![e.turn].notified = TRUE]
    BY <1>5, ClaimIs
  <2>2. PICK u \in Turns : u = e.turn
    BY <1>2
  <2>3. run' = over \/ run' = [over EXCEPT ![u].notified = TRUE]
    BY <2>1, <2>2
  <2>4. \A t \in Turns \ {u} : run'[t].synced = run[t].synced
    BY <1>2, <1>4, <2>3, ClaimedRun
  <2> QED BY <2>1, <2>2, <2>4
<1>6. /\ work' = Idle \/ work'.event = e
      /\ \A t \in Turns \ {e.turn} : run'[t].synced = run[t].synced
      /\ stream.turn = 0 \/ stream.done => work'.call \in {"", "notify"}
      /\ \/ stream' = stream
         \/ stream' = NoStream
         \/ stream' = [stream EXCEPT !.done = TRUE] /\ stream.turn # 0 /\ ~stream.done
      /\ stream.turn # 0 /\ stream.done => stream' = NoStream
      /\ \/ UNCHANGED <<loop, topic>> /\ (stream.turn = 0 \/ stream.done)
         \/ Cancel
  <2>1. CASE /\ stream.turn = 0
             /\ IF e.kind = "mirrored"
                THEN run' = [run EXCEPT ![e.turn].status = "over"] /\ UNCHANGED work
                ELSE Claim(e, stream, [run EXCEPT ![e.turn].status = "over"], TRUE)
             /\ UNCHANGED <<stream, loop, topic>>
    <3>1. CASE e.kind = "mirrored"
      BY <1>2, <1>3, <1>4, <2>1, <3>1, IdleIs
    <3>2. CASE e.kind # "mirrored"
      <4>1. PICK s : s = stream /\ Claim(e, s, over, TRUE)
        BY <1>3, <2>1, <3>2
      <4> QED BY <1>5, <2>1, <4>1
    <3> QED BY <3>1, <3>2
  <2>2. CASE /\ stream.turn # 0 /\ stream.done
             /\ Claim(e, stream, [run EXCEPT ![e.turn].status = "over"], TRUE)
             /\ stream' = NoStream /\ UNCHANGED <<loop, topic>>
    <3>1. PICK s : s = stream /\ Claim(e, s, over, TRUE)
      BY <1>3, <2>2
    <3> QED BY <1>5, <2>2, <3>1
  <2>3. CASE stream.turn # 0 /\ ~stream.done /\ Close(e) /\ Cancel
    BY <1>2, <2>3, ClosesRun
  <2>4. CASE /\ stream.turn # 0 /\ ~stream.done /\ LastCall(e) # ""
             /\ stream' = [stream EXCEPT !.done = TRUE]
             /\ Await(e, LastCall(e)) /\ Cancel /\ UNCHANGED run
    BY <2>4, AwaitIs
  <2> QED BY <1>1, <2>1, <2>2, <2>3, <2>4
<1>7. /\ Consumes(e) /\ work.call = "" /\ work.event.kind = "none" /\ e \in Events
      /\ UNCHANGED <<source, current, accepted, overtook>> /\ e.turn # 0 /\ Genuine(e)
      /\ e.kind \in EndKinds
  BY <1>1, <1>6, TakesIs, TurnsAre DEF Cancel, drift
<1>8. ~stream.done => stream.turn \in {0, e.turn}
  BY <1>1, <1>7 DEF Ignores, Stale, EndKinds
<1>9. stream.done => stream.turn # 0
  BY DEF ShownInv, Around, DoneQuiet
<1>10. /\ TopicTypes' /\ LoopRight'
       /\ \A t \in Turns : t # stream.turn \/ stream.done => Still(t)
  <2>1. CASE UNCHANGED <<loop, topic>> /\ (stream.turn = 0 \/ stream.done)
    <3>1. loop = LoopOff
      BY <2>1 DEF ShownInv, Around, LoopRight
    <3> QED BY <2>1, <3>1, LoopStays DEF ShownInv, Around, TopicTypes, Still
  <2>2. CASE Cancel
    BY <1>2, <2>2, CancelIs, LoopStays DEF ShownInv, Around
  <2> QED BY <1>6, <2>1, <2>2
<1>11. /\ stream'.turn \in {stream.turn, 0}
       /\ stream'.done => stream'.turn = stream.turn /\ (stream.done \/ stream.turn = e.turn)
  <2>1. CASE stream' = stream
    BY <2>1
  <2>2. CASE stream' = NoStream
    BY <2>2 DEF NoStream
  <2>3. CASE stream' = [stream EXCEPT !.done = TRUE] /\ stream.turn # 0 /\ ~stream.done
    BY <1>2, <1>8, <2>3 DEF StreamRecord
  <2> QED BY <1>6, <2>1, <2>2, <2>3
<1>12. Leaves(e)
  <2>1. Rests => stream'.turn # stream.turn
    <3>1. NoStream.turn = 0
      BY DEF NoStream
    <3> QED BY <1>6, <1>9, <3>1 DEF Rests
  <2>2. \A t \in Turns \ {e.turn} : stream.turn # t \/ Rests => Still(t)
    BY <1>10 DEF Rests
  <2> QED BY <1>6, <1>11, <2>1, <2>2 DEF Leaves
<1>13. DoneQuiet'
  BY <1>7, <1>11, DoneKept DEF ShownInv
<1>14. ASSUME Stands(e.turn), Matters(e.turn)
       PROVE  Stands(e.turn)'
  <2>1. ~Ahead(e.turn)
    BY <1>7, OwnIs DEF EndKinds
  <2>2. ~Open(e.turn)
    <3> SUFFICES ASSUME Open(e.turn)
                 PROVE  FALSE
      OBVIOUS
    <3>1. source[e.turn].stage = "over"
      BY <1>7 DEF Genuine
    <3>2. <<e.turn, "final">> \in accepted
      BY <1>14, <3>1 DEF Matters
    <3>3. Queued("final", e.turn)
      BY <1>7, <3>2 DEF Open, Editing
    <3>4. Queued("final", e.turn)'
      BY <1>7, <3>3, OwnQueue DEF ShownInv, EndKinds
    <3>5. PICK i \in DOMAIN queue' : queue'[i].turn = e.turn
      BY <3>4 DEF Queued
    <3>6. e.turn < queue'[i].turn
      BY <1>7, HandlesIs DEF Follows, Consumes
    <3>7. e.turn \in Nat
      BY <1>2, TurnsAre
    <3> QED BY <3>5, <3>6, <3>7
  <2>3. Answered(e.turn)
    BY <1>14, <2>1, <2>2 DEF Stands
  <2>4. stream.turn = e.turn => stream.done
    BY <2>3 DEF Answered
  <2>5. stream.turn = 0 \/ stream.done
    BY <1>8, <2>4
  <2>6. Still(e.turn) /\ work'.call \in {"", "notify"} /\ stream'.turn # e.turn
    <3>1. CASE stream.turn = 0
      BY <1>2, <1>6, <1>7, <1>10, <1>11, <3>1
    <3>2. CASE stream.turn # 0 /\ stream.done
      <4>1. stream'.turn = 0
        <5>1. NoStream.turn = 0
          BY DEF NoStream
        <5> QED BY <1>6, <3>2, <5>1
      <4> QED BY <1>2, <1>6, <1>7, <1>10, <3>2, <4>1
    <3> QED BY <2>5, <3>1, <3>2
  <2>7. \A i \in DOMAIN queue' : \E j \in DOMAIN queue : queue'[i] = queue[j]
    BY <1>7, HandlesIs DEF Consumes
  <2>8. work'.event.turn = e.turn => work'.call = "notify"
    <3>1. CASE work' = Idle
      BY <1>7, <3>1, IdleIs
    <3>2. CASE work' # Idle
      <4>1. work'.call # ""
        <5>1. HandlingTypes'
          BY TakeEndKeeps DEF TurnsInv
        <5> QED BY <3>2, <5>1 DEF HandlingTypes
      <4> QED BY <2>6, <4>1
    <3> QED BY <3>1, <3>2
  <2>9. Answered(e.turn)'
    BY <1>7, <2>3, <2>6, <2>7, <2>8 DEF Answered, Asides, Still, Places, Holds
  <2> QED BY <2>9 DEF Stands
<1> QED BY <1>7, <1>10, <1>12, <1>13, <1>14, ConsumerShows

-----------------------------------------------------------------------------
(* The calls return.                                                       *)

\* A call that is done, with what it is for.
LEMMA ReturnsIs ==
  ASSUME TurnsInv, ShownInv, work.call # "", UNCHANGED <<source, current, queue, lastDelta, missed, accepted, overtook>>,
         fails' = 0 => fails = 0, work' = Idle \/ work'.event = work.event
  PROVE  /\ Consumes(work.event) /\ work # Idle /\ Genuine(work.event)
         /\ work.event \in Events /\ work.event.turn \in Turns /\ work.event.turn # 0
         /\ work.event.text \in Seq(Words) /\ loop = LoopOff
         /\ stream \in StreamRecord /\ run \in Runs /\ fails \in Nat
         /\ stream.turn \in {0} \cup Turns /\ stream.msg \in Places
<1>1. /\ Handles(work.event) /\ work # Idle
      /\ work.event \in Events /\ Genuine(work.event)
      /\ work.event.turn \in Turns /\ work.event.turn # 0 /\ work.event.text \in Seq(Words)
      /\ stream \in StreamRecord /\ run \in Runs /\ fails \in Nat
  BY ReturnIs
<1>2. loop = LoopOff
  BY <1>1 DEF ShownInv, Around, LoopRight
<1>3. stream.turn \in {0} \cup Turns /\ stream.msg \in Places
  BY <1>1 DEF StreamRecord, Places
<1> QED BY <1>1, <1>2, <1>3 DEF Consumes

\* What a call that took does to the topic; one that failed leaves it, and counts.
LEMMA ResultShows ==
  ASSUME fails \in Nat, NEW c, Result(c), Editable
  PROVE  \/ work.call = c /\ topic' = Done(Asked) /\ fails' = fails
         \/ work.call = c /\ topic' = topic /\ fails' = fails + 1 /\ fails' # 0
BY DEF Result, Succeeds, Fails

\* The message of the turn before is taken away.
LEMMA ReplacedShows == TextFirst /\ TurnsInv /\ ShownInv /\ Replaced => ShownInv'
<1> SUFFICES ASSUME TextFirst, TurnsInv, ShownInv, Replaced
             PROVE  ShownInv'
  OBVIOUS
<1>1. PICK e : e = work.event
  OBVIOUS
<1>2. /\ Result("replace") /\ stream' = NoStream /\ Await(e, "place")
      /\ UNCHANGED <<source, run, current, queue, lastDelta, missed, accepted, loop>>
  BY <1>1 DEF Replaced, arrival
<1>3. /\ work.call = "replace" /\ work'.event = e /\ work'.call = "place"
  BY <1>2, AwaitIs DEF Result, Succeeds, Fails
<1>4. fails \in Nat
  BY DEF TurnsInv, HandlingTypes
<1>5. topic' = Done(Asked) \/ topic' = topic
  BY <1>2 DEF Result, Succeeds, Fails
<1>6. fails' = 0 => fails = 0
  BY <1>2, <1>4, ResultIs
<1>7. /\ Consumes(e) /\ work # Idle /\ e.turn \in Turns /\ e.turn # 0 /\ loop = LoopOff
      /\ stream.turn \in {0} \cup Turns /\ stream.msg \in Places
  BY <1>1, <1>2, <1>3, <1>6, ReturnsIs DEF Result, Succeeds, Fails, drift
<1>8. e.kind = "started"
  BY <1>1, <1>3 DEF TurnsInv, CallRight
<1>9. /\ TopicTypes' /\ \A t \in Turns : stream.turn # t => Still(t)
      /\ \A t \in Turns, p \in Places : topic[<<t, p>>] = Gone => topic'[<<t, p>>] = Gone
  <2>1. CASE topic' = topic
    BY <2>1 DEF ShownInv, Around, TopicTypes, Still
  <2>2. CASE topic' = Done(Asked)
    <3>1. topic' = Show(<<stream.turn, stream.msg>>, Gone)
      BY <1>3, <2>2, AskedIs
    <3> QED BY <1>7, <3>1, ShowIs DEF ShownInv, Around
  <2> QED BY <1>5, <2>1, <2>2
<1>10. stream'.turn = 0 /\ ~stream'.done
  BY <1>2 DEF NoStream
<1>11. Leaves(e) /\ DoneQuiet' /\ LoopRight'
  <2>1. Leaves(e)
    BY <1>2, <1>3, <1>9, <1>10 DEF Leaves, Rests
  <2>2. LoopRight'
    BY <1>2, <1>7, LoopStays DEF ShownInv, Around
  <2> QED BY <1>10, <2>1, <2>2 DEF DoneQuiet
<1>12. ASSUME Stands(e.turn)
       PROVE  Stands(e.turn)'
  <2>1. Ahead(e.turn)
    <3>1. ~Open(e.turn)
      BY <1>3 DEF Open
    <3>2. ~Answered(e.turn)
      BY <1>3, <1>7, OwnIs
    <3> QED BY <1>12, <3>1, <3>2 DEF Stands
  <2>2. Untouched(e.turn)'
    BY <1>7, <1>9, <2>1 DEF Ahead, Untouched
  <2>3. Starting(e.turn)'
    BY <1>3, <1>8 DEF Starting
  <2>4. /\ Queued("delta", e.turn)' <=> Queued("delta", e.turn)
        /\ Queued("final", e.turn)' <=> Queued("final", e.turn)
    BY <1>2 DEF Queued
  <2>5. Ahead(e.turn)'
    BY <1>2, <1>3, <1>7, <1>8, <1>10, <2>1, <2>2, <2>3, <2>4 DEF Ahead
  <2> QED BY <2>5 DEF Stands
<1> QED BY <1>7, <1>9, <1>11, <1>12, ConsumerShows

\* The turn has its placeholder.
LEMMA PlacedShows == TextFirst /\ TurnsInv /\ ShownInv /\ Placed => ShownInv'
<1> SUFFICES ASSUME TextFirst, TurnsInv, ShownInv, Placed
             PROVE  ShownInv'
  OBVIOUS
<1>1. PICK e : e = work.event
  OBVIOUS
<1>2. /\ \/ Succeeds("place") /\ stream' = [NoStream EXCEPT !.turn = e.turn]
         \/ Fails("place") /\ UNCHANGED stream
      /\ work' = Idle /\ UNCHANGED <<source, run, current, queue, lastDelta, missed, accepted, loop>>
  BY <1>1 DEF Placed, arrival
<1>3. work.call = "place" /\ fails \in Nat
  BY <1>2 DEF Succeeds, Fails, TurnsInv, HandlingTypes
<1>4. \/ /\ topic' = Show(<<e.turn, "wait">>, Thinking) /\ fails' = fails
         /\ stream' = [NoStream EXCEPT !.turn = e.turn]
      \/ /\ topic' = topic /\ stream' = stream /\ fails' # 0
  <2>1. CASE Succeeds("place") /\ stream' = [NoStream EXCEPT !.turn = e.turn]
    BY <1>1, <1>3, <2>1, AskedIs DEF Succeeds
  <2>2. CASE Fails("place") /\ UNCHANGED stream
    BY <1>3, <2>2 DEF Fails, Editable
  <2> QED BY <1>2, <2>1, <2>2
<1>5. /\ Consumes(e) /\ work # Idle /\ e.turn \in Turns /\ e.turn # 0 /\ loop = LoopOff
  BY <1>1, <1>2, <1>3, <1>4, ReturnsIs DEF Succeeds, Fails, drift
<1>6. e.kind = "started"
  BY <1>1, <1>3 DEF TurnsInv, CallRight
<1>7. /\ TopicTypes' /\ \A t \in Turns : e.turn # t => Still(t)
  <2>1. "wait" \in Places
    BY DEF Places
  <2> QED BY <1>4, <2>1, ShowIs DEF ShownInv, Around, TopicTypes, Still
<1>8. ASSUME stream' = [NoStream EXCEPT !.turn = e.turn]
      PROVE  /\ stream'.turn = e.turn /\ ~stream'.done /\ ~stream'.moved /\ stream'.msg = "wait"
  BY <1>8 DEF NoStream
<1>9. /\ stream'.turn \in {stream.turn, e.turn}
      /\ stream'.done => stream'.turn = stream.turn /\ stream.done
  BY <1>4, <1>8
<1>10. Leaves(e) /\ DoneQuiet' /\ LoopRight'
  <2>1. Leaves(e)
    BY <1>2, <1>3, <1>7, <1>9 DEF Leaves, Rests
  <2>2. LoopRight'
    BY <1>2, <1>5, LoopStays DEF ShownInv, Around
  <2>3. DoneQuiet'
    BY <1>5, <1>9, DoneKept DEF ShownInv
  <2> QED BY <2>1, <2>2, <2>3
<1>11. ASSUME Stands(e.turn), Matters(e.turn)'
       PROVE  Stands(e.turn)'
  <2>1. Ahead(e.turn)
    <3>1. ~Open(e.turn)
      BY <1>3 DEF Open
    <3>2. ~Answered(e.turn)
      BY <1>3, <1>5, OwnIs
    <3> QED BY <1>11, <3>1, <3>2 DEF Stands
  <2>2. /\ topic' = Show(<<e.turn, "wait">>, Thinking)
        /\ stream'.turn = e.turn /\ ~stream'.done /\ ~stream'.moved /\ stream'.msg = "wait"
    BY <1>4, <1>8, <1>11 DEF Matters, Unhurt
  <2>3. topic'[<<e.turn, "wait">>] = Thinking /\ Thinking # Gone
        /\ \A p \in Places : p # "wait" => topic'[<<e.turn, p>>] = Gone
    <3>1. topic'[<<e.turn, "wait">>] = Thinking
          /\ \A p \in Places : p # "wait" => topic'[<<e.turn, p>>] = topic[<<e.turn, p>>]
      BY <1>5, <2>2, ShowIs DEF ShownInv, Around, Places
    <3>2. Thinking # Gone
      BY DEF Thinking, Gone
    <3> QED BY <2>1, <3>1, <3>2 DEF Ahead, Untouched
  <2>4. /\ Queued("delta", e.turn)' <=> Queued("delta", e.turn)
        /\ Queued("final", e.turn)' <=> Queued("final", e.turn)
    BY <1>2 DEF Queued
  <2>5. work'.call = ""
    BY <1>2, IdleIs
  <2>6. Asides(e.turn)' /\ MessageRight(e.turn)'
    BY <2>2, <2>3, <2>5 DEF Asides, MessageRight, Own, Places
  <2>7. Open(e.turn)'
    BY <1>2, <2>1, <2>2, <2>4, <2>5, <2>6 DEF Open, Ahead
  <2> QED BY <2>7 DEF Stands
<1> QED BY <1>5, <1>7, <1>10, <1>11, ConsumerShows

\* The placeholder is taken away.
LEMMA ClearedShows == TextFirst /\ TurnsInv /\ ShownInv /\ Cleared => ShownInv'
<1> SUFFICES ASSUME TextFirst, TurnsInv, ShownInv, Cleared
             PROVE  ShownInv'
  OBVIOUS
<1>1. PICK e : e = work.event
  OBVIOUS
<1>2. /\ Result("clear") /\ Await(e, "switch")
      /\ UNCHANGED <<source, run, current, queue, lastDelta, missed, accepted, stream, loop>>
  BY <1>1 DEF Cleared, arrival
<1>3. /\ work.call = "clear" /\ work'.event = e /\ work'.call = "switch" /\ fails \in Nat
  BY <1>2, AwaitIs DEF Result, Succeeds, Fails, TurnsInv, HandlingTypes
<1>4. \/ topic' = Show(<<stream.turn, stream.msg>>, Gone) /\ fails' = fails
      \/ topic' = topic /\ fails' # 0
  <2>1. Editable
    BY <1>3 DEF Editable
  <2> QED BY <1>2, <1>3, <2>1, ResultShows, AskedIs
<1>5. /\ Consumes(e) /\ work # Idle /\ e.turn \in Turns /\ e.turn # 0 /\ loop = LoopOff
      /\ stream.msg \in Places
  BY <1>1, <1>2, <1>3, <1>4, ReturnsIs DEF Result, Succeeds, Fails, drift
<1>6. e.kind = "delta" /\ stream.turn = e.turn
  BY <1>1, <1>3 DEF TurnsInv, CallRight
<1>7. /\ TopicTypes' /\ \A t \in Turns : stream.turn # t => Still(t)
  BY <1>4, <1>5, <1>6, ShowIs DEF ShownInv, Around, TopicTypes, Still
<1>8. Leaves(e) /\ DoneQuiet' /\ LoopRight'
  <2>1. Leaves(e)
    BY <1>2, <1>6, <1>7 DEF Leaves
  <2>2. LoopRight'
    BY <1>2, <1>5, LoopStays DEF ShownInv, Around
  <2>3. DoneQuiet'
    BY <1>2, <1>5, DoneKept DEF ShownInv
  <2> QED BY <2>1, <2>2, <2>3
<1>9. ASSUME Stands(e.turn), Matters(e.turn)'
      PROVE  Stands(e.turn)'
  <2>1. Open(e.turn)
    BY <1>3, <1>5, <1>6, <1>9, OwnIs DEF Stands
  <2>2. stream.moved /\ stream.msg = "wait"
    BY <1>3, <2>1 DEF Open, MessageRight, Own
  <2>3. topic' = Show(<<e.turn, "wait">>, Gone)
    BY <1>4, <1>6, <1>9, <2>2 DEF Matters, Unhurt
  <2>4. /\ topic'[<<e.turn, "wait">>] = Gone
        /\ \A p \in Places : p # "wait" => topic'[<<e.turn, p>>] = topic[<<e.turn, p>>]
    BY <1>5, <2>3, ShowIs DEF ShownInv, Around, Places
  <2>5. /\ Queued("delta", e.turn)' <=> Queued("delta", e.turn)
        /\ Queued("final", e.turn)' <=> Queued("final", e.turn)
    BY <1>2 DEF Queued
  <2>6. Asides(e.turn)' /\ MessageRight(e.turn)'
    BY <1>2, <1>3, <2>1, <2>2, <2>4 DEF Open, Asides, MessageRight, Own, Places
  <2>7. ~Editing(e.turn)
    BY <1>3 DEF Editing
  <2>8. Open(e.turn)'
    BY <1>2, <1>3, <2>1, <2>2, <2>5, <2>6, <2>7 DEF Open
  <2> QED BY <2>8 DEF Stands
<1> QED BY <1>5, <1>7, <1>8, <1>9, ConsumerShows

\* The first text has its message.
LEMMA SwitchedShows == TextFirst /\ TurnsInv /\ ShownInv /\ Switched => ShownInv'
<1> SUFFICES ASSUME TextFirst, TurnsInv, ShownInv, Switched
             PROVE  ShownInv'
  OBVIOUS
<1>1. PICK e : e = work.event
  OBVIOUS
<1>2. /\ \/ Succeeds("switch") /\ stream' = [stream EXCEPT !.msg = "body", !.buffer = e.text]
         \/ Fails("switch") /\ UNCHANGED stream
      /\ work' = Idle /\ UNCHANGED <<source, run, current, queue, lastDelta, missed, accepted, loop>>
  BY <1>1 DEF Switched, arrival
<1>3. work.call = "switch" /\ fails \in Nat
  BY <1>2 DEF Succeeds, Fails, TurnsInv, HandlingTypes
<1>4. \/ /\ topic' = Show(<<e.turn, "body">>, e.text) /\ fails' = fails
         /\ stream' = [stream EXCEPT !.msg = "body", !.buffer = e.text]
      \/ /\ topic' = topic /\ stream' = stream /\ fails' # 0
  <2>1. CASE Succeeds("switch") /\ stream' = [stream EXCEPT !.msg = "body", !.buffer = e.text]
    BY <1>1, <1>3, <2>1, AskedIs DEF Succeeds
  <2>2. CASE Fails("switch") /\ UNCHANGED stream
    BY <1>3, <2>2 DEF Fails, Editable
  <2> QED BY <1>2, <2>1, <2>2
<1>5. /\ Consumes(e) /\ work # Idle /\ e.turn \in Turns /\ e.turn # 0 /\ loop = LoopOff
      /\ stream \in StreamRecord /\ e.text \in Seq(Words)
  BY <1>1, <1>2, <1>3, <1>4, ReturnsIs DEF Result, Succeeds, Fails, drift
<1>6. e.kind = "delta" /\ stream.turn = e.turn
  BY <1>1, <1>3 DEF TurnsInv, CallRight
<1>7. /\ TopicTypes' /\ \A t \in Turns : e.turn # t => Still(t)
  BY <1>4, ShowIs DEF ShownInv, Around, TopicTypes, Still
<1>8. /\ stream'.turn = stream.turn /\ stream'.done = stream.done /\ stream'.moved = stream.moved
      /\ stream' # stream => stream'.msg = "body"
  BY <1>4, <1>5 DEF StreamRecord
<1>9. Leaves(e) /\ DoneQuiet' /\ LoopRight'
  <2>1. Leaves(e)
    BY <1>2, <1>6, <1>7, <1>8 DEF Leaves
  <2>2. LoopRight'
    BY <1>2, <1>5, LoopStays DEF ShownInv, Around
  <2>3. DoneQuiet'
    BY <1>5, <1>8, DoneKept DEF ShownInv
  <2> QED BY <2>1, <2>2, <2>3
<1>10. ASSUME Stands(e.turn), Matters(e.turn)'
       PROVE  Stands(e.turn)'
  <2>1. Open(e.turn)
    BY <1>3, <1>5, <1>6, <1>10, OwnIs DEF Stands
  <2>2. /\ topic' = Show(<<e.turn, "body">>, e.text)
        /\ stream' = [stream EXCEPT !.msg = "body", !.buffer = e.text]
    BY <1>4, <1>10 DEF Matters, Unhurt
  <2>3. stream'.msg = "body"
    BY <1>5, <2>2 DEF StreamRecord
  <2>4. /\ topic'[<<e.turn, "body">>] = e.text
        /\ \A p \in Places : p # "body" => topic'[<<e.turn, p>>] = topic[<<e.turn, p>>]
    BY <1>5, <2>2, ShowIs DEF ShownInv, Around, Places
  <2>5. e.text # Gone
    <3>1. Carries(e)
      BY <1>5, QueueKept DEF ShownInv
    <3> QED BY <1>6, <3>1 DEF Carries, Gone
  <2>6. /\ Queued("delta", e.turn)' <=> Queued("delta", e.turn)
        /\ Queued("final", e.turn)' <=> Queued("final", e.turn)
    BY <1>2 DEF Queued
  <2>7. work'.call = ""
    BY <1>2, IdleIs
  <2>8. stream.moved /\ topic[<<e.turn, "wait">>] = Gone
    BY <1>3, <2>1 DEF Open, MessageRight, Own
  <2>9. Asides(e.turn)' /\ MessageRight(e.turn)'
    BY <1>8, <2>1, <2>3, <2>4, <2>5, <2>7, <2>8 DEF Open, Asides, MessageRight, Own, Places
  <2>10. ~Editing(e.turn)
    BY <1>3 DEF Editing
  <2>11. Open(e.turn)'
    BY <1>2, <1>8, <2>1, <2>6, <2>7, <2>8, <2>9, <2>10 DEF Open
  <2> QED BY <2>11 DEF Stands
<1> QED BY <1>5, <1>7, <1>9, <1>10, ConsumerShows

\* A remark or a final answer has the message.
LEMMA ShownShows == TextFirst /\ TurnsInv /\ ShownInv /\ Shown => ShownInv'
<1> SUFFICES ASSUME TextFirst, TurnsInv, ShownInv, Shown
             PROVE  ShownInv'
  OBVIOUS
<1>1. PICK e : e = work.event
  OBVIOUS
<1>2. PICK shown \in BOOLEAN :
        /\ IF shown THEN Succeeds(work.call) ELSE Fails(work.call)
        /\ IF e.kind = "final"
           THEN /\ Claim(e, [stream EXCEPT !.done = @ \/ (shown /\ stream.turn # 0)],
                         [run EXCEPT ![e.turn].synced = @ \/ shown], TRUE)
                /\ stream' = Told([stream EXCEPT !.done = @ \/ (shown /\ stream.turn # 0)])
           ELSE work' = Idle /\ UNCHANGED <<run, stream>>
  BY <1>1 DEF Shown
<1>3. /\ work.call \in {"edit", "reply"} /\ fails \in Nat
      /\ UNCHANGED <<source, current, queue, lastDelta, missed, accepted, loop>>
  BY DEF Shown, TurnsInv, HandlingTypes
<1>4. /\ work' = Idle \/ work'.event = e
      /\ work'.call \in {"", "notify"}
  <2>1. CASE e.kind = "final"
    BY <1>2, <2>1, ClaimIs
  <2> QED BY <1>2, <2>1, IdleIs
<1>5. (fails' = 0 => fails = 0) /\ overtook' = overtook
  <2>1. Result(work.call)
    BY <1>2 DEF Result
  <2>2. overtook' = overtook
    BY <1>2 DEF Succeeds, Fails, drift
  <2> QED BY <1>3, <2>1, <2>2, ResultIs
<1>6. /\ Consumes(e) /\ work # Idle /\ e.turn \in Turns /\ e.turn # 0 /\ loop = LoopOff /\ Genuine(e)
      /\ stream \in StreamRecord /\ run \in Runs /\ stream.turn \in {0} \cup Turns /\ stream.msg \in Places
  BY <1>1, <1>3, <1>4, <1>5, ReturnsIs
<1>7. /\ e.kind \in {"note", "final"}
      /\ stream.turn = IF work.call = "edit" THEN e.turn ELSE 0
  BY <1>1, <1>3 DEF TurnsInv, CallRight
<1>8. TopicTypes' /\ \A t \in Turns : e.turn # t => Still(t)
  <2>1. topic' = topic \/ topic' = Done(Asked)
    BY <1>2 DEF Succeeds, Fails
  <2>2. CASE topic' = topic
    BY <2>2 DEF ShownInv, Around, TopicTypes, Still
  <2>3. CASE topic' = Done(Asked) /\ work.call = "edit"
    <3>1. topic' = topic \/ topic' = Show(<<stream.turn, stream.msg>>, stream.buffer)
      BY <2>3, AskedIs DEF Edit
    <3> QED BY <1>7, <2>2, <2>3, <3>1, ShowIs DEF ShownInv, Around
  <2>4. CASE topic' = Done(Asked) /\ work.call = "reply"
    <3>1. PICK place : topic' = Show(<<e.turn, place>>, e.text)
      BY <1>1, <2>4, AskedIs
    <3> QED BY <3>1, ShowIs DEF ShownInv, Around
  <2> QED BY <1>3, <2>1, <2>2, <2>3, <2>4
<1>9. /\ stream'.turn = stream.turn /\ stream'.moved = stream.moved
      /\ stream'.buffer = stream.buffer /\ stream'.msg = stream.msg
      /\ stream'.done => stream.done \/ (e.kind = "final" /\ stream.turn = e.turn)
      /\ e.kind = "final" /\ shown /\ stream.turn # 0 => stream'.done
      /\ e.kind = "note" => stream' = stream
  <2>1. CASE e.kind = "final"
    <3>1. PICK b \in BOOLEAN : b = (shown /\ stream.turn # 0)
      OBVIOUS
    <3>2. PICK s : s = [stream EXCEPT !.done = @ \/ b]
      OBVIOUS
    <3>3. stream' = Told(s)
      BY <1>2, <2>1, <3>1, <3>2
    <3>4. /\ s \in StreamRecord /\ s.turn = stream.turn /\ s.moved = stream.moved
          /\ s.buffer = stream.buffer /\ s.msg = stream.msg /\ (s.done <=> stream.done \/ b)
      BY <1>6, <3>2 DEF StreamRecord
    <3>5. /\ stream'.turn = s.turn /\ stream'.moved = s.moved
          /\ stream'.buffer = s.buffer /\ stream'.msg = s.msg /\ stream'.done = s.done
      <4>1. CASE s.turn = 0
        BY <3>3, <4>1 DEF Told
      <4>2. CASE s.turn # 0
        <5>1. stream' = [s EXCEPT !.told = TRUE]
          BY <3>3, <4>2 DEF Told
        <5> QED BY <3>4, <5>1 DEF StreamRecord
      <4> QED BY <4>1, <4>2
    <3> QED BY <1>3, <1>7, <2>1, <3>1, <3>4, <3>5
  <2>2. CASE e.kind = "note"
    BY <1>2, <2>2
  <2> QED BY <1>7, <2>1, <2>2
<1>10. \A t \in Turns \ {e.turn} : run'[t].synced = run[t].synced
  <2>1. CASE e.kind = "final"
    <3>1. PICK u \in Turns : u = e.turn
      BY <1>6
    <3>2. PICK r, s : /\ r = [run EXCEPT ![u].synced = @ \/ shown] /\ Claim(e, s, r, TRUE)
      BY <1>2, <2>1, <3>1
    <3>3. r \in Runs /\ \A t \in Turns \ {u} : r[t].synced = run[t].synced
      BY <1>6, <3>2 DEF Runs
    <3>4. run' = r \/ run' = [r EXCEPT ![u].notified = TRUE]
      <4>1. run' = r \/ run' = [r EXCEPT ![e.turn].notified = TRUE]
        <5>1. Claim(e, s, r, TRUE)
          BY <3>2
        <5> QED BY <5>1, ClaimIs
      <4> QED BY <3>1, <4>1
    <3> QED BY <1>6, <3>1, <3>3, <3>4, ClaimedRun
  <2>2. CASE e.kind # "final"
    BY <1>2, <2>2
  <2> QED BY <2>1, <2>2
<1>11. Leaves(e) /\ DoneQuiet' /\ LoopRight'
  <2>1. Leaves(e)
    BY <1>3, <1>8, <1>9, <1>10 DEF Leaves, Rests
  <2>2. LoopRight'
    BY <1>3, <1>6, LoopStays DEF ShownInv, Around
  <2>3. DoneQuiet'
    BY <1>6, <1>9, DoneKept DEF ShownInv
  <2> QED BY <2>1, <2>2, <2>3
<1>12. ASSUME Stands(e.turn), Matters(e.turn)'
       PROVE  Stands(e.turn)'
  <2>1. Open(e.turn)
    BY <1>3, <1>6, <1>7, <1>12, OwnIs DEF Stands
  <2>2. stream.turn = e.turn /\ work.call = "edit"
    BY <1>6, <1>7, <2>1 DEF Open
  <2>3. PICK place \in Places : place = stream.msg
    BY <1>6
  <2>4. /\ topic[<<e.turn, place>>] # Gone /\ stream.buffer # Gone
        /\ place = IF stream.moved THEN "body" ELSE "wait"
        /\ topic[<<e.turn, "wait">>] # Gone <=> ~stream.moved
    BY <2>1, <2>2, <2>3 DEF Open, MessageRight, Own, Gone
  <2>5. Editable
    BY <2>2, <2>3, <2>4 DEF Editable, Message
  <2>6. shown /\ topic' = Done(Asked)
    <3>1. fails' = 0
      BY <1>12 DEF Matters, Unhurt
    <3>2. CASE shown
      BY <1>2, <3>2 DEF Succeeds
    <3>3. CASE ~shown
      <4>1. fails' = fails + 1
        BY <1>2, <2>5, <3>3 DEF Fails
      <4> QED BY <1>3, <3>1, <4>1
    <3> QED BY <3>2, <3>3
  <2>7. topic' = Show(<<e.turn, place>>, stream.buffer)
    BY <1>6, <2>2, <2>3, <2>4, <2>6, MessageIs, AskedIs DEF Edit
  <2>8. /\ topic'[<<e.turn, place>>] = stream.buffer
        /\ \A p \in Places : p # place => topic'[<<e.turn, p>>] = topic[<<e.turn, p>>]
    BY <1>6, <2>7, ShowIs DEF ShownInv, Around
  <2>9. Asides(e.turn)'
    BY <2>1, <2>4, <2>8 DEF Open, Asides, Places
  <2>10. /\ Queued("delta", e.turn)' <=> Queued("delta", e.turn)
         /\ Queued("final", e.turn)' <=> Queued("final", e.turn)
    BY <1>3 DEF Queued
  <2>11. CASE e.kind = "note"
    <3>1. work'.call = "" /\ stream' = stream
      BY <1>2, <1>9, <2>11, IdleIs
    <3>2. MessageRight(e.turn)'
      BY <2>1, <2>2, <2>3, <2>4, <2>8, <3>1 DEF Open, MessageRight, Own, Places
    <3>3. ~Editing(e.turn)
      BY <1>1, <2>11 DEF Editing
    <3>4. Open(e.turn)'
      BY <1>3, <2>1, <2>9, <2>10, <3>1, <3>2, <3>3 DEF Open
    <3> QED BY <3>4 DEF Stands
  <2>12. CASE e.kind = "final"
    <3>1. <<e.turn, "final">> \in accepted
      BY <1>6, <2>12 DEF Genuine
    <3>2. \A i \in DOMAIN queue : queue[i].turn = e.turn => queue[i].kind \in EndKinds
      BY <1>1, <2>12 DEF ShownInv, Around, FinalLast
    <3>3. ~Queued("final", e.turn)
      BY <3>2 DEF Queued, EndKinds
    <3>4. stream.moved /\ stream.buffer = Answer
      BY <2>1, <3>1, <3>3 DEF Open, Editing
    <3>5. topic'[<<e.turn, "body">>] = Answer /\ topic'[<<e.turn, "wait">>] = Gone
      BY <2>4, <2>8, <3>4 DEF Places
    <3>6. work'.event.turn = e.turn => work'.call = "notify"
      <4>1. work' = Idle \/ work' = Tell(e)
        BY <1>2, <2>12 DEF Claim
      <4>2. Tell(e).call = "notify"
        BY DEF Tell
      <4> QED BY <1>6, <4>1, <4>2, IdleIs
    <3>7. stream'.done /\ stream'.moved /\ stream'.buffer = Answer
      BY <1>6, <1>9, <2>2, <2>6, <2>12, <3>4
    <3>8. Answered(e.turn)'
      BY <1>3, <1>4, <1>6, <2>9, <3>1, <3>2, <3>5, <3>6, <3>7, MessageIs DEF Answered, Holds, TextFirst, Gone, Places
    <3> QED BY <3>8 DEF Stands
  <2> QED BY <1>7, <2>11, <2>12
<1> QED BY <1>6, <1>8, <1>11, <1>12, ConsumerShows

\* The message of a turn that gets no answer has its last form.
LEMMA ClosedShows == TextFirst /\ TurnsInv /\ ShownInv /\ Closed => ShownInv'
<1> SUFFICES ASSUME TextFirst, TurnsInv, ShownInv, Closed
             PROVE  ShownInv'
  OBVIOUS
<1>1. PICK e : e = work.event
  OBVIOUS
<1>2. /\ Result("last") \/ Result("drop")
      /\ Close(e) /\ UNCHANGED <<source, current, queue, lastDelta, missed, accepted, loop>>
  BY <1>1 DEF Closed
<1>3. /\ work.call \in {"last", "drop"} /\ fails \in Nat /\ (fails' = 0 => fails = 0)
      /\ topic' = topic \/ topic' = Done(Asked)
      /\ overtook' = overtook
  <2>1. fails \in Nat
    BY DEF TurnsInv, HandlingTypes
  <2> QED BY <1>2, <2>1, ResultIs DEF Result, Succeeds, Fails, drift
<1>4. work.event.turn \in Turns /\ run \in Runs
  BY <1>2, <1>3, ReturnIs
<1>5. /\ stream' = NoStream /\ (work' = Idle \/ work'.event = e)
      /\ \A t \in Turns \ {e.turn} : run'[t].synced = run[t].synced
  BY <1>1, <1>2, <1>4, ClosesRun
<1>6. /\ Consumes(e) /\ work # Idle /\ e.turn \in Turns /\ e.turn # 0 /\ loop = LoopOff
  BY <1>1, <1>2, <1>3, <1>5, ReturnsIs
<1>7. e.kind \in EndKinds /\ stream.turn = e.turn
  BY <1>1, <1>3 DEF TurnsInv, CallRight
<1>8. TopicTypes' /\ \A t \in Turns : e.turn # t => Still(t)
  <2>1. topic' = topic \/ \E text : topic' = Show(<<stream.turn, stream.msg>>, text)
    BY <1>3, AskedIs DEF Edit
  <2>2. CASE topic' = topic
    BY <2>2 DEF ShownInv, Around, TopicTypes, Still
  <2>3. CASE \E text : topic' = Show(<<stream.turn, stream.msg>>, text)
    BY <1>7, <2>3, ShowIs DEF ShownInv, Around
  <2> QED BY <2>1, <2>2, <2>3
<1>9. stream'.turn = 0 /\ ~stream'.done
  BY <1>5 DEF NoStream
<1>10. Leaves(e) /\ DoneQuiet' /\ LoopRight'
  <2>1. Leaves(e)
    BY <1>3, <1>5, <1>8, <1>9 DEF Leaves, Rests
  <2>2. LoopRight'
    BY <1>2, <1>6, LoopStays DEF ShownInv, Around
  <2> QED BY <1>9, <2>1, <2>2 DEF DoneQuiet
<1>11. ~Stands(e.turn)
  <2>1. ~Ahead(e.turn)
    BY <1>6, <1>7, OwnIs DEF EndKinds
  <2>2. ~Open(e.turn)
    BY <1>3 DEF Open
  <2>3. ~Answered(e.turn)
    BY <1>3, <1>6, OwnIs
  <2> QED BY <2>1, <2>2, <2>3 DEF Stands
<1> QED BY <1>6, <1>8, <1>10, <1>11, ConsumerShows

\* A notification is sent: the topic is as it was.
LEMMA NotifiedShows == TextFirst /\ TurnsInv /\ ShownInv /\ Notified => ShownInv'
<1> SUFFICES ASSUME TextFirst, TurnsInv, ShownInv, Notified
             PROVE  ShownInv'
  OBVIOUS
<1>1. PICK e : e = work.event
  OBVIOUS
<1>2. /\ work.call = "notify" /\ work' = Idle /\ (fails' = fails \/ fails' = fails + 1) /\ fails \in Nat
      /\ UNCHANGED <<source, run, current, queue, lastDelta, missed, accepted, stream, loop, topic, overtook>>
  BY DEF Notified, arrival, drift, TurnsInv, HandlingTypes
<1>3. fails' = 0 => fails = 0
  BY <1>2
<1>4. /\ Consumes(e) /\ work # Idle /\ e.turn \in Turns /\ e.turn # 0 /\ loop = LoopOff
  BY <1>1, <1>2, <1>3, ReturnsIs
<1>5. Leaves(e)
  BY <1>2, IdleIs DEF Leaves, Still
<1>6. TopicTypes' /\ DoneQuiet' /\ LoopRight'
  <2>1. LoopRight'
    BY <1>2, <1>4, LoopStays DEF ShownInv, Around
  <2>2. DoneQuiet'
    BY <1>2, <1>4, DoneKept DEF ShownInv
  <2> QED BY <1>2, <2>1, <2>2 DEF ShownInv, Around, TopicTypes
<1>7. ASSUME Stands(e.turn)
      PROVE  Stands(e.turn)'
  <2>1. Answered(e.turn)
    BY <1>2, <1>4, <1>7, OwnIs DEF Stands, Open
  <2>2. Answered(e.turn)'
    BY <1>2, <1>4, <2>1, IdleIs DEF Answered, Asides, Holds
  <2> QED BY <2>2 DEF Stands
<1> QED BY <1>4, <1>5, <1>6, <1>7, ConsumerShows

-----------------------------------------------------------------------------
(* The loop, and a restart.                                                *)

\* A step beside the consumer: of the turns that matter messages neither come nor go,
\* and what was answered stays so.
LEMMA BesideShows ==
  ASSUME ShownInv, UNCHANGED <<arrival, work, stream>>, fails' = 0 => fails = 0,
         TopicTypes', LoopRight',
         \A t \in Turns : Matters(t) => Same(t) /\ (Answered(t) => Holds(<<t, "body">>)')
  PROVE  ShownInv'
<1>1. UNCHANGED <<source, run, current, queue, lastDelta, missed, accepted>>
  BY DEF arrival
<1>2. Around'
  BY <1>1 DEF ShownInv, Around, TextsRight, FinalLast, DoneQuiet, Queued, Carries
<1>3. ASSUME NEW t \in Turns, Matters(t)'
      PROVE  Stands(t)'
  <2>1. Matters(t)
    BY <1>1, <1>3 DEF Matters, Unhurt
  <2>2. \A kind : Queued(kind, t)' <=> Queued(kind, t)
    BY <1>1 DEF Queued
  <2>3. CASE Ahead(t)
    <3>1. Untouched(t)'
      BY <2>1, <2>3 DEF Ahead, Untouched, Same
    <3>2. Ahead(t)'
      BY <1>1, <2>2, <2>3, <3>1 DEF Ahead, Starting
    <3> QED BY <3>2 DEF Stands
  <2>4. CASE Open(t)
    <3>1. Asides(t)' /\ MessageRight(t)'
      BY <1>1, <2>1, <2>4 DEF Open, Asides, MessageRight, Own, Same, Places
    <3>2. Open(t)'
      BY <1>1, <2>2, <2>4, <3>1 DEF Open, Editing
    <3> QED BY <3>2 DEF Stands
  <2>5. CASE Answered(t)
    <3>1. Same(t) /\ Holds(<<t, "body">>)'
      BY <2>1, <2>5
    <3>2. Answered(t)'
      BY <1>1, <2>5, <3>1 DEF Answered, Asides, Same, Places
    <3> QED BY <3>2 DEF Stands
  <2> QED BY <2>1, <2>3, <2>4, <2>5 DEF ShownInv, Stands
<1> QED BY <1>2, <1>3 DEF ShownInv

\* The loop's looks and edits.
LEMMA ThrottleShows == TurnsInv /\ ShownInv /\ Throttle => ShownInv'
<1> SUFFICES ASSUME TurnsInv, ShownInv, Throttle
             PROVE  ShownInv'
  OBVIOUS
<1>1. stream \in StreamRecord /\ fails \in Nat
  BY DEF TurnsInv, HandlingTypes
<1>2. CASE LoopLooks
  <2>1. /\ loop.stage \in {"due", "sleeping"} /\ UNCHANGED <<arrival, work, stream, topic, fails, overtook>>
        /\ loop' = IF stream.turn # 0 /\ ~stream.done /\ stream.buffer # loop.text
                   THEN [stage |-> "editing", text |-> stream.buffer] ELSE LoopOff
    BY <1>2 DEF LoopLooks, drift
  <2>2. loop # LoopOff
    BY <2>1 DEF LoopOff
  <2>3. work = Idle /\ stream.moved /\ stream.buffer # <<>> /\ stream.buffer \in Seq(Words)
    BY <1>1, <2>2 DEF ShownInv, Around, LoopRight, StreamRecord
  <2>4. LoopRight'
    <3>1. CASE loop' = LoopOff
      BY <3>1, LoopStays DEF ShownInv, Around
    <3>2. CASE /\ stream.turn # 0 /\ ~stream.done
               /\ loop' = [stage |-> "editing", text |-> stream.buffer]
      <4>1. /\ loop' \in [stage : {"off", "due", "editing", "sleeping"}, text : Seq(Words)]
            /\ loop'.text # <<>>
        BY <2>3, <3>2
      <4> QED BY <2>1, <2>3, <3>2, <4>1 DEF LoopRight
    <3> QED BY <2>1, <3>1, <3>2
  <2>5. TopicTypes' /\ NoneGoes /\ \A t \in Turns : Still(t)
    BY <2>1 DEF ShownInv, Around, TopicTypes, NoneGoes, Same, Still
  <2>6. \A t \in Turns : Same(t) /\ (Answered(t) => Holds(<<t, "body">>)')
    BY <2>1, <2>5 DEF NoneGoes, Answered, Holds, Still, Places
  <2> QED BY <2>1, <2>4, <2>5, <2>6, BesideShows
<1>3. CASE LoopEdited
  <2>1. /\ loop.stage = "editing" /\ UNCHANGED <<arrival, work, stream, overtook>>
        /\ topic' = Edit(<<stream.turn, stream.msg>>, loop.text) \/ topic' = topic
        /\ fails' = fails \/ fails' = fails + 1
        /\ loop' = [loop EXCEPT !.stage = "sleeping"]
    BY <1>3, LoopAskedIs DEF LoopEdited
  <2>2. loop # LoopOff /\ loop.text # <<>>
    BY <2>1 DEF LoopOff, ShownInv, Around, LoopRight
  <2>3. work = Idle /\ ~stream.done /\ stream.turn # 0 /\ stream.moved /\ stream.buffer # <<>>
    BY <2>2 DEF ShownInv, Around, LoopRight
  <2>4. LoopRight'
    <3>1. loop \in [stage : {"off", "due", "editing", "sleeping"}, text : Seq(Words)]
      BY DEF ShownInv, Around, LoopRight
    <3>2. /\ loop' \in [stage : {"off", "due", "editing", "sleeping"}, text : Seq(Words)]
          /\ loop'.stage = "sleeping"
      BY <2>1, <3>1
    <3> QED BY <2>1, <2>3, <3>2 DEF LoopRight
  <2>5. TopicTypes' /\ NoneGoes /\ \A t \in Turns : t # stream.turn => Still(t)
    <3>1. CASE topic' = topic
      BY <3>1 DEF ShownInv, Around, TopicTypes, NoneGoes, Same, Still
    <3>2. CASE topic' = Edit(<<stream.turn, stream.msg>>, loop.text)
      BY <2>2, <3>2, EditIs DEF ShownInv, Around, Gone
    <3> QED BY <2>1, <3>1, <3>2
  <2>6. fails' = 0 => fails = 0
    BY <1>1, <2>1
  <2>7. \A t \in Turns : Same(t) /\ (Answered(t) => Holds(<<t, "body">>)')
    <3>1. \A t \in Turns : Answered(t) => Still(t)
      BY <2>3, <2>5 DEF Answered
    <3> QED BY <2>1, <2>5, <3>1 DEF NoneGoes, Answered, Holds, Still, Places
  <2> QED BY <2>1, <2>3, <2>4, <2>5, <2>6, <2>7, BesideShows
<1> QED BY <1>2, <1>3 DEF Throttle

\* A call given up is carried out: it may overtake an answer, and nothing else that matters.
LEMMA LandsShows == TurnsInv /\ ShownInv /\ DriftRight /\ Lands => ShownInv'
<1> SUFFICES ASSUME TurnsInv, ShownInv, DriftRight, Lands
             PROVE  ShownInv'
  OBVIOUS
<1>1. PICK a \in adrift :
        /\ topic' = Done(a)
        /\ overtook' = IF ~a.new /\ Holds(a.msg) THEN overtook \cup {<<a.msg, a.text>>} ELSE overtook
        /\ UNCHANGED <<arrival, work, stream, loop, fails>>
  BY DEF Lands
<1>2. PICK n, place : /\ a.msg = <<n, place>>
                      /\ (~a.new /\ a.text # Gone) \/ (n \in Turns => Lost(n))
  BY DEF DriftRight, Harmless
<1>3. PICK text : text = a.text
  OBVIOUS
<1>4. \/ topic' = Show(<<n, place>>, text)
      \/ ~a.new /\ topic' = Edit(<<n, place>>, text)
  BY <1>1, <1>2, <1>3 DEF Done
<1>5. TopicTypes' /\ \A t \in Turns : t # n => Still(t)
  <2>1. topic' = topic \/ topic' = Show(<<n, place>>, text)
    BY <1>4 DEF Edit
  <2>2. CASE topic' = topic
    BY <2>2 DEF ShownInv, Around, TopicTypes, Still
  <2>3. CASE topic' = Show(<<n, place>>, text)
    BY <2>3, ShowIs DEF ShownInv, Around
  <2> QED BY <2>1, <2>2, <2>3
<1>6. ASSUME NEW t \in Turns, Matters(t)
      PROVE  Same(t) /\ (Answered(t) => Holds(<<t, "body">>)')
  <2>1. CASE t # n
    <3>1. Still(t) /\ overtook \subseteq overtook'
      BY <1>1, <1>5, <2>1
    <3> QED BY <3>1 DEF Still, Same, Answered, Holds, Places
  <2>2. CASE t = n
    <3>1. ~a.new /\ text # Gone
      BY <1>2, <1>3, <1>6, <2>2 DEF Lost
    <3>2. topic' = Edit(<<n, place>>, text)
      BY <1>1, <1>2, <1>3, <3>1 DEF Done
    <3>3. /\ NoneGoes
          /\ \/ topic'[<<t, "body">>] = topic[<<t, "body">>]
             \/ place = "body" /\ topic'[<<t, "body">>] = text
      BY <3>1, <3>2, EditIs DEF ShownInv, Around, Places
    <3>4. ASSUME Answered(t)
          PROVE  Holds(<<t, "body">>)'
      <4>1. Holds(<<t, "body">>)
        BY <3>4 DEF Answered
      <4>2. CASE topic'[<<t, "body">>] = topic[<<t, "body">>]
        <5>1. overtook \subseteq overtook'
          BY <1>1
        <5> QED BY <4>1, <4>2, <5>1 DEF Holds
      <4>3. CASE place = "body" /\ topic'[<<t, "body">>] = text
        <5>1. a.msg = <<t, "body">>
          BY <1>2, <2>2, <4>3
        <5>2. <<<<t, "body">>, text>> \in overtook'
          BY <1>1, <1>3, <3>1, <4>1, <5>1
        <5> QED BY <3>1, <4>1, <4>3, <5>2 DEF Holds
      <4> QED BY <3>3, <4>2, <4>3
    <3> QED BY <3>3, <3>4 DEF NoneGoes
  <2> QED BY <2>1, <2>2
<1>7. LoopRight'
  BY <1>1, LoopStays DEF ShownInv, Around
<1> QED BY <1>1, <1>5, <1>6, <1>7, BesideShows

\* A turn that a restart took nothing of, and whose message is open, has nothing in hand.
LEMMA RestartLeaves ==
  ASSUME TurnsInv, Restart, NEW t \in Turns, Matters(t)'
  PROVE  /\ Matters(t) /\ t # 0 /\ t \in Nat
         /\ \A kind : ~Queued(kind, t) /\ ~Queued(kind, t)'
         /\ \A i \in DOMAIN queue : queue[i].turn # t
         /\ work # Idle => work.event.turn # t
         /\ Open(t) => <<t, "final">> \notin accepted /\ work = Idle
<1>1. /\ missed' = missed \cup {queue[k].turn : k \in DOMAIN queue}
                          \cup (IF work = Idle THEN {} ELSE {work.event.turn})
                          \cup (IF loop = LoopOff THEN {} ELSE {stream.turn})
      /\ queue' = <<>> /\ UNCHANGED <<source, current, accepted, fails>>
  BY DEF Restart
<1>2. DOMAIN queue' = {}
  BY <1>1
<1>3. Matters(t) /\ t # 0 /\ t \in Nat /\ t \notin missed'
  BY <1>1, TurnsAre DEF Matters, Unhurt
<1>4. /\ \A i \in DOMAIN queue : queue[i].turn # t
      /\ work # Idle => work.event.turn # t
  BY <1>1, <1>3
<1>5. \A kind : ~Queued(kind, t) /\ ~Queued(kind, t)'
  BY <1>2, <1>4 DEF Queued
<1>6. ASSUME Open(t)
      PROVE  <<t, "final">> \notin accepted /\ work = Idle
  <2>1. work.event.turn # t
    BY <1>3, <1>4, IdleIs
  <2>2. <<t, "final">> \notin accepted
    BY <1>5, <1>6, <2>1 DEF Open, Editing
  <2>3. ASSUME work # Idle
        PROVE  FALSE
    <3>1. /\ Genuine(work.event) /\ work.event.turn \in Turns
          /\ current \in {0} \cup Turns /\ stream.turn = t
      BY <1>6, <2>3 DEF TurnsInv, InOrder, HandlingTypes, ArrivalTypes, Events, Open
    <3>2. work.event.turn \in Nat /\ current \in Nat
      BY <3>1, TurnsAre
    <3>3. t <= work.event.turn /\ work.event.turn <= current
      BY <3>1 DEF Genuine
    <3>4. source[t].stage # "none"
      BY <1>3, <3>2, <3>3 DEF TurnsInv, InOrder
    <3>5. current = t
      BY <1>3, <2>2, <3>4 DEF Matters
    <3> QED BY <1>3, <2>1, <3>2, <3>3, <3>5
  <2> QED BY <2>2, <2>3
<1> QED BY <1>3, <1>4, <1>5, <1>6

\* A restart takes what is queued, in hand and in the loop: the turns it took
\* nothing of are as they were.
LEMMA RestartShows == TextFirst /\ TurnsInv /\ ShownInv /\ Restart => ShownInv'
<1> SUFFICES ASSUME TextFirst, TurnsInv, ShownInv, Restart
             PROVE  ShownInv'
  OBVIOUS
<1>1. /\ missed' = missed \cup {queue[k].turn : k \in DOMAIN queue}
                          \cup (IF work = Idle THEN {} ELSE {work.event.turn})
                          \cup (IF loop = LoopOff THEN {} ELSE {stream.turn})
      /\ queue' = <<>> /\ lastDelta' = 0 /\ work' = Idle /\ loop' = LoopOff
      /\ UNCHANGED <<source, run, current, accepted, stream, topic, overtook, fails>>
  BY DEF Restart
<1>2. DOMAIN queue' = {}
  BY <1>1
<1>3. DOMAIN queue' = {} /\ work'.call = "" /\ work'.event.kind = "none" /\ work'.event.turn = 0
  BY <1>1, <1>2, IdleIs
<1>4. Around'
  <2>1. TopicTypes'
    BY <1>1 DEF ShownInv, Around, TopicTypes
  <2>2. TextsRight'
    BY <1>3 DEF TextsRight, Carries
  <2>3. FinalLast'
    BY <1>1, <1>3 DEF ShownInv, Around, FinalLast
  <2>4. DoneQuiet'
    BY <1>1, <1>3 DEF ShownInv, Around, DoneQuiet, Queued
  <2>5. LoopRight'
    BY <1>1, LoopStays DEF ShownInv, Around
  <2> QED BY <2>1, <2>2, <2>3, <2>4, <2>5 DEF Around
<1>5. ASSUME NEW t \in Turns, Matters(t)'
      PROVE  Stands(t)'
  <2>1. /\ Matters(t) /\ t # 0 /\ t \in Nat
        /\ \A kind : ~Queued(kind, t) /\ ~Queued(kind, t)'
        /\ \A i \in DOMAIN queue : queue[i].turn # t
        /\ work # Idle => work.event.turn # t
    BY RestartLeaves, <1>5
  <2>2. work.event.turn # t /\ ~Starting(t)
    BY <2>1, IdleIs DEF Starting
  <2>3. Still(t)
    BY <1>1 DEF Still
  <2>4. CASE Ahead(t)
    <3>1. source[t].stage = "none" /\ Untouched(t)'
      BY <2>2, <2>3, <2>4 DEF Ahead, Untouched, Still
    <3>2. Ahead(t)'
      BY <1>1, <1>3, <2>1, <2>4, <3>1 DEF Ahead
    <3> QED BY <3>2 DEF Stands
  <2>5. CASE Open(t)
    <3>1. <<t, "final">> \notin accepted /\ work = Idle
      BY <1>5, <2>5, RestartLeaves
    <3>3. work.call = "" /\ Still(t)
      BY <2>3, <3>1, IdleIs
    <3>4. Asides(t)' /\ MessageRight(t)'
      BY <1>1, <1>3, <2>5, <3>3 DEF Open, Asides, MessageRight, Own, Still, Places
    <3>5. Open(t)'
      BY <1>1, <1>3, <2>1, <2>5, <3>1, <3>4 DEF Open
    <3> QED BY <3>5 DEF Stands
  <2>6. CASE Answered(t)
    <3>1. Answered(t)'
      BY <1>1, <1>3, <2>1, <2>3, <2>6 DEF Answered, Asides, Still, Places, Holds
    <3> QED BY <3>1 DEF Stands
  <2> QED BY <2>1, <2>4, <2>5, <2>6 DEF ShownInv, Stands
<1> QED BY <1>4, <1>5 DEF ShownInv

-----------------------------------------------------------------------------
(* An event is published.                                                  *)

\* What else a step of the provider does to its turn.
Utters(kind, t, text) ==
  /\ Tells(kind, t) /\ Carries(Event(kind, t, text))
  /\ kind \in {"delta", "note", "final"} => source[t].stage = "live"
  /\ source[t].pieces > 0 => source'[t].pieces > 0
  /\ kind \notin {"delta", "final"} => source'[t].pieces = source[t].pieces
  /\ kind = "final" => source[t].pieces > 0

\* A turn that began has begun for good, and one that does not matter never will.
Lasting ==
  \A u \in Turns :
    (Matters(u)' => Matters(u)) /\ (source[u].stage # "none" => source'[u].stage # "none")

\* No news to the bot: a turn that is told more of this way has been answered, or is
\* not the current one.
LEMMA UnheardShows ==
  ASSUME TurnsInv, ShownInv, NEW t \in Turns, NEW kind \in AllKinds, NEW text, kind # "started",
         Utters(kind, t, text), ~Concerns(kind, t),
         UNCHANGED <<run, current, queue, lastDelta, missed, accepted>>, UNCHANGED <<handling, overtook>>
  PROVE  ShownInv' /\ Lasting
<1>1. UNCHANGED <<work, stream, loop, topic, fails, overtook>>
  BY DEF handling
<1>2. /\ \A u \in Turns \ {t} : source'[u] = source[u]
      /\ source[t].stage \in {"live", "final"} /\ source'[t].stage \in {"live", "final", "over"}
      /\ source[t].stage # "live" => source'[t].stage # "live"
      /\ source[t].pieces > 0 => source'[t].pieces > 0
      /\ current # t
  <2>1. Tells(kind, t) /\ (source[t].pieces > 0 => source'[t].pieces > 0)
    BY DEF Utters
  <2>2. kind \in {"delta", "note", "final"} \cup EndKinds
    BY DEF AllKinds
  <2>3. source[t].stage # "live" => kind \in EndKinds
    BY <2>2 DEF Utters
  <2> QED BY <2>1, <2>3 DEF Tells, Concerns
<1>3. \A kd, u : Queued(kd, u)' <=> Queued(kd, u)
  BY DEF Queued
<1>4. Around'
  <2>1. TopicTypes' /\ TextsRight' /\ LoopRight'
    BY <1>1 DEF ShownInv, Around, TopicTypes, TextsRight, Carries, LoopRight
  <2>2. FinalLast'
    BY <1>1, <1>2 DEF ShownInv, Around, FinalLast, TurnsInv, ArrivalTypes
  <2>3. DoneQuiet'
    <3> SUFFICES ASSUME stream.done
                 PROVE  DoneQuiet'
      BY <1>1 DEF DoneQuiet
    <3>1. /\ stream.turn # 0 /\ ~Queued("delta", stream.turn) /\ stream.turn \in Turns
          /\ source[stream.turn].stage # "live" \/ current # stream.turn
      BY DEF ShownInv, Around, DoneQuiet, TurnsInv, HandlingTypes, StreamRecord
    <3>2. source'[stream.turn].stage # "live" \/ current # stream.turn
      BY <1>2, <3>1
    <3> QED BY <1>1, <1>3, <3>1, <3>2 DEF DoneQuiet
  <2> QED BY <2>1, <2>2, <2>3 DEF Around
<1>5. Lasting
  BY <1>1, <1>2 DEF Matters, Unhurt, Lasting
<1>6. ASSUME NEW u \in Turns, Matters(u)'
      PROVE  Stands(u)'
  <2>1. Matters(u) /\ (source'[u].stage # "none" => source[u].stage # "none")
    BY <1>1, <1>2, <1>6, <1>5 DEF Matters, Unhurt, Lasting
  <2>2. source'[u].pieces > 0 => source[u].pieces > 0
    <3>1. CASE u # t
      BY <1>2, <3>1
    <3>2. CASE u = t
      <4>1. <<u, "final">> \in accepted
        BY <1>2, <2>1, <3>2 DEF Matters
      <4> QED BY <4>1 DEF ShownInv, Around, FinalLast
    <3> QED BY <3>1, <3>2
  <2>3. CASE Ahead(u)
    <3>1. Ahead(u)'
      BY <1>1, <1>3, <2>1, <2>2, <2>3 DEF Ahead, Untouched, Starting
    <3> QED BY <3>1 DEF Stands
  <2>4. CASE Open(u)
    <3>1. Open(u)'
      BY <1>1, <1>3, <2>2, <2>4 DEF Open, Asides, MessageRight, Own, Editing
    <3> QED BY <3>1 DEF Stands
  <2>5. CASE Answered(u)
    <3>1. Answered(u)'
      BY <1>1, <2>5 DEF Answered, Asides, Holds
    <3> QED BY <3>1 DEF Stands
  <2> QED BY <2>1, <2>3, <2>4, <2>5 DEF ShownInv, Stands
<1> QED BY <1>4, <1>6, <1>5 DEF ShownInv

\* What publishing an event leaves at the queue's end, and for text to join.
LEMMA EndsWith ==
  ASSUME TurnsInv, ShownInv, NEW t \in Turns, NEW kind \in AllKinds, NEW text \in Seq(Words),
         Carries(Event(kind, t, text)), Enqueue(kind, t, text)
  PROVE  /\ \A i \in DOMAIN queue' : Carries(queue'[i])
         /\ lastDelta' # 0 => /\ queue' # <<>> /\ queue'[Len(queue')].kind = "delta"
                              /\ queue'[Len(queue')].turn = lastDelta'
         /\ kind = "delta" /\ t \notin missed' => Queued("delta", t)'
<1>1. /\ queue \in Seq(Events) /\ \A i \in DOMAIN queue : Carries(queue[i])
      /\ lastDelta # 0 =>
           queue # <<>> /\ queue[Len(queue)].kind = "delta" /\ queue[Len(queue)].turn = lastDelta
  BY DEF TurnsInv, ArrivalTypes, ShownInv, Around, TextsRight, FinalLast
<1>2. t # 0
  BY TurnsAre
<1>3. CASE Joins(kind, t)
  <2>1. /\ queue' = [k \in DOMAIN queue |->
                       IF k = Len(queue) THEN [queue[k] EXCEPT !.text = @ \o text] ELSE queue[k]]
        /\ lastDelta' = lastDelta /\ kind = "delta" /\ lastDelta = t
    BY <1>3 DEF Enqueue, Joins
  <2>2. PICK n \in Nat : n = Len(queue) /\ DOMAIN queue = 1 .. n
    BY <1>1
  <2>3. n \in DOMAIN queue
    <3>1. queue # <<>>
      BY <1>1, <1>2, <2>1
    <3>2. n # 0
      BY <1>1, <2>2, <3>1
    <3> QED BY <2>2, <3>2
  <2>4. PICK f \in Events : f = queue[n] /\ f.kind = "delta" /\ f.turn = t /\ f.text \in Seq(Words)
    <3>1. PICK f \in Events : f = queue[n]
      BY <1>1, <2>3
    <3>2. queue[n].kind = "delta" /\ queue[n].turn = t
      BY <1>1, <1>2, <2>1, <2>2
    <3>3. f.text \in Seq(Words)
      BY DEF Events
    <3> QED BY <3>1, <3>2, <3>3
  <2>5. PICK more \in Seq(Words) : more = f.text \o text /\ more # <<>>
    <3>1. text # <<>>
      BY <2>1 DEF Carries, Event
    <3> QED BY <2>4, <3>1, JoinIs
  <2>6. /\ DOMAIN queue' = 1 .. n /\ queue'[n] = [f EXCEPT !.text = more]
        /\ \A i \in DOMAIN queue : i # n => queue'[i] = queue[i]
    BY <2>1, <2>2, <2>3, <2>4, <2>5
  <2>7. queue'[n].kind = "delta" /\ queue'[n].turn = t /\ queue'[n].text = more
    BY <2>4, <2>6 DEF Events
  <2>8. \A i \in DOMAIN queue' : Carries(queue'[i])
    <3> SUFFICES ASSUME NEW i \in DOMAIN queue'
                 PROVE  Carries(queue'[i])
      OBVIOUS
    <3>1. CASE i = n
      BY <2>5, <2>7, <3>1 DEF Carries
    <3>2. CASE i # n
      BY <1>1, <2>2, <2>6, <3>2
    <3> QED BY <3>1, <3>2
  <2>9. Len(queue') = n /\ queue' # <<>>
    <3>1. queue' \in Seq(Events)
      BY <1>1, EnqueueIs
    <3>2. Len(queue') = n
      BY <2>2, <2>6, <3>1
    <3>3. PICK q : q = queue'
      OBVIOUS
    <3>4. Len(q) # 0
      BY <2>2, <2>3, <3>2, <3>3
    <3> QED BY <3>2, <3>3, <3>4
  <2>10. Queued("delta", t)'
    BY <2>2, <2>3, <2>6, <2>7 DEF Queued
  <2> QED BY <2>1, <2>7, <2>8, <2>9, <2>10
<1>4. CASE ~Joins(kind, t) /\ Len(queue) = MaxQueue
  <2>1. queue' = queue /\ lastDelta' = 0 /\ missed' = missed \cup {t}
    BY <1>4 DEF Enqueue
  <2> QED BY <1>1, <2>1
<1>5. CASE ~Joins(kind, t) /\ Len(queue) # MaxQueue
  <2>1. PICK f : f = Event(kind, t, text)
    OBVIOUS
  <2>2. f \in Events /\ f.kind = kind /\ f.turn = t /\ Carries(f)
    BY <2>1 DEF Event, Events
  <2>3. /\ queue' = Append(queue, f) /\ lastDelta' = IF kind = "delta" THEN t ELSE 0
    BY <1>5, <2>1 DEF Enqueue
  <2>4. PICK n \in Nat : n = Len(queue)
    BY <1>1
  <2>5. /\ Len(queue') = n + 1 /\ queue'[n + 1] = f /\ n + 1 \in DOMAIN queue'
        /\ \A i \in DOMAIN queue' : i = n + 1 \/ (i \in DOMAIN queue /\ queue'[i] = queue[i])
    BY <1>1, <2>2, <2>3, <2>4
  <2>6. queue' # <<>>
    <3>1. PICK q : q = queue'
      OBVIOUS
    <3>2. Len(q) # 0
      BY <2>4, <2>5, <3>1
    <3> QED BY <3>1, <3>2
  <2>7. \A i \in DOMAIN queue' : Carries(queue'[i])
    BY <1>1, <2>2, <2>5
  <2>8. kind = "delta" => Queued("delta", t)'
    BY <2>2, <2>5 DEF Queued
  <2>9. lastDelta' # 0 => queue'[Len(queue')].kind = "delta" /\ queue'[Len(queue')].turn = lastDelta'
    BY <2>2, <2>3, <2>5
  <2> QED BY <2>6, <2>7, <2>8, <2>9
<1> QED BY <1>3, <1>4, <1>5

\* News: the event is of the newest turn, behind whatever is queued or in hand.
LEMMA HeardShows ==
  ASSUME TurnsInv, ShownInv, NEW t \in Turns, NEW kind \in AllKinds, NEW text \in Seq(Words),
         Utters(kind, t, text), UNCHANGED <<handling, overtook>>, current' = t, Enqueue(kind, t, text),
         \A u \in Turns : run'[u].synced = run[u].synced,
         current \in Nat, current <= t, IF kind = "started" THEN current < t ELSE current = t
  PROVE  ShownInv' /\ Lasting
<1>1. UNCHANGED <<work, stream, loop, topic, fails, overtook>>
  BY DEF handling
<1>2. /\ queue \in Seq(Events) /\ queue' \in Seq(Events) /\ t \in Nat /\ t # 0
      /\ \A i \in DOMAIN queue : /\ i \in DOMAIN queue'
                                 /\ queue'[i].kind = queue[i].kind
                                 /\ queue'[i].turn = queue[i].turn
      /\ \/ /\ DOMAIN queue' = DOMAIN queue /\ accepted' = accepted
            /\ missed \subseteq missed' /\ (kind = "delta" \/ t \in missed')
         \/ \E n \in DOMAIN queue' :
              /\ DOMAIN queue' = DOMAIN queue \cup {n} /\ \A i \in DOMAIN queue : i < n
              /\ queue'[n] = Event(kind, t, text) /\ missed' = missed
              /\ accepted' = IF kind \in {"final"} \cup Ends
                             THEN accepted \cup {<<t, kind>>} ELSE accepted
  <2>1. queue \in Seq(Events)
    BY DEF TurnsInv, ArrivalTypes
  <2> QED BY <2>1, EnqueueIs, TurnsAre
<1>3. /\ \A u \in Turns \ {t} : source'[u] = source[u]
      /\ IF kind = "started" THEN source[t].stage = "none" /\ source'[t].stage = "live"
                             ELSE source[t].stage # "none" /\ source'[t].stage # "none"
      /\ source'[t].stage = "live" => kind = "started" \/ source[t].stage = "live"
      /\ source[t].stage # "live" => kind = "started" \/ kind \in EndKinds
      /\ source[t].pieces > 0 => source'[t].pieces > 0
      /\ kind \notin {"delta", "final"} => source'[t].pieces = source[t].pieces
      /\ kind = "final" => source[t].pieces > 0 /\ source[t].stage = "live"
  <2>1. kind \in {"started", "delta", "note", "final"} \cup EndKinds
    BY DEF AllKinds
  <2>2. /\ Tells(kind, t)
        /\ kind \in {"delta", "note", "final"} => source[t].stage = "live"
        /\ source[t].pieces > 0 => source'[t].pieces > 0
        /\ kind \notin {"delta", "final"} => source'[t].pieces = source[t].pieces
        /\ kind = "final" => source[t].pieces > 0
    BY DEF Utters
  <2> QED BY <2>1, <2>2 DEF Tells, EndKinds
<1>4. /\ \A i \in DOMAIN queue' :
           \/ i \in DOMAIN queue /\ queue'[i].kind = queue[i].kind /\ queue'[i].turn = queue[i].turn
           \/ queue'[i].kind = kind /\ queue'[i].turn = t
      /\ missed \subseteq missed' /\ accepted \subseteq accepted'
      /\ \A u : <<u, "final">> \in accepted' => <<u, "final">> \in accepted \/ (u = t /\ kind = "final")
  <2>1. CASE /\ DOMAIN queue' = DOMAIN queue /\ accepted' = accepted /\ missed \subseteq missed'
    BY <1>2, <2>1
  <2>2. CASE \E n \in DOMAIN queue' :
               /\ DOMAIN queue' = DOMAIN queue \cup {n}
               /\ queue'[n] = Event(kind, t, text) /\ missed' = missed
               /\ accepted' = IF kind \in {"final"} \cup Ends
                              THEN accepted \cup {<<t, kind>>} ELSE accepted
    <3>1. PICK n \in DOMAIN queue' :
               /\ DOMAIN queue' = DOMAIN queue \cup {n}
               /\ queue'[n] = Event(kind, t, text) /\ missed' = missed
               /\ accepted' = IF kind \in {"final"} \cup Ends
                              THEN accepted \cup {<<t, kind>>} ELSE accepted
      BY <2>2
    <3>2. queue'[n].kind = kind /\ queue'[n].turn = t
      BY <3>1 DEF Event
    <3>3. accepted \subseteq accepted' /\ accepted' \subseteq accepted \cup {<<t, kind>>}
      BY <3>1
    <3> QED BY <1>2, <3>1, <3>2, <3>3
  <2> QED BY <1>2, <2>1, <2>2
<1>5. /\ \A kd, u : Queued(kd, u) => Queued(kd, u)'
      /\ \A kd, u : Queued(kd, u)' => Queued(kd, u) \/ (kd = kind /\ u = t)
      /\ \A u : Starting(u) => Starting(u)'
  BY <1>1, <1>2, <1>4 DEF Queued, Starting
<1>6. t \notin missed' => Queued(kind, t)'
  <2>1. Carries(Event(kind, t, text))
    BY DEF Utters
  <2>2. kind = "delta" /\ t \notin missed' => Queued("delta", t)'
    BY <2>1, EndsWith
  <2>3. ASSUME NEW n \in DOMAIN queue', queue'[n] = Event(kind, t, text)
        PROVE  Queued(kind, t)'
    BY <2>3 DEF Queued, Event
  <2> QED BY <1>2, <2>2, <2>3
<1>7. <<t, "final">> \in accepted => kind \in EndKinds
  <2>1. <<t, "final">> \in accepted => source[t].stage \in {"final", "over"}
    BY DEF TurnsInv, ClaimRight
  <2> QED BY <1>3, <2>1
<1>8. FinalLast'
  <2>1. lastDelta' # 0 => /\ queue' # <<>> /\ queue'[Len(queue')].kind = "delta"
                          /\ queue'[Len(queue')].turn = lastDelta'
    BY EndsWith DEF Utters
  <2>2. ASSUME NEW i \in DOMAIN queue', NEW j \in DOMAIN queue', i < j,
               queue'[i].kind = "final", queue'[j].turn = queue'[i].turn
        PROVE  queue'[j].kind \in EndKinds
    <3>1. i \in Nat /\ j \in Nat
      BY <1>2
    <3>2. CASE i \in DOMAIN queue /\ j \in DOMAIN queue
      BY <1>2, <2>2, <3>2 DEF ShownInv, Around, FinalLast
    <3>3. CASE i \in DOMAIN queue /\ j \notin DOMAIN queue
      <4>1. queue[i].kind = "final" /\ queue[i].turn = t /\ queue'[j].kind = kind
        BY <1>2, <1>4, <2>2, <3>3
      <4>2. Genuine(queue[i])
        BY <3>3 DEF TurnsInv, InOrder
      <4>3. <<t, "final">> \in accepted
        BY <4>1, <4>2 DEF Genuine
      <4> QED BY <1>7, <4>1, <4>3
    <3>4. CASE i \notin DOMAIN queue
      <4>1. PICK n \in DOMAIN queue' : /\ DOMAIN queue' = DOMAIN queue \cup {n}
                                       /\ \A k \in DOMAIN queue : k < n
        BY <1>2, <3>4
      <4>2. i = n /\ (j = n \/ j < n)
        BY <3>4, <4>1
      <4> QED BY <2>2, <3>1, <4>2
    <3> QED BY <3>2, <3>3, <3>4
  <2>3. ASSUME work.event.kind = "final", NEW i \in DOMAIN queue', queue'[i].turn = work.event.turn
        PROVE  queue'[i].kind \in EndKinds
    <3>1. CASE i \in DOMAIN queue
      BY <1>2, <2>3, <3>1 DEF ShownInv, Around, FinalLast
    <3>2. CASE i \notin DOMAIN queue
      <4>1. queue'[i].kind = kind /\ work.event.turn = t
        BY <1>4, <2>3, <3>2
      <4>2. work # Idle
        BY <2>3, IdleIs
      <4>3. Genuine(work.event)
        BY <4>2 DEF TurnsInv, InOrder
      <4>4. <<t, "final">> \in accepted
        BY <2>3, <4>1, <4>3 DEF Genuine
      <4> QED BY <1>7, <4>1, <4>4
    <3> QED BY <3>1, <3>2
  <2>4. ASSUME NEW u \in Turns, <<u, "final">> \in accepted'
        PROVE  source'[u].pieces > 0
    <3>1. source[u].pieces > 0
      BY <1>3, <1>4, <2>4 DEF ShownInv, Around, FinalLast
    <3> QED BY <1>3, <3>1
  <2> QED BY <1>1, <2>1, <2>2, <2>3, <2>4 DEF FinalLast
<1>9. DoneQuiet'
  <2> SUFFICES ASSUME stream.done
               PROVE  DoneQuiet'
    BY <1>1 DEF DoneQuiet
  <2>1. /\ stream.turn # 0 /\ ~Queued("delta", stream.turn) /\ stream.turn \in Turns
        /\ source[stream.turn].stage # "live" \/ current # stream.turn
    BY DEF ShownInv, Around, DoneQuiet, TurnsInv, HandlingTypes, StreamRecord
  <2>2. CASE stream.turn # t
    BY <1>1, <1>5, <2>1, <2>2 DEF DoneQuiet
  <2>3. CASE stream.turn = t
    <3>1. kind # "started"
      <4>1. stream.turn <= current
        BY DEF TurnsInv, InOrder
      <4> QED BY <1>2, <2>3, <4>1
    <3>2. source[t].stage # "live"
      BY <2>1, <2>3, <3>1
    <3>3. kind \in EndKinds /\ source'[t].stage # "live"
      BY <1>3, <3>1, <3>2
    <3>4. ~Queued("delta", t)'
      BY <1>5, <2>1, <2>3, <3>3 DEF EndKinds
    <3> QED BY <1>1, <2>1, <2>3, <3>3, <3>4 DEF DoneQuiet
  <2> QED BY <2>2, <2>3
<1>10. Around'
  <2>1. TextsRight'
    <3>1. \A i \in DOMAIN queue' : Carries(queue'[i])
      BY EndsWith DEF Utters
    <3> QED BY <1>1, <3>1 DEF ShownInv, Around, TextsRight, Carries
  <2>2. TopicTypes' /\ LoopRight'
    BY <1>1 DEF ShownInv, Around, TopicTypes, LoopRight
  <2> QED BY <1>8, <1>9, <2>1, <2>2 DEF Around
<1>11. ASSUME NEW u \in Turns, Matters(u)'
       PROVE  Matters(u)
  <2>1. u \notin missed' /\ u \notin missed /\ fails = 0
    BY <1>1, <1>4, <1>11 DEF Matters, Unhurt
  <2>2. CASE u # t
    BY <1>3, <1>4, <1>11, <2>1, <2>2 DEF Matters, Unhurt
  <2>3. CASE u = t
    <3>1. CASE kind = "started"
      BY <1>3, <2>1, <2>3, <3>1 DEF Matters, Unhurt
    <3>2. CASE kind # "started"
      BY <1>3, <1>4, <1>11, <2>1, <2>3, <3>2 DEF Matters, Unhurt
    <3> QED BY <3>1, <3>2
  <2> QED BY <2>2, <2>3
<1>12. ASSUME NEW u \in Turns, Matters(u)'
       PROVE  Stands(u)'
  <2>1. u \notin missed' /\ u \notin missed /\ fails = 0
    BY <1>1, <1>4, <1>12 DEF Matters, Unhurt
  <2>2. Matters(u)
    BY <1>11, <1>12
  <2>3. /\ source'[u].pieces > 0 => source[u].pieces > 0 \/ Queued("delta", u)'
        /\ <<u, "final">> \in accepted' => <<u, "final">> \in accepted \/ Queued("final", u)'
        /\ source'[u].stage # "none" => source[u].stage # "none" \/ Starting(u)'
    <3>1. CASE u # t
      BY <1>3, <1>4, <3>1
    <3>2. CASE u = t
      <4>1. kind = "started" => Starting(u)'
        BY <1>6, <2>1, <3>2 DEF Queued, Starting
      <4> QED BY <1>3, <1>4, <1>6, <2>1, <3>2, <4>1
    <3> QED BY <3>1, <3>2
  <2>4. CASE Ahead(u)
    <3>1. Ahead(u)'
      BY <1>1, <1>5, <2>3, <2>4 DEF Ahead, Untouched
    <3> QED BY <3>1 DEF Stands
  <2>5. CASE Open(u)
    <3>1. Open(u)'
      BY <1>1, <1>5, <2>3, <2>5 DEF Open, Asides, MessageRight, Own, Editing
    <3> QED BY <3>1 DEF Stands
  <2>6. CASE Answered(u)
    <3>1. \A i \in DOMAIN queue' : queue'[i].turn = u => queue'[i].kind \in EndKinds
      BY <1>4, <1>7, <2>6 DEF Answered
    <3>2. Answered(u)'
      BY <1>1, <1>4, <2>6, <3>1 DEF Answered, Asides, Holds
    <3> QED BY <3>2 DEF Stands
  <2> QED BY <2>2, <2>4, <2>5, <2>6 DEF ShownInv, Stands
<1> QED BY <1>3, <1>10, <1>11, <1>12 DEF ShownInv, Lasting


\* Whatever the provider tells.
LEMMA PublishShows ==
  ASSUME TurnsInv, ShownInv, NEW t \in Turns, NEW kind \in AllKinds, NEW text \in Seq(Words),
         Utters(kind, t, text), Publish(kind, t, text)
  PROVE  ShownInv' /\ Lasting /\ adrift' = adrift
<1>1. UNCHANGED <<handling, overtook, adrift>> /\ Tells(kind, t)
  BY DEF Publish, Utters, drift
<1>2. CASE /\ kind # "started" /\ ~Concerns(kind, t)
           /\ UNCHANGED <<run, current, queue, missed, accepted>>
  <2>1. UNCHANGED lastDelta
    BY <1>2 DEF Publish
  <2> QED BY <1>1, <1>2, <2>1, UnheardShows
<1>3. CASE /\ current' = t /\ Enqueue(kind, t, text)
           /\ \A u \in Turns : run'[u].synced = run[u].synced
           /\ current \in Nat /\ current <= t
           /\ IF kind = "started" THEN current < t ELSE current = t
  BY <1>1, <1>3, HeardShows
<1> QED BY <1>1, <1>2, <1>3, ConcernsIs

\* The provider's steps.
LEMMA ProviderShows ==
  TextFirst /\ TurnsInv /\ ShownInv /\ Provider => ShownInv' /\ Lasting /\ adrift' = adrift
<1> SUFFICES ASSUME TextFirst, TurnsInv, ShownInv, NEW t \in Turns,
                    \/ Starts(t) \/ Streams(t) \/ Remarks(t) \/ Answers(t)
                    \/ \E how \in Ends : Finishes(t, how)
             PROVE  ShownInv' /\ Lasting /\ adrift' = adrift
  BY DEF Provider
<1>1. /\ source \in Sources /\ Ends \subseteq EndKinds /\ Answer \in Seq(Words)
      /\ <<>> \in Seq(Words) /\ <<"note">> \in Seq(Words)
  <2>1. source \in Sources /\ Ends \subseteq EndKinds /\ Answer \in Seq(Words)
    BY TurnsAre DEF TurnsInv, ArrivalTypes
  <2>2. <<>> \in Seq(Words) /\ <<"note">> \in Seq(Words)
    <3>1. "note" \in Words
      BY DEF Words
    <3> QED BY <3>1
  <2> QED BY <2>1, <2>2
<1>2. CASE Starts(t)
  <2>1. /\ source[t].stage = "none" /\ \A u \in Turns : u < t => source[u].stage # "none"
        /\ source' = [source EXCEPT ![t].stage = "live"] /\ Publish("started", t, <<>>)
    BY <1>2 DEF Starts
  <2>2. /\ source' \in Sources /\ source'[t].stage = "live" /\ source'[t].pieces = source[t].pieces
        /\ \A u \in Turns \ {t} : source'[u] = source[u]
    BY <1>1, <2>1 DEF Sources
  <2>3. "started" \in AllKinds /\ Carries(Event("started", t, <<>>))
    BY DEF AllKinds, Carries, Event
  <2>4. Tells("started", t)
    BY <2>1, <2>2 DEF Tells, EndKinds
  <2>5. Utters("started", t, <<>>)
    BY <2>2, <2>3, <2>4 DEF Utters
  <2> QED BY <1>1, <2>1, <2>3, <2>5, PublishShows
<1>3. CASE Streams(t)
  <2>1. /\ source[t].stage = "live" /\ source[t].pieces < Len(Answer)
        /\ source' = [source EXCEPT ![t].pieces = @ + 1]
        /\ Publish("delta", t, <<Answer[source[t].pieces + 1]>>)
    BY <1>3 DEF Streams
  <2>2. PICK p \in Nat : p = source[t].pieces
    BY <1>1 DEF Sources
  <2>3. PICK text : text = <<Answer[p + 1]>>
    OBVIOUS
  <2>4. text \in Seq(Words) /\ text # <<>> /\ Publish("delta", t, text)
    BY <1>1, <2>1, <2>2, <2>3
  <2>5. /\ source' \in Sources /\ source'[t].stage = source[t].stage /\ source'[t].pieces > 0
        /\ \A u \in Turns \ {t} : source'[u] = source[u]
    BY <1>1, <2>1 DEF Sources
  <2>6. Tells("delta", t)
    BY <2>1, <2>5 DEF Tells, EndKinds
  <2>7. "delta" \in AllKinds /\ Carries(Event("delta", t, text))
    BY <2>4 DEF AllKinds, Carries, Event
  <2>8. Utters("delta", t, text)
    BY <2>1, <2>5, <2>6, <2>7 DEF Utters
  <2> QED BY <2>4, <2>7, <2>8, PublishShows
<1>4. CASE Remarks(t)
  <2>1. /\ source[t].stage = "live" /\ source' = [source EXCEPT ![t].noted = TRUE]
        /\ Publish("note", t, <<"note">>)
    BY <1>4 DEF Remarks
  <2>2. /\ source' \in Sources /\ source'[t].stage = source[t].stage
        /\ source'[t].pieces = source[t].pieces
        /\ \A u \in Turns \ {t} : source'[u] = source[u]
    BY <1>1, <2>1 DEF Sources
  <2>3. Tells("note", t)
    BY <2>1, <2>2 DEF Tells, EndKinds
  <2>4. "note" \in AllKinds /\ Carries(Event("note", t, <<"note">>))
    BY DEF AllKinds, Carries, Event
  <2>5. Utters("note", t, <<"note">>)
    BY <2>1, <2>2, <2>3, <2>4 DEF Utters
  <2> QED BY <1>1, <2>1, <2>4, <2>5, PublishShows
<1>5. CASE Answers(t)
  <2>1. /\ source[t].stage = "live" /\ Publish("final", t, Answer)
        /\ Streamed => source[t].pieces > 0
        /\ source' = [source EXCEPT ![t].stage = "final", ![t].pieces = Len(Answer)]
    BY <1>5 DEF Answers
  <2>2. PICK p \in Nat : p = Len(Answer)
    BY <1>1
  <2>3. p > 0
    <3>1. Answer # <<>>
      BY DEF TextFirst
    <3> QED BY <1>1, <2>2, <3>1
  <2>4. source' = [source EXCEPT ![t].stage = "final", ![t].pieces = p]
    BY <2>1, <2>2
  <2>5. source' \in Sources
    BY <1>1, <2>4 DEF Sources
  <2>6. source'[t].stage = "final" /\ source'[t].pieces = p
    BY <1>1, <2>4 DEF Sources
  <2>7. \A u \in Turns \ {t} : source'[u] = source[u]
    BY <1>1, <2>4 DEF Sources
  <2>8. Tells("final", t)
    BY <2>1, <2>5, <2>6, <2>7 DEF Tells, EndKinds
  <2>9. "final" \in AllKinds /\ Carries(Event("final", t, Answer))
    BY DEF AllKinds, Carries, Event
  <2>10. source[t].pieces > 0
    BY <2>1 DEF TextFirst
  <2>11. Utters("final", t, Answer)
    BY <2>1, <2>3, <2>6, <2>8, <2>9, <2>10 DEF Utters
  <2> QED BY <1>1, <2>1, <2>9, <2>11, PublishShows
<1>6. CASE \E how \in Ends : Finishes(t, how)
  <2>1. PICK how \in Ends : Finishes(t, how)
    BY <1>6
  <2>2. /\ source[t].stage \in {"live", "final"} /\ Publish(how, t, <<>>)
        /\ source' = [source EXCEPT ![t].stage = "over"]
    BY <2>1 DEF Finishes
  <2>3. /\ source' \in Sources /\ source'[t].stage = "over" /\ source'[t].pieces = source[t].pieces
        /\ \A u \in Turns \ {t} : source'[u] = source[u]
    BY <1>1, <2>2 DEF Sources
  <2>4. how \in EndKinds /\ how \in AllKinds /\ how \notin {"delta", "note", "final"}
    BY <1>1 DEF AllKinds, EndKinds
  <2>5. Tells(how, t)
    BY <2>2, <2>3, <2>4 DEF Tells, EndKinds
  <2>6. Carries(Event(how, t, <<>>))
    BY <2>4 DEF Carries, Event
  <2>7. Utters(how, t, <<>>)
    BY <2>3, <2>4, <2>5, <2>6 DEF Utters
  <2> QED BY <1>1, <2>2, <2>4, <2>7, PublishShows
<1> QED BY <1>2, <1>3, <1>4, <1>5, <1>6

\* Nothing is shown yet.
LEMMA InitShows == Init => ShownInv
<1> SUFFICES ASSUME Init
             PROVE  ShownInv
  OBVIOUS
<1>1. /\ source = [t \in Turns |-> [stage |-> "none", pieces |-> 0, noted |-> FALSE]]
      /\ run = [t \in Turns |-> [status |-> "none", synced |-> FALSE, notified |-> FALSE]]
      /\ queue = <<>> /\ lastDelta = 0 /\ accepted = {} /\ work = Idle
      /\ stream = NoStream /\ loop = LoopOff /\ topic = [m \in Messages |-> Gone]
  BY DEF Init
<1>2. /\ work.event.kind = "none" /\ work.event.turn = 0
      /\ stream.turn = 0 /\ ~stream.done /\ 0 \notin Turns
  BY <1>1, IdleIs, TurnsAre DEF NoStream
<1>3. DOMAIN queue = {}
  BY <1>1
<1>4. Around
  <2>1. TopicTypes
    BY <1>1 DEF TopicTypes
  <2>2. TextsRight
    BY <1>2, <1>3 DEF TextsRight, Carries
  <2>3. FinalLast
    BY <1>1, <1>2, <1>3 DEF FinalLast
  <2>4. DoneQuiet
    BY <1>2 DEF DoneQuiet
  <2>5. LoopRight
    <3>1. <<>> \in Seq(Words)
      OBVIOUS
    <3> QED BY <1>1, <3>1 DEF LoopRight, LoopOff
  <2> QED BY <2>1, <2>2, <2>3, <2>4, <2>5 DEF Around
<1>5. ASSUME NEW t \in Turns
      PROVE  Ahead(t)
  <2>1. Untouched(t)
    BY <1>1, MessageIs DEF Untouched
  <2>2. source[t].stage = "none" /\ ~(source[t].pieces > 0) /\ ~run[t].synced
    BY <1>1
  <2>3. t # 0
    BY <1>2
  <2> QED BY <1>1, <1>2, <2>1, <2>2, <2>3 DEF Ahead
<1> QED BY <1>4, <1>5 DEF ShownInv, Stands

\* Every step keeps the invariant.
LEMMA NextShows ==
  TextFirst /\ TurnsInv /\ ShownInv /\ DriftRight /\ [Next]_vars => ShownInv'
<1> SUFFICES ASSUME TextFirst, TurnsInv, ShownInv, DriftRight, [Next]_vars
             PROVE  ShownInv'
  OBVIOUS
<1>1. CASE Provider
  BY <1>1, ProviderShows
<1>2. CASE Consumer
  BY <1>2, IgnoreShows, TakeStartedShows, TakeDeltaShows, TakeNoteShows, TakeFinalShows, TakeEndShows,
     ReplacedShows, PlacedShows, ClearedShows, SwitchedShows, ShownShows, ClosedShows, NotifiedShows
     DEF Consumer
<1>3. CASE Throttle
  BY <1>3, ThrottleShows
<1>4. CASE Restart
  BY <1>4, RestartShows
<1>5. CASE Retried \/ UNCHANGED vars
  <2>1. UNCHANGED <<arrival, work, stream, loop, topic, fails, overtook>>
    BY <1>5 DEF Retried, Retries, vars, handling, drift
  <2>2. TopicTypes' /\ LoopRight'
    BY <2>1 DEF ShownInv, Around, TopicTypes, LoopRight
  <2>3. \A t \in Turns : Same(t) /\ (Answered(t) => Holds(<<t, "body">>)')
    BY <2>1 DEF Same, Answered, Holds
  <2> QED BY <2>1, <2>2, <2>3, BesideShows
<1>6. CASE Lands
  BY <1>6, LandsShows
<1> QED BY <1>1, <1>2, <1>3, <1>4, <1>5, <1>6 DEF Next

-----------------------------------------------------------------------------
(* The calls that are given up.                                            *)

LEMMA LastsWhen ==
  ASSUME UNCHANGED <<source, current, accepted>>, missed \subseteq missed', fails' = 0 => fails = 0
  PROVE  Lasting
BY DEF Lasting, Matters, Unhurt

\* What was harmless stays so.
LEMMA DriftKept ==
  ASSUME DriftRight, Lasting, \A a \in adrift' : a \in adrift \/ Harmless(a)'
  PROVE  DriftRight'
<1> SUFFICES ASSUME NEW a \in adrift', a \in adrift
             PROVE  Harmless(a)'
  BY DEF DriftRight
<1>1. PICK n, place : /\ a.msg = <<n, place>>
                      /\ (~a.new /\ a.text # Gone) \/ (n \in Turns => Lost(n))
  BY DEF DriftRight, Harmless
<1>2. n \in Turns /\ Lost(n) => Lost(n)'
  BY DEF Lost, Lasting
<1> QED BY <1>1, <1>2 DEF Harmless

\* The loop's edits have text.
LEMMA LoopGives ==
  ASSUME LoopRight, loop.stage = "editing", NEW a, a = LoopAsked
  PROVE  Harmless(a)'
<1>1. PICK n, place : n = stream.turn /\ place = stream.msg /\ a.msg = <<n, place>>
  BY DEF LoopAsked, Edits, Message
<1>2. ~a.new /\ a.text # Gone
  BY DEF LoopAsked, Edits, LoopRight, Gone
<1> QED BY <1>1, <1>2 DEF Harmless

LEMMA CancelGives ==
  ASSUME LoopRight, Cancel
  PROVE  \A a \in adrift' : a \in adrift \/ Harmless(a)'
<1> SUFFICES ASSUME NEW a \in adrift', a \notin adrift
             PROVE  Harmless(a)'
  OBVIOUS
<1>1. loop.stage = "editing" /\ a = LoopAsked
  BY DEF Cancel, GiveUp
<1> QED BY <1>1, LoopGives

\* A call is for the message of its event's turn, or for the stream's, and both began.
LEMMA AskedOf ==
  ASSUME TurnsInv, work.call \notin {"", "notify"}, NEW a, a = Asked
  PROVE  \E n, place : /\ a.msg = <<n, place>> /\ n \in {work.event.turn, stream.turn}
                       /\ n \in Turns => source[n].stage # "none"
<1>1. work.call \in Calls /\ work # Idle
  BY IdleIs DEF TurnsInv, HandlingTypes
<1>2. PICK n, place : a.msg = <<n, place>> /\ n \in {work.event.turn, stream.turn}
  <2>1. \/ a.msg = <<stream.turn, stream.msg>>
        \/ \E place : a.msg = <<work.event.turn, place>>
    BY <1>1 DEF Asked, Puts, Edits, Message, Calls
  <2> QED BY <2>1
<1>3. work.event.turn <= current /\ stream.turn <= current
  BY <1>1 DEF TurnsInv, InOrder, Genuine
<1>4. n \in Turns => source[n].stage # "none"
  BY <1>2, <1>3 DEF TurnsInv, InOrder
<1> QED BY <1>2, <1>4

LEMMA CountIs == \A n \in Nat : n + 1 # 0
OBVIOUS

\* Once a call failed nothing matters.
LEMMA FailsGives ==
  ASSUME TurnsInv, NEW c, c \notin {"", "notify"}, Fails(c), UNCHANGED source
  PROVE  \A a \in adrift' : a \in adrift \/ Harmless(a)'
<1> SUFFICES ASSUME NEW a \in adrift', a \notin adrift
             PROVE  Harmless(a)'
  OBVIOUS
<1>1. work.call = c /\ a = Asked /\ fails' # 0
  <2>1. fails \in Nat
    BY DEF TurnsInv, HandlingTypes
  <2>2. work.call = c /\ fails' = fails + 1 /\ GiveUp({Asked})
    <3>1. CASE fails' = fails + 1 /\ GiveUp({Asked})
      BY <3>1 DEF Fails
    <3>2. CASE UNCHANGED <<fails, adrift>>
      BY <3>2
    <3> QED BY <3>1, <3>2 DEF Fails
  <2>3. PICK some \in SUBSET {Asked} : adrift' = adrift \cup some
    BY <2>2 DEF GiveUp
  <2>4. fails' = fails + 1
    BY <2>2
  <2>5. fails' # 0
    BY <2>1, <2>4, CountIs, Zenon
  <2> QED BY <2>2, <2>3, <2>5
<1>2. PICK n, place : a.msg = <<n, place>> /\ (n \in Turns => source[n].stage # "none")
  BY <1>1, AskedOf
<1>3. ~Matters(n)'
  BY <1>1 DEF Matters, Unhurt
<1> QED BY <1>2, <1>3 DEF Harmless, Lost

\* An edit that is tried again has text, or its turn is lost.
LEMMA RetriedGives ==
  ASSUME TurnsInv, ShownInv, Retried, Lasting
  PROVE  \A a \in adrift' : a \in adrift \/ Harmless(a)'
<1> SUFFICES ASSUME NEW a \in adrift', a \notin adrift
             PROVE  Harmless(a)'
  OBVIOUS
<1>1. CASE loop.stage = "editing" /\ a = LoopAsked
  BY <1>1, LoopGives DEF ShownInv, Around
<1>2. CASE work.call = "edit" /\ a = Asked
  <2>1. PICK n, place : n = stream.turn /\ place = stream.msg /\ a.msg = <<n, place>>
    BY <1>2 DEF Asked, Edits, Message
  <2>2. ~a.new /\ a.text = stream.buffer
    BY <1>2 DEF Asked, Edits
  <2>3. ASSUME n \in Turns, stream.buffer = <<>>
        PROVE  Lost(n)
    <3>1. source[n].stage # "none"
      BY <2>1, <2>3 DEF TurnsInv, InOrder
    <3>2. ~Stands(n)
      BY <1>2, <2>1, <2>3 DEF Stands, Ahead, Open, Answered
    <3> QED BY <2>3, <3>1, <3>2 DEF ShownInv, Lost
  <2>4. n \in Turns /\ Lost(n) => Lost(n)'
    BY DEF Lost, Lasting
  <2> QED BY <2>1, <2>2, <2>3, <2>4 DEF Harmless, Gone
<1>3. CASE work.call = "last" /\ work.event.kind = "aborted" /\ a = Asked
  <2>1. PICK n, place : n = stream.turn /\ place = stream.msg /\ a.msg = <<n, place>>
    BY <1>3 DEF Asked, Edits, Message
  <2>2. ~a.new /\ a.text = Append(stream.buffer, "broken")
    BY <1>3 DEF Asked, Edits, LastText
  <2>3. PICK b \in Seq(Words) : b = stream.buffer
    BY DEF TurnsInv, HandlingTypes, StreamRecord
  <2>4. Append(b, "broken") # <<>>
    <3>1. PICK c : c = Append(b, "broken")
      OBVIOUS
    <3>2. Len(c) = Len(b) + 1 /\ Len(b) \in Nat
      BY <3>1 DEF Words
    <3>4. Len(c) # 0
      BY <3>2
    <3>3. Len(<<>>) = 0
      OBVIOUS
    <3> QED BY <3>1, <3>3, <3>4, Zenon
  <2> QED BY <2>1, <2>2, <2>3, <2>4 DEF Harmless, Gone
<1> QED BY <1>1, <1>2, <1>3 DEF Retried, Retries

\* A restart takes the turns of what it gives up, or what it gives up is the message of a
\* turn that lost it.
LEMMA RestartGives ==
  ASSUME TurnsInv, ShownInv, Restart
  PROVE  \A a \in adrift' : a \in adrift \/ Harmless(a)'
<1> SUFFICES ASSUME NEW a \in adrift', a \notin adrift
             PROVE  Harmless(a)'
  OBVIOUS
<1>1. \/ loop.stage = "editing" /\ a = LoopAsked
      \/ work.call \notin {"", "notify"} /\ a = Asked
  BY DEF Restart, GiveUp, UnderWay
<1>2. CASE loop.stage = "editing" /\ a = LoopAsked
  BY <1>2, LoopGives DEF ShownInv, Around
<1>3. CASE work.call \notin {"", "notify"} /\ a = Asked
  <2>1. PICK n, place : /\ a.msg = <<n, place>> /\ n \in {work.event.turn, stream.turn}
                        /\ n \in Turns => source[n].stage # "none"
    BY <1>3, AskedOf
  <2>2. work # Idle
    BY <1>3, IdleIs
  <2>3. ASSUME n \in Turns, Matters(n)'
        PROVE  FALSE
    <3>1. Matters(n) /\ work.event.turn # n /\ ~Open(n)
      BY <2>2, <2>3, RestartLeaves
    <3>2. stream.turn = n
      BY <2>1, <3>1
    <3>3. ~Stands(n)
      BY <1>3, <3>1, <3>2 DEF Stands, Ahead, Answered
    <3> QED BY <2>3, <3>1, <3>3 DEF ShownInv
  <2>4. n \in Turns => source'[n].stage # "none"
    BY <2>1 DEF Restart
  <2> QED BY <2>1, <2>3, <2>4 DEF Harmless, Lost
<1> QED BY <1>1, <1>2, <1>3

\* The consumer gives up what it cancels, and what fails.
LEMMA ConsumerGives ==
  ASSUME TurnsInv, Consumer
  PROVE  /\ UNCHANGED <<source, current, accepted, missed>> /\ (fails' = 0 => fails = 0)
         /\ \/ adrift' = adrift \/ Cancel
            \/ \E c : c \notin {"", "notify"} /\ Fails(c)
<1>1. fails \in Nat
  BY DEF TurnsInv, HandlingTypes
<1>2. CASE Ignore
  BY <1>2 DEF Ignore, Kept, handling, drift
<1>3. CASE TakeStarted
  BY <1>3 DEF TakeStarted, Kept, drift
<1>4. CASE TakeDelta
  BY <1>4 DEF TakeDelta, Kept, drift
<1>5. CASE TakeNote
  BY <1>5 DEF TakeNote, Kept, drift
<1>6. CASE TakeFinal
  BY <1>6 DEF TakeFinal, Kept, drift
<1>7. CASE TakeEnd
  BY <1>7 DEF TakeEnd, Kept, drift
<1>8. CASE Replaced
  <2>1. Result("replace") /\ UNCHANGED arrival
    BY <1>8 DEF Replaced
  <2> QED BY <1>1, <2>1, ResultIs DEF Result, Succeeds, arrival, drift
<1>9. CASE Placed
  <2>1. Result("place") /\ UNCHANGED arrival
    BY <1>9 DEF Placed, Result
  <2> QED BY <1>1, <2>1, ResultIs DEF Result, Succeeds, arrival, drift
<1>10. CASE Cleared
  <2>1. Result("clear") /\ UNCHANGED arrival
    BY <1>10 DEF Cleared
  <2> QED BY <1>1, <2>1, ResultIs DEF Result, Succeeds, arrival, drift
<1>11. CASE Switched
  <2>1. Result("switch") /\ UNCHANGED arrival
    BY <1>11 DEF Switched, Result
  <2> QED BY <1>1, <2>1, ResultIs DEF Result, Succeeds, arrival, drift
<1>12. CASE Shown
  <2>1. PICK c : c = work.call /\ c \in {"edit", "reply"}
    BY <1>12 DEF Shown
  <2>2. Result(c) /\ UNCHANGED <<source, current, accepted, missed>>
    BY <1>12, <2>1 DEF Shown, Result
  <2> QED BY <1>1, <2>1, <2>2, ResultIs DEF Result, Succeeds, drift
<1>13. CASE Closed
  <2>1. PICK c \in {"last", "drop"} : Result(c) /\ UNCHANGED <<source, current, accepted, missed>>
    BY <1>13 DEF Closed
  <2> QED BY <1>1, <2>1, ResultIs DEF Result, Succeeds, drift
<1>14. CASE Notified
  BY <1>1, <1>14 DEF Notified, arrival, drift
<1> QED BY <1>2, <1>3, <1>4, <1>5, <1>6, <1>7, <1>8, <1>9, <1>10, <1>11, <1>12, <1>13, <1>14 DEF Consumer

\* What is adrift does no harm.
LEMMA NextDrift ==
  TextFirst /\ TurnsInv /\ ShownInv /\ DriftRight /\ [Next]_vars => DriftRight'
<1> SUFFICES ASSUME TextFirst, TurnsInv, ShownInv, DriftRight, [Next]_vars
             PROVE  Lasting /\ \A a \in adrift' : a \in adrift \/ Harmless(a)'
  BY DriftKept
<1>1. LoopRight /\ fails \in Nat
  BY DEF ShownInv, Around, TurnsInv, HandlingTypes
<1>2. CASE Provider
  BY <1>2, ProviderShows
<1>3. CASE Consumer
  <2>1. UNCHANGED <<source, current, accepted, missed>> /\ (fails' = 0 => fails = 0)
    BY <1>3, ConsumerGives
  <2>2. Lasting
    BY <2>1, LastsWhen
  <2>3. CASE adrift' = adrift
    BY <2>2, <2>3
  <2>4. CASE Cancel
    BY <1>1, <2>2, <2>4, CancelGives
  <2>5. CASE \E c : c \notin {"", "notify"} /\ Fails(c)
    BY <2>1, <2>2, <2>5, FailsGives
  <2> QED BY <1>3, <2>3, <2>4, <2>5, ConsumerGives
<1>4. CASE Throttle
  <2>1. /\ UNCHANGED <<source, current, accepted, missed>> /\ (fails' = fails \/ fails' = fails + 1)
        /\ adrift' = adrift \/ (loop.stage = "editing" /\ \A a \in adrift' : a \in adrift \/ a = LoopAsked)
    BY <1>4 DEF Throttle, LoopLooks, LoopEdited, GiveUp, arrival, drift
  <2>2. Lasting
    BY <1>1, <2>1, LastsWhen
  <2> QED BY <1>1, <2>1, <2>2, LoopGives
<1>5. CASE Retried
  <2>1. Lasting
    BY <1>5, LastsWhen DEF Retried, Retries, arrival, handling
  <2> QED BY <1>5, <2>1, RetriedGives
<1>6. CASE Lands
  <2>1. Lasting /\ adrift' \subseteq adrift
    BY <1>6, LastsWhen DEF Lands, arrival
  <2> QED BY <2>1
<1>7. CASE Restart
  <2>1. UNCHANGED <<source, current, accepted, fails>> /\ missed \subseteq missed'
    BY <1>7 DEF Restart
  <2>2. Lasting
    BY <2>1, LastsWhen
  <2> QED BY <1>7, <2>2, RestartGives
<1>8. CASE UNCHANGED vars
  <2>1. UNCHANGED <<source, current, accepted, missed, fails, adrift>>
    BY <1>8 DEF vars, arrival, handling, drift
  <2> QED BY <2>1, LastsWhen
<1> QED BY <1>2, <1>3, <1>4, <1>5, <1>6, <1>7, <1>8 DEF Next

\* When nothing is under way, nothing was lost and no call failed, a turn whose final
\* answer was reported has it in the topic, whole and in one message, or the text of an
\* edit given up that Telegram carried out after it there, and neither a placeholder nor a
\* part of it in another message, where text of a final answer is told before the answer:
\* handle_final_text of bot/events.py and the throttle loop.
THEOREM AnswerIsShown == ASSUME TextFirst PROVE Spec => []AnswerShown
<1>1. TurnsInv /\ ShownInv => AnswerShown
  <2> SUFFICES ASSUME ShownInv, AtRest, fails = 0, NEW t \in Turns \ missed,
                      <<t, "final">> \in accepted
               PROVE  \E m \in Messages :
                        /\ m[1] = t /\ Holds(m)
                        /\ \A n \in Messages \ {m} : n[1] = t => topic[n] \in {Gone, <<"note">>}
    BY DEF AnswerShown, Reported
  <2>1. ~Queued("final", t) /\ ~Editing(t)
    <3>1. DOMAIN queue = {} /\ work = Idle
      BY DEF AtRest
    <3> QED BY <3>1, IdleIs DEF Queued, Editing
  <2>2. Matters(t)
    BY DEF Matters, Unhurt
  <2>3. Answered(t)
    BY <2>1, <2>2 DEF ShownInv, Stands, Ahead, Open
  <2>4. \A place \in Places \ {"body"} : topic[<<t, place>>] = Gone
    BY <2>3 DEF Answered, Asides, Places
  <2>5. \A n \in Messages \ {<<t, "body">>} : n[1] = t => topic[n] \in {Gone, <<"note">>}
    BY <2>4 DEF Messages, Places
  <2>6. <<t, "body">> \in Messages /\ <<t, "body">>[1] = t
    BY MessageIs DEF Places
  <2> QED BY <2>3, <2>5, <2>6 DEF Answered
<1>2. TurnsInv /\ ShownInv /\ DriftRight /\ TurnsInv' /\ [Next]_vars => (ShownInv /\ DriftRight)'
  BY NextShows, NextDrift
<1>3. Init => ShownInv /\ DriftRight
  BY InitShows DEF Init, DriftRight
<1> QED BY <1>1, <1>2, <1>3, TopicTurnsInvariant, PTL DEF Spec
=============================================================================
