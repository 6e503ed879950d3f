--------------------------- MODULE TelegramTurns ---------------------------
(***************************************************************************)
(* The turns of one session in its Telegram topic.  The bus hands an event *)
(* to the bot where it is published: the run of its turn is brought up to  *)
(* date there and then, and the event joins a bounded queue.  One consumer *)
(* takes the queue's events in order and keeps the turn's message in the   *)
(* topic, one Telegram call after another; beside it a loop edits the      *)
(* message at its own pace while text streams in.  A call that is given up *)
(* (cancelled, timed out) may have reached Telegram, which may carry it    *)
(* out at once, later, or never.  Of the topic the messages are kept that  *)
(* the bot has the id of: a send that timed out and was made again may     *)
(* leave another one beside them.                                          *)
(***************************************************************************)
EXTENDS Naturals, Sequences, FiniteSets

CONSTANTS
  Turns,     \* the session's turns, 1..n
  Answer,    \* what a turn answers, a sequence of pieces
  Kinds,     \* the events a turn may have between its start and its end
  Streamed,  \* whether a final answer is told only after some of it streamed
  Ends,      \* how a turn may end: {"completed", "mirrored", "aborted"}
  Markdown,  \* whether answers look like markdown
  MaxQueue,  \* IM_EVENT_QUEUE_SIZE
  MaxNotes,  \* bound: turns with a remark before their answer
  MaxFaults  \* bound: Telegram calls that fail, edits tried again, restarts of the delivery

ASSUME TelegramTurnsAssumption ==
  /\ IsFiniteSet(Turns) /\ Turns = 1 .. Cardinality(Turns) /\ Answer \in Seq(STRING)
  /\ Kinds \subseteq {"delta", "final"}
  /\ Ends \subseteq {"completed", "mirrored", "aborted"}
  /\ {Streamed, Markdown} \subseteq BOOLEAN
  /\ MaxQueue \in Nat \ {0} /\ {MaxNotes, MaxFaults} \subseteq Nat

VARIABLES
  source,   \* what the provider has told of each turn: [stage, pieces, noted]
  run,      \* the session's runs, by turn: [status, synced, notified]
  current,  \* thread_current_runs: the current run's turn, or 0
  queue,    \* events the consumer has not taken
  lastDelta,\* the turn of the queued delta that later text may join, or 0
  work,     \* the event being handled and the Telegram call it waits for
  stream,   \* streaming_turns of the session
  loop,     \* the throttle loop: [stage, text] with the text last sent
  topic,    \* what each message of the topic shows
  adrift,   \* calls given up that Telegram may still carry out
  overtook, \* <<message, text>> of the edits given up that it carried out on an answer
  notes,    \* notifications sent, by turn
  missed,   \* turns with an event that the queue refused or a restart took
  accepted, \* <<turn, kind>> of the final and last events that joined the queue
  fails,    \* Telegram calls that failed
  retries,  \* edits that timed out and were tried again
  stops     \* restarts of the delivery

arrival  == <<source, run, current, queue, lastDelta, missed, accepted>>
drift    == <<adrift, overtook, retries>>
handling == <<work, stream, loop, topic, notes, fails>>
vars     == <<arrival, handling, drift, stops>>

Thinking == <<"thinking">>
Gone     == <<>>
Marks    == {"note", "broken"}
Messages == Turns \X {"wait", "body", "note", "reply"}
NoStream == [turn |-> 0, msg |-> "wait", moved |-> FALSE, buffer |-> <<>>,
             done |-> FALSE, told |-> FALSE]
NoEvent  == [kind |-> "none", turn |-> 0, text |-> <<>>]
Idle     == [event |-> NoEvent, call |-> ""]
LoopOff  == [stage |-> "off", text |-> <<>>]

Calls == {"", "replace", "place", "clear", "switch", "edit", "reply", "last", "drop", "notify"}

TypeOK ==
  /\ source \in [Turns -> [stage : {"none", "live", "final", "over"}, pieces : 0 .. Len(Answer),
                           noted : BOOLEAN]]
  /\ run \in [Turns -> [status : {"none", "started", "over"}, synced : BOOLEAN, notified : BOOLEAN]]
  /\ current \in {0} \cup Turns
  /\ Len(queue) <= MaxQueue
  \* What later text may join is the queue's last event and nothing else.
  /\ lastDelta # 0 =>
       /\ queue # <<>>
       /\ queue[Len(queue)].kind = "delta" /\ queue[Len(queue)].turn = lastDelta
  /\ work.call \in Calls /\ (work = Idle <=> work.event = NoEvent)
  /\ stream.turn \in {0} \cup Turns /\ stream.msg \in {"wait", "body"}
  /\ stream.turn = 0 => stream = NoStream
  /\ loop.stage \in {"off", "due", "editing", "sleeping"}
  /\ loop.stage # "off" => stream.turn # 0 /\ ~stream.done /\ stream.moved
  /\ DOMAIN topic = Messages
  /\ notes \in [Turns -> Nat]
  /\ missed \subseteq Turns
  /\ \A a \in adrift : a.msg \in Messages /\ a.new \in BOOLEAN
  /\ \A over \in overtook : over[1] \in Messages /\ over[2] # Gone
  /\ {fails, retries, stops} \subseteq 0 .. MaxFaults

Init ==
  /\ source = [t \in Turns |-> [stage |-> "none", pieces |-> 0, noted |-> FALSE]]
  /\ run = [t \in Turns |-> [status |-> "none", synced |-> FALSE, notified |-> FALSE]]
  /\ current = 0
  /\ queue = <<>> /\ lastDelta = 0 /\ missed = {} /\ accepted = {}
  /\ work = Idle
  /\ stream = NoStream /\ loop = LoopOff
  /\ topic = [m \in Messages |-> Gone]
  /\ notes = [t \in Turns |-> 0]
  /\ adrift = {} /\ overtook = {} /\ retries = 0
  /\ fails = 0 /\ stops = 0

-----------------------------------------------------------------------------
(* An event is published: the run first, then the queue.                   *)

\* A start whose turn is already over or shown is not news; any other event
\* is the bot's business only while its turn is the current one.
Concerns(kind, t) ==
  IF kind = "started" THEN ~run[t].synced /\ run[t].status # "over"
                      ELSE current \in {0, t}

RunAfter(kind, t) ==
  [run EXCEPT ![t].status =
     IF kind \in {"final", "completed", "mirrored", "aborted"} THEN "over"
     ELSE IF @ = "none" THEN "started" ELSE @]

Event(kind, t, text) == [kind |-> kind, turn |-> t, text |-> text]

\* Text of the message the last queued delta is for joins that delta.
Joins(kind, t) == kind = "delta" /\ lastDelta = t

Enqueue(kind, t, text) ==
  IF Joins(kind, t)
  THEN /\ queue' = [k \in DOMAIN queue |->
                      IF k = Len(queue) THEN [queue[k] EXCEPT !.text = @ \o text] ELSE queue[k]]
       /\ UNCHANGED <<lastDelta, missed, accepted>>
  ELSE IF Len(queue) = MaxQueue
  THEN /\ lastDelta' = 0
       /\ missed' = missed \cup {t}
       /\ UNCHANGED <<queue, accepted>>
  ELSE /\ queue' = Append(queue, Event(kind, t, text))
       /\ lastDelta' = IF kind = "delta" THEN t ELSE 0
       /\ accepted' = IF kind \in {"final"} \cup Ends
                      THEN accepted \cup {<<t, kind>>} ELSE accepted
       /\ UNCHANGED missed

Publish(kind, t, text) ==
  /\ UNCHANGED <<handling, drift, stops>>
  /\ IF Concerns(kind, t)
     THEN /\ run' = RunAfter(kind, t)
          /\ current' = IF kind = "started" \/ current = 0 THEN t ELSE current
          /\ Enqueue(kind, t, text)
     ELSE UNCHANGED <<run, current, queue, lastDelta, missed, accepted>>

\* The next turn may start while the end of the one before is still to come.
Starts(t) ==
  /\ source[t].stage = "none"
  /\ \A u \in Turns : u < t => source[u].stage # "none"
  /\ source' = [source EXCEPT ![t].stage = "live"]
  /\ Publish("started", t, <<>>)

Streams(t) ==
  /\ "delta" \in Kinds
  /\ source[t].stage = "live" /\ source[t].pieces < Len(Answer)
  /\ source' = [source EXCEPT ![t].pieces = @ + 1]
  /\ Publish("delta", t, <<Answer[source[t].pieces + 1]>>)

Remarks(t) ==
  /\ source[t].stage = "live" /\ ~source[t].noted
  /\ Cardinality({u \in Turns : source[u].noted}) < MaxNotes
  /\ source' = [source EXCEPT ![t].noted = TRUE]
  /\ Publish("note", t, <<"note">>)

Answers(t) ==
  /\ "final" \in Kinds
  /\ source[t].stage = "live"
  /\ Streamed => source[t].pieces > 0
  /\ source' = [source EXCEPT ![t].stage = "final", ![t].pieces = Len(Answer)]
  /\ Publish("final", t, Answer)

\* A turn that streamed its whole answer, or told it, is completed; any other
\* is aborted.
Finishes(t, how) ==
  /\ how \in Ends
  /\ source[t].stage \in {"live", "final"}
  /\ how \in {"completed", "mirrored"} =>
       source[t].stage = "final" \/ ("final" \notin Kinds /\ source[t].pieces = Len(Answer))
  /\ how = "aborted" => source[t].stage = "live"
  /\ source' = [source EXCEPT ![t].stage = "over"]
  /\ Publish(how, t, <<>>)

-----------------------------------------------------------------------------
(* The topic: what a Telegram call does when it is carried out.            *)

Message(s) == <<s.turn, s.msg>>
Show(m, text)  == [topic EXCEPT ![m] = text]
Edit(m, text)  == IF m \notin Messages \/ topic[m] = Gone THEN topic ELSE Show(m, text)

LastText == IF work.event.kind = "aborted" THEN Append(stream.buffer, "broken") ELSE stream.buffer

\* An edit changes a message that is there; a message is sent or deleted in any case.
Edits(m, text) == [msg |-> m, text |-> text, new |-> FALSE]
Puts(m, text)  == [msg |-> m, text |-> text, new |-> TRUE]
Done(a)        == IF a.new THEN Show(a.msg, a.text) ELSE Edit(a.msg, a.text)

\* What the call under way asks of Telegram.
Asked ==
  LET t == work.event.turn IN
  CASE work.call \in {"replace", "clear", "drop"} -> Puts(Message(stream), Gone)
    [] work.call = "place"  -> Puts(<<t, "wait">>, Thinking)
    [] work.call = "switch" -> Puts(<<t, "body">>, work.event.text)
    [] work.call = "edit"   -> Edits(Message(stream), stream.buffer)
    [] work.call = "last"   -> Edits(Message(stream), LastText)
    [] work.call = "reply"  ->
         Puts(<<t, IF work.event.kind = "final" THEN "reply" ELSE "note">>, work.event.text)

\* What the loop asks of it.
LoopAsked == Edits(Message(stream), loop.text)

\* The calls that wait for Telegram; a notification is none.
UnderWay == (IF work.call \in {"", "notify"} THEN {} ELSE {Asked})
            \cup (IF loop.stage = "editing" THEN {LoopAsked} ELSE {})

\* Some of these are given up under way.
GiveUp(calls) == \E some \in SUBSET calls : adrift' = adrift \cup some

MoreFaults == fails + retries + stops < MaxFaults

\* A message that is gone cannot be edited.
Editable == work.call \in {"edit", "last"} => topic[Message(stream)] # Gone

Succeeds(call) == work.call = call /\ Editable /\ topic' = Done(Asked) /\ UNCHANGED <<fails, drift>>
Fails(call) ==
  /\ work.call = call /\ UNCHANGED <<topic, overtook, retries>>
  /\ \/ MoreFaults /\ fails' = fails + 1 /\ GiveUp({Asked})
     \/ ~Editable /\ UNCHANGED <<fails, adrift>>

\* Mutant: the loop is left to end by itself.
CancelNothing == UNCHANGED <<loop, topic, drift>>

\* The task is cancelled: an edit it waits for is given up.
Cancel ==
  /\ loop' = LoopOff
  /\ GiveUp(IF loop.stage = "editing" THEN {LoopAsked} ELSE {})
  /\ UNCHANGED <<topic, overtook, retries>>

\* The message shows the answer, or what overtook it.
Holds(m) ==
  m \in Messages /\ topic[m] # Gone /\ (topic[m] = Answer \/ <<m, topic[m]>> \in overtook)

\* Telegram carries out a call that was given up.
Lands ==
  \E a \in adrift :
    /\ topic' = Done(a) /\ adrift' = adrift \ {a}
    /\ overtook' = IF ~a.new /\ Holds(a.msg) THEN overtook \cup {<<a.msg, a.text>>} ELSE overtook
    /\ UNCHANGED <<arrival, work, stream, loop, notes, fails, retries, stops>>

\* _do_edit tries an edit again that timed out, the first attempt being given up; the edits
\* of a final text are tried again with that text only.
Retries(asked) ==
  /\ MoreFaults /\ retries' = retries + 1
  /\ adrift' = adrift \cup {asked}
  /\ UNCHANGED <<arrival, handling, overtook, stops>>

Retried ==
  \/ /\ \/ work.call = "edit" /\ work.event.kind = "note"
        \/ work.call = "last" /\ work.event.kind = "aborted"
     /\ Retries(Asked)
  \/ loop.stage = "editing" /\ Retries(LoopAsked)

-----------------------------------------------------------------------------
(* A notification is sent for a turn once: whoever tells its end claims it *)
(* on the stream and on the run before it calls anybody.                   *)

Tell(e) == [event |-> e, call |-> "notify"]

\* Mutant: the run keeps no mark.
ClaimUnmarked(e, s, r, wanted) ==
  IF s.told \/ r[e.turn].notified \/ ~wanted
  THEN run' = r /\ work' = Idle
  ELSE run' = r /\ work' = Tell(e)

Claim(e, s, r, wanted) ==
  IF s.told \/ r[e.turn].notified
  THEN run' = r /\ work' = Idle
  ELSE /\ run' = [r EXCEPT ![e.turn].notified = TRUE]
       /\ work' = IF wanted THEN Tell(e) ELSE Idle

Told(s) == IF s.turn = 0 THEN s ELSE [s EXCEPT !.told = TRUE]

Notified ==
  /\ work.call = "notify"
  /\ \/ notes' = [notes EXCEPT ![work.event.turn] = @ + 1] /\ UNCHANGED fails
     \/ MoreFaults /\ fails' = fails + 1 /\ UNCHANGED notes
  /\ work' = Idle
  /\ UNCHANGED <<arrival, stream, loop, topic, drift, stops>>

-----------------------------------------------------------------------------
(* The consumer takes an event and handles it up to its first call.        *)

\* Mutant: the queue forgets nothing of the delta it hands out.
TookKeepsDelta(e) ==
  /\ work = Idle /\ queue # <<>> /\ e = Head(queue)
  /\ queue' = Tail(queue) /\ UNCHANGED lastDelta

Took(e) ==
  /\ work = Idle /\ queue # <<>> /\ e = Head(queue)
  /\ queue' = Tail(queue)
  /\ lastDelta' = IF Len(queue) = 1 THEN 0 ELSE lastDelta

Kept == UNCHANGED <<source, current, missed, accepted, stops>>
Await(e, call) == work' = [event |-> e, call |-> call]

Stale(e) == stream.turn \notin {0, e.turn}

\* Mutant: the end of a turn that is not the current one is no news.
IgnoresOlder(e) ==
  CASE e.kind = "started" -> run[e.turn].synced \/ stream.turn = e.turn
    [] e.kind = "delta"   -> stream.turn # e.turn
    [] e.kind = "note"    -> Stale(e) \/ stream.done
    [] e.kind = "final"   -> Stale(e)
    [] OTHER -> current # e.turn \/ (Stale(e) /\ ~stream.done)

Ignores(e) ==
  CASE e.kind = "started" -> run[e.turn].synced \/ stream.turn = e.turn
    [] e.kind = "delta"   -> stream.turn # e.turn
    [] e.kind = "note"    -> Stale(e) \/ stream.done
    [] e.kind = "final"   -> Stale(e)
    [] OTHER -> \/ run[e.turn].synced /\ current # e.turn
                \/ Stale(e) /\ ~stream.done

Ignore ==
  \E e \in {queue[k] : k \in DOMAIN queue} :
    /\ Took(e) /\ Ignores(e)
    /\ Kept /\ UNCHANGED <<handling, drift, run>>

\* turn/started: a turn that still holds the topic's message gives it up.
TakeStarted ==
  \E e \in {queue[k] : k \in DOMAIN queue} :
    /\ e.kind = "started" /\ Took(e) /\ ~Ignores(e)
    /\ \/ /\ stream.turn = 0
          /\ Await(e, "place") /\ UNCHANGED <<stream, loop, topic, drift>>
       \/ /\ stream.turn # 0 /\ (~stream.moved \/ stream.buffer = <<>>)
          /\ Await(e, "replace") /\ Cancel
          /\ stream' = [stream EXCEPT !.done = TRUE]
       \/ /\ stream.turn # 0 /\ stream.moved /\ stream.buffer # <<>>
          /\ Await(e, "place") /\ Cancel
          /\ stream' = NoStream
    /\ Kept /\ UNCHANGED <<run, notes, fails>>

\* The first text goes into a message of its own, later text into the buffer
\* that the loop edits the message with.
TakeDelta ==
  \E e \in {queue[k] : k \in DOMAIN queue} :
    /\ e.kind = "delta" /\ Took(e) /\ ~Ignores(e)
    /\ IF stream.moved
       THEN /\ stream' = [stream EXCEPT !.buffer = @ \o e.text]
            /\ loop' = IF loop.stage = "off" THEN [LoopOff EXCEPT !.stage = "due"] ELSE loop
            /\ UNCHANGED work
       ELSE /\ stream' = [stream EXCEPT !.moved = TRUE]
            /\ Await(e, "clear") /\ UNCHANGED loop
    /\ Kept /\ UNCHANGED <<run, topic, notes, fails, drift>>

TakeNote ==
  \E e \in {queue[k] : k \in DOMAIN queue} :
    /\ e.kind = "note" /\ Took(e) /\ ~Ignores(e)
    /\ IF stream.turn = 0
       THEN Await(e, "reply") /\ UNCHANGED <<stream, loop, topic, drift>>
       ELSE /\ stream' = [stream EXCEPT !.buffer = e.text]
            /\ Await(e, "edit") /\ Cancel
    /\ Kept /\ UNCHANGED <<run, notes, fails>>

TakeFinal ==
  \E e \in {queue[k] : k \in DOMAIN queue} :
    /\ e.kind = "final" /\ Took(e) /\ ~Ignores(e)
    /\ \/ /\ stream.turn = 0 /\ ~run[e.turn].synced
          /\ Await(e, "reply") /\ UNCHANGED <<run, stream, loop, topic, drift>>
       \/ /\ (IF stream.turn = 0 THEN run[e.turn].synced ELSE stream.done)
          /\ Claim(e, stream, run, TRUE)
          /\ stream' = Told(stream) /\ UNCHANGED <<loop, topic, drift>>
       \/ /\ stream.turn # 0 /\ ~stream.done
          /\ stream' = [stream EXCEPT !.buffer = e.text]
          /\ Await(e, "edit") /\ Cancel /\ UNCHANGED run
    /\ Kept /\ UNCHANGED <<notes, fails>>

\* What the turn's message holds of its answer.
ReplyText(buffer) == IF buffer # <<>> /\ Head(buffer) = "note" THEN <<>> ELSE buffer

\* The end of a turn that streams: the message gets its last form, if any.
LastCall(e) ==
  IF e.kind = "aborted" THEN "last"
  ELSE IF stream.buffer = <<>> \/ (ReplyText(stream.buffer) = <<>> /\ ~stream.moved /\ e.kind # "mirrored")
  THEN "drop"
  ELSE IF ReplyText(stream.buffer) # <<>> /\ Markdown THEN "last" ELSE ""

\* ... and the stream is over; its text counts as shown.
Close(e) ==
  LET text == IF e.kind = "aborted" THEN <<>> ELSE ReplyText(stream.buffer) IN
  /\ Claim(e, stream,
           [run EXCEPT ![e.turn].status = "over", ![e.turn].synced = @ \/ text # <<>>],
           e.kind = "mirrored" => text # <<>>)
  /\ stream' = NoStream

TakeEnd ==
  \E e \in {queue[k] : k \in DOMAIN queue} :
    /\ e.kind \in Ends /\ Took(e) /\ ~Ignores(e)
    /\ \/ /\ stream.turn = 0
          /\ IF e.kind = "mirrored"
             THEN run' = [run EXCEPT ![e.turn].status = "over"] /\ UNCHANGED work
             ELSE Claim(e, stream, [run EXCEPT ![e.turn].status = "over"], TRUE)
          /\ UNCHANGED <<stream, loop, topic, drift>>
       \/ /\ stream.turn # 0 /\ stream.done
          /\ Claim(e, stream, [run EXCEPT ![e.turn].status = "over"], TRUE)
          /\ stream' = NoStream /\ UNCHANGED <<loop, topic, drift>>
       \/ /\ stream.turn # 0 /\ ~stream.done /\ LastCall(e) = ""
          /\ Close(e) /\ Cancel
       \/ /\ stream.turn # 0 /\ ~stream.done /\ LastCall(e) # ""
          /\ stream' = [stream EXCEPT !.done = TRUE]
          /\ Await(e, LastCall(e)) /\ Cancel /\ UNCHANGED run
    /\ Kept /\ UNCHANGED <<notes, fails>>

-----------------------------------------------------------------------------
(* The calls return.                                                       *)

Result(call) == Succeeds(call) \/ Fails(call)

Replaced ==
  /\ Result("replace")
  /\ stream' = NoStream /\ Await(work.event, "place")
  /\ UNCHANGED <<arrival, loop, notes, stops>>

Placed ==
  /\ \/ Succeeds("place") /\ stream' = [NoStream EXCEPT !.turn = work.event.turn]
     \/ Fails("place") /\ UNCHANGED stream
  /\ work' = Idle
  /\ UNCHANGED <<arrival, loop, notes, stops>>

Cleared ==
  /\ Result("clear")
  /\ Await(work.event, "switch")
  /\ UNCHANGED <<arrival, stream, loop, notes, stops>>

Switched ==
  /\ \/ /\ Succeeds("switch")
        /\ stream' = [stream EXCEPT !.msg = "body", !.buffer = work.event.text]
     \/ Fails("switch") /\ UNCHANGED stream
  /\ work' = Idle
  /\ UNCHANGED <<arrival, loop, notes, stops>>

\* A note or a final answer has its message; a final answer is announced
\* whether or not the topic took it.
Shown ==
  /\ work.call \in {"edit", "reply"}
  /\ \E shown \in BOOLEAN :
       /\ IF shown THEN Succeeds(work.call) ELSE Fails(work.call)
       /\ LET s == [stream EXCEPT !.done = @ \/ (shown /\ stream.turn # 0)]
              r == [run EXCEPT ![work.event.turn].synced = @ \/ shown]
          IN IF work.event.kind = "final"
             THEN Claim(work.event, s, r, TRUE) /\ stream' = Told(s)
             ELSE work' = Idle /\ UNCHANGED <<run, stream>>
  /\ UNCHANGED <<source, current, queue, lastDelta, missed, accepted, loop, notes, stops>>

Closed ==
  /\ Result("last") \/ Result("drop")
  /\ Close(work.event)
  /\ UNCHANGED <<source, current, queue, lastDelta, missed, accepted, loop, notes, stops>>

-----------------------------------------------------------------------------
(* The throttle loop.                                                      *)

LoopLooks ==
  /\ loop.stage \in {"due", "sleeping"}
  /\ loop' = IF stream.turn # 0 /\ ~stream.done /\ stream.buffer # loop.text
             THEN [stage |-> "editing", text |-> stream.buffer] ELSE LoopOff
  /\ UNCHANGED <<arrival, work, stream, topic, notes, fails, drift, stops>>

\* An edit that failed is not made again for the same text.
LoopEdited ==
  /\ loop.stage = "editing"
  /\ \/ topic' = Done(LoopAsked) /\ UNCHANGED <<fails, adrift>>
     \/ MoreFaults /\ fails' = fails + 1 /\ GiveUp({LoopAsked}) /\ UNCHANGED topic
  /\ loop' = [loop EXCEPT !.stage = "sleeping"]
  /\ UNCHANGED <<arrival, work, stream, notes, overtook, retries, stops>>

-----------------------------------------------------------------------------
\* The delivery is stopped, what it waited for is cancelled, and a new one
\* takes its place; the streams stay.
Restart ==
  /\ MoreFaults /\ stops' = stops + 1
  /\ missed' = missed \cup {queue[k].turn : k \in DOMAIN queue}
                      \cup (IF work = Idle THEN {} ELSE {work.event.turn})
                      \cup (IF loop = LoopOff THEN {} ELSE {stream.turn})
  /\ queue' = <<>> /\ lastDelta' = 0
  /\ work' = Idle
  /\ loop' = LoopOff
  /\ GiveUp(UnderWay)
  /\ \/ UNCHANGED notes
     \/ work.call = "notify" /\ notes' = [notes EXCEPT ![work.event.turn] = @ + 1]
  /\ UNCHANGED <<source, run, current, accepted, stream, topic, overtook, retries, fails>>

Provider ==
  \E t \in Turns :
    \/ Starts(t) \/ Streams(t) \/ Remarks(t) \/ Answers(t)
    \/ \E how \in Ends : Finishes(t, how)

Consumer ==
  \/ Ignore \/ TakeStarted \/ TakeDelta \/ TakeNote \/ TakeFinal \/ TakeEnd
  \/ Replaced \/ Placed \/ Cleared \/ Switched \/ Shown \/ Closed \/ Notified

Throttle == LoopLooks \/ LoopEdited

Next == Provider \/ Consumer \/ Throttle \/ Retried \/ Lands \/ Restart

Spec == Init /\ [][Next]_vars

-----------------------------------------------------------------------------
AtRest == queue = <<>> /\ work = Idle /\ loop = LoopOff

Reported(t, kinds) == \E k \in kinds : <<t, k>> \in accepted

\* At most one notification tells the end of a turn, whether a final answer,
\* the turn's end or both report it, whichever fails, and however often the
\* delivery is restarted between the claim and the call.
NotifiedOnce == \A t \in Turns : notes[t] <= 1

\* When nothing is under way, nothing was lost and no call failed, a turn whose final
\* answer was reported has it in the topic, whole and in one message, and neither a
\* placeholder nor a part of it in another: no edit of the loop wins over the answer but
\* one that was given up and that Telegram carried out after it.
AnswerShown ==
  AtRest /\ fails = 0 =>
    \A t \in Turns \ missed : Reported(t, {"final"}) =>
      \E m \in Messages :
        /\ m[1] = t /\ Holds(m)
        /\ \A n \in Messages \ {m} : n[1] = t => topic[n] \in {Gone, <<"note">>}

\* A run marked as shown in Telegram is shown there: some message of the turn
\* holds the text the provider streamed or answered.
SyncedMeansShown ==
  \A t \in Turns : run[t].synced /\ AtRest => \E m \in Messages : m[1] = t /\ Holds(m)

\* When nothing is under way, a turn whose end was reported has been announced,
\* unless the queue refused one of its events, a restart took one, or a call
\* failed: no claim is left without its notification.
EndAnnounced ==
  AtRest /\ fails = 0 =>
    \A t \in Turns \ missed :
      Reported(t, {"final", "completed", "aborted"}) => notes[t] = 1
=============================================================================
