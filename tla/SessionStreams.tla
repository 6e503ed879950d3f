--------------------------- MODULE SessionStreams ---------------------------
(***************************************************************************)
(* The streams over which the desktop follows a session: a snapshot first, *)
(* then what changes.  One is of all sessions' activities, one of a single *)
(* conversation, which reads the session's history before it begins.  A    *)
(* queue that overflows ends the connection; the desktop makes another.    *)
(***************************************************************************)
EXTENDS Naturals, Sequences

CONSTANTS
  MaxChanges, \* bound: changes of the session
  MaxQueue    \* OWNER_BRIDGE_STREAM_QUEUE_SIZE

VARIABLES
  kind,     \* which of the two streams it is
  version,  \* the session in the bus's projections
  gone,     \* it is archived in storage
  history,  \* session_history_loaded
  conn,     \* where the connection stands
  queue,    \* what is put for the writer
  sent,     \* what the writer has taken, and the desktop not read yet
  view,     \* what the desktop shows
  silent    \* the last change was not put: its event names another workspace path, or none

vars == <<kind, version, gone, history, conn, queue, sent, view, silent>>

Kinds  == {"activities", "conversation"}
Hidden == MaxChanges + 1 \* the session is not shown

TypeOK ==
  /\ kind \in Kinds /\ {gone, history, silent} \subseteq BOOLEAN
  /\ version \in 0..MaxChanges
  /\ conn \in {"closed", "reads", "open", "full"}
  /\ queue \in Seq(0..Hidden) /\ Len(queue) <= MaxQueue
  /\ sent \in Seq(0..Hidden)
  /\ view \in 0..Hidden

Init ==
  /\ kind \in Kinds /\ version = 0 /\ gone = FALSE /\ history \in BOOLEAN
  /\ conn = "closed" /\ queue = <<>> /\ sent = <<>> /\ view = Hidden /\ silent = FALSE

-----------------------------------------------------------------------------
\* A snapshot: of the activities without the archived, of a conversation as it is.
Snapshot(v, g) == IF kind = "activities" /\ g THEN Hidden ELSE v

\* A bug: what finds no place is left out.
OverflowDrops == /\ queue' = queue /\ UNCHANGED conn

\* A full queue: the stream is told to close, and takes nothing more.
Overflow == /\ conn' = "full" /\ UNCHANGED queue

\* The subscriber, called within the publishing: puts how things are now.
Puts(v, g) ==
  IF conn \in {"reads", "open"}
  THEN IF Len(queue) = MaxQueue THEN Overflow
       ELSE queue' = Append(queue, Snapshot(v, g)) /\ UNCHANGED conn
  ELSE UNCHANGED <<queue, conn>>

\* An event is published.  A conversation asked for by its workspace takes those only that
\* name it.
Publish ==
  /\ version < MaxChanges /\ version' = version + 1
  /\ \E named \in BOOLEAN :
       /\ named \/ kind = "conversation"
       /\ silent' = ~named
       /\ IF named THEN Puts(version + 1, gone) ELSE UNCHANGED <<queue, conn>>
  /\ UNCHANGED <<kind, gone, history, sent, view>>

\* The session is archived: storage first, then its event, with which the bus lets go of
\* the history.
Archive ==
  /\ ~gone /\ gone' = TRUE /\ Puts(version, TRUE)
  /\ silent' = FALSE /\ history' = FALSE
  /\ UNCHANGED <<kind, version, sent, view>>

\* The connection: subscribed first; the snapshot is taken there and then, or after the
\* history was read.
Connect ==
  /\ conn = "closed" /\ queue = <<>>
  /\ IF kind = "conversation" /\ ~history
     THEN conn' = "reads" /\ UNCHANGED <<sent, silent>>
     ELSE conn' = "open" /\ sent' = <<Snapshot(version, gone)>> /\ silent' = FALSE
  /\ UNCHANGED <<kind, version, gone, history, queue, view>>

\* What was put meanwhile is in the snapshot already.
Opens == sent' = <<Snapshot(version, gone)>> /\ queue' = <<>>

\* _handle_read_session publishes the history, or fails: then the connection ends.  So it
\* does if the queue is full by then.
HistoryRead ==
  /\ conn = "reads"
  /\ \/ /\ history' = TRUE /\ Len(queue) < MaxQueue
        /\ conn' = "open" /\ Opens /\ silent' = FALSE
     \/ /\ history' \in {history, TRUE}
        /\ conn' = "closed" /\ queue' = <<>> /\ sent' = <<>> /\ UNCHANGED silent
  /\ UNCHANGED <<kind, version, gone, view>>

Write ==
  /\ conn = "open" /\ queue # <<>>
  /\ sent' = Append(sent, Head(queue)) /\ queue' = Tail(queue)
  /\ UNCHANGED <<kind, version, gone, history, conn, view, silent>>

\* The desktop.
Receive ==
  /\ sent # <<>> /\ view' = Head(sent) /\ sent' = Tail(sent)
  /\ UNCHANGED <<kind, version, gone, history, conn, queue, silent>>

\* The connection ends: the queue was full, or the desktop or the network ended it.
Close ==
  /\ conn \in {"reads", "open", "full"} /\ conn' = "closed" /\ queue' = <<>> /\ sent' = <<>>
  /\ UNCHANGED <<kind, version, gone, history, view, silent>>

Next == Publish \/ Archive \/ Connect \/ HistoryRead \/ Write \/ Receive \/ Close

Spec == Init /\ [][Next]_vars

-----------------------------------------------------------------------------
\* What the desktop shows is never behind for good: once it has read all that an open
\* stream has for it, it shows the session as it is, whatever changed while the snapshot
\* was made or the queue was full; but for a change whose event its filter held back.
Converges ==
  conn = "open" /\ queue = <<>> /\ sent = <<>> /\ ~silent => view = Snapshot(version, gone)
=============================================================================
