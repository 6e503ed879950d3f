--------------------------- MODULE RolloutMirror ---------------------------
(***************************************************************************)
(* The realtime mirror of a codex session: a loop polls the session's      *)
(* rollout file, which codex appends to, and tells the remarks and answers *)
(* it finds as the turn's events.  In the terminal mode it is the only     *)
(* source of them; over a shared transport the app-server's own events run *)
(* beside it.                                                              *)
(***************************************************************************)
EXTENDS Naturals, Sequences

CONSTANTS
  Texts,      \* what a row may say
  MaxRows,    \* bound: rows codex writes
  MaxRestarts \* bound: restarts, sends that set a new baseline, rows seen by half

VARIABLES
  shared,    \* the transport is shared
  rollout,   \* the rows of the file, assistant messages all
  half,      \* the last of them is in the file by half
  watch,     \* the thread's ProviderWatchState; its offset counts half rows
  poll,      \* where the poll stands: the size it saw, the rows it read and has to apply
  synced,    \* last_synced_assistant: the row shown last, or only its text
  streaming, \* the thread is in streaming_turns
  told,      \* how often each row was told
  shown,     \* answers the app-server's events have shown
  missed,    \* rows no poll has read whole, or whose poll a restart cut off
  restarts   \* restarts, sends and half rows so far

vars == <<shared, rollout, half, watch, poll, synced, streaming, told, shown, missed, restarts>>

Rows     == 1..MaxRows
Written  == 1..Len(rollout)
FileSize == 2 * Len(rollout) - (IF half THEN 1 ELSE 0)
NoWatch  == [on |-> FALSE, offset |-> 0, started |-> FALSE, remark |-> <<>>, final |-> <<>>]
Waits    == [at |-> "idle", size |-> 0, rows |-> <<>>]

TypeOK ==
  /\ {shared, half, streaming} \subseteq BOOLEAN
  /\ rollout \in Seq([kind : {"remark", "answer"}, text : Texts]) /\ Len(rollout) <= MaxRows
  /\ watch \in [on : BOOLEAN, offset : 0..2 * MaxRows, started : BOOLEAN,
                remark : {<<>>} \cup (Texts \X {"said"}), final : {<<>>} \cup (Texts \X {"said"})]
  /\ poll.at \in {"idle", "read", "apply"} /\ poll.rows \in Seq(Rows)
  /\ synced \in {<<>>} \cup ({"row"} \X Rows) \cup ({"text"} \X Texts)
  /\ told \in [Rows -> Nat] /\ {shown, missed} \subseteq SUBSET Rows
  /\ restarts \in 0..MaxRestarts

Init ==
  /\ shared \in BOOLEAN
  /\ rollout = <<>> /\ half = FALSE
  /\ watch = NoWatch /\ poll = Waits
  /\ synced = <<>> /\ streaming = FALSE
  /\ told = [i \in Rows |-> 0] /\ shown = {} /\ missed = {} /\ restarts = 0

-----------------------------------------------------------------------------
(* Codex.                                                                  *)

Appends(kind, text, torn) ==
  /\ ~half /\ Len(rollout) < MaxRows
  /\ rollout' = Append(rollout, [kind |-> kind, text |-> text]) /\ half' = torn
  /\ IF torn THEN restarts < MaxRestarts /\ restarts' = restarts + 1 ELSE UNCHANGED restarts
  /\ UNCHANGED <<shared, watch, poll, synced, streaming, told, shown, missed>>

AppendRest ==
  /\ half /\ half' = FALSE
  /\ UNCHANGED <<shared, rollout, watch, poll, synced, streaming, told, shown, missed, restarts>>

\* What the app-server's events do beside the mirror: a turn starts, its answer is
\* shown and remembered by its text, it ends.  Answers come in the order of their rows.
LiveStart ==
  /\ shared /\ ~streaming /\ streaming' = TRUE
  /\ UNCHANGED <<shared, rollout, half, watch, poll, synced, told, shown, missed, restarts>>

LiveAnswer(i) ==
  /\ shared /\ i \in Written /\ rollout[i].kind = "answer" /\ \A j \in shown : j < i
  /\ shown' = shown \cup {i} /\ synced' = <<"text", rollout[i].text>> /\ streaming' = FALSE
  /\ UNCHANGED <<shared, rollout, half, watch, poll, told, missed, restarts>>

-----------------------------------------------------------------------------
(* Watching.                                                               *)

Said(i)   == <<rollout[i].text, "said">>
Latest    == Len(rollout) - (IF half THEN 1 ELSE 0)
Before(n) == {i \in Written : 2 * i - 1 > watch.offset /\ 2 * i - 1 <= n}

\* _ensure_bound_codex_thread_watches: a thread not watched yet starts at the end of
\* the file; after a last remark, if the thread is active.
Watch ==
  /\ ~watch.on /\ poll = Waits
  /\ \E active \in BOOLEAN :
       LET last == active /\ Latest # 0
           said == IF last THEN rollout[Latest].kind ELSE "none"
           from == IF said = "remark" THEN 2 * Latest ELSE FileSize
           now  == IF said = "answer" THEN <<"row", Latest>> ELSE synced
       IN /\ watch' = [NoWatch EXCEPT !.on = TRUE, !.offset = from,
                         !.remark = IF said = "remark" THEN Said(Latest) ELSE <<>>,
                         !.final = IF now = <<>> THEN <<>>
                                   ELSE IF now[1] = "row" THEN Said(now[2]) ELSE <<now[2], "said">>]
          /\ synced' = now
          /\ missed' = missed \cup Before(from)
  /\ UNCHANGED <<shared, rollout, half, poll, streaming, told, shown, restarts>>

\* A send through OnlineWorker in the terminal mode: seed_codex_watch_baseline moves
\* the cursor to the end, whatever was not read yet, and watch_codex_thread follows.
Seed ==
  /\ ~shared /\ watch.on /\ restarts < MaxRestarts /\ restarts' = restarts + 1
  /\ watch' = [watch EXCEPT !.offset = FileSize]
  /\ missed' = missed \cup Before(FileSize)
  /\ UNCHANGED <<shared, rollout, half, poll, synced, streaming, told, shown>>

\* The time of a watch that nobody renews is over.
Expire ==
  /\ watch.on /\ poll = Waits /\ ~streaming
  /\ watch' = NoWatch
  /\ UNCHANGED <<shared, rollout, half, poll, synced, streaming, told, shown, missed, restarts>>

\* The process is started anew; what it knew is gone.
Restart ==
  /\ restarts < MaxRestarts /\ restarts' = restarts + 1
  /\ watch' = NoWatch /\ poll' = Waits /\ synced' = <<>> /\ streaming' = FALSE
  /\ missed' = missed \cup {i \in Written : \E k \in DOMAIN poll.rows : poll.rows[k] = i}
  /\ UNCHANGED <<shared, rollout, half, told, shown>>

-----------------------------------------------------------------------------
(* sync_watched_thread_once                                                *)

\* _mark_watch_idle_or_complete: a poll that finds nothing, the sixth in a row, ends the
\* turn where the mirror alone tells of it.
Idle(w) ==
  \E sixth \in BOOLEAN :
    LET ends == sixth /\ ~shared /\ w.started
    IN /\ watch' = [w EXCEPT !.started = @ /\ ~ends]
       /\ streaming' = (streaming /\ ~ends)

Stat ==
  /\ watch.on /\ poll = Waits
  /\ IF FileSize <= watch.offset
     THEN Idle(watch) /\ UNCHANGED poll
     ELSE poll' = [Waits EXCEPT !.at = "read", !.size = FileSize] /\ UNCHANGED <<watch, streaming>>
  /\ UNCHANGED <<shared, rollout, half, synced, told, shown, missed, restarts>>

\* A bug: the cursor goes to the size that was seen before the file was read.
CursorAfterBySize == poll.size

\* f.tell()
CursorAfter == FileSize

\* The lines that stand whole between the cursor and the end; a line cut off at either
\* side does not parse and is passed over.
Read ==
  /\ poll.at = "read"
  /\ LET start == (watch.offset + 1) \div 2
         whole == [k \in 1..Latest - start |-> start + k]
         cut   == {i \in Written : 2 * i - 1 \in {watch.offset, FileSize}}
         moved == [watch EXCEPT !.offset = CursorAfter]
     IN /\ missed' = missed \cup cut
        /\ IF whole = <<>>
           THEN Idle(moved) /\ poll' = Waits
           ELSE watch' = moved /\ poll' = [Waits EXCEPT !.at = "apply", !.rows = whole]
                /\ UNCHANGED streaming
  /\ UNCHANGED <<shared, rollout, half, synced, told, shown, restarts>>

Row == Head(poll.rows)

Tells(yes) == told' = IF yes THEN [told EXCEPT ![Row] = @ + 1] ELSE told

\* A remark is left to the app-server's events while they tell of the turn; one that
\* says what the last one said adds nothing.
ApplyRemark ==
  /\ rollout[Row].kind = "remark"
  /\ IF streaming /\ ~watch.started
     THEN /\ watch' = [watch EXCEPT !.remark = Said(Row)]
          /\ UNCHANGED <<streaming, told>>
     ELSE /\ watch' = [watch EXCEPT !.started = TRUE, !.remark = Said(Row)]
          /\ streaming' = TRUE
          /\ Tells(watch.remark # Said(Row))
  /\ UNCHANGED synced

\* An answer that was shown already only closes the mirror's turn; one that says what
\* the last one said opens a turn and tells nothing.
ApplyAnswer ==
  /\ rollout[Row].kind = "answer"
  /\ LET known == synced \in {<<"row", Row>>, <<"text", rollout[Row].text>>}
         new   == ~known /\ watch.final # Said(Row)
     IN /\ watch' = [watch EXCEPT !.started = ~known /\ ~new, !.final = Said(Row)]
        /\ synced' = IF known \/ new THEN <<"row", Row>> ELSE synced
        /\ streaming' = IF known THEN streaming ELSE ~new
        /\ Tells(new)

Apply ==
  /\ poll.at = "apply"
  /\ ApplyRemark \/ ApplyAnswer
  /\ poll' = IF Tail(poll.rows) = <<>> THEN Waits ELSE [poll EXCEPT !.rows = Tail(@)]
  /\ UNCHANGED <<shared, rollout, half, shown, missed, restarts>>

Next ==
  \/ \E kind \in {"remark", "answer"}, text \in Texts, torn \in BOOLEAN : Appends(kind, text, torn)
  \/ AppendRest \/ LiveStart
  \/ \E i \in Rows : LiveAnswer(i)
  \/ Watch \/ Seed \/ Expire \/ Restart \/ Stat \/ Read \/ Apply

Spec == Init /\ [][Next]_vars

-----------------------------------------------------------------------------
Repeats(i) ==
  \E j \in (1..i - 1) \cup (shown \ {i}) : rollout[j] = rollout[i]

\* Each row of the rollout is told once: never twice, however the file grows between two
\* steps of a poll, whatever sends and restarts come; and an answer the mirror has gone
\* past was told, unless it was cut off, says what an earlier one said, or was shown, or the
\* same was, by the app-server's events.
RowsTold ==
  \A i \in Written :
    /\ told[i] <= 1
    /\ rollout[i].kind = "answer" /\ watch.on /\ poll = Waits /\ 2 * i <= watch.offset
         => told[i] = 1 \/ i \in missed \/ Repeats(i) \/ i \in shown
=============================================================================
