--------------------------- MODULE StreamRecovery ---------------------------
(***************************************************************************)
(* A Telegram message that shows half of a codex turn's answer when the    *)
(* connection to codex breaks.  The setup of the next connection looks for *)
(* the turn's end in its rollout a few times, then leaves the looking to a *)
(* task, one per thread.  A stream may not know its turn's id: then the    *)
(* last end in the rollout stands for its own.  An answer is taken from    *)
(* the history too if it begins with the half that is shown.               *)
(***************************************************************************)
EXTENDS Naturals, FiniteSetsExt

CONSTANTS
  MaxTurns,   \* turns of the thread
  MaxLooks    \* looks of the setup, and of the task

VARIABLES
  alike,    \* the turns' answers begin with the same words
  outcome,  \* turn |-> how it ended in the rollout
  message,  \* turn |-> what its Telegram message shows
  stream,   \* the stream of the running turn, None without one
  link,     \* the connection: up, down, being set up
  setup, task,  \* the recovery in the setup and the one in the task, None without one
  told,     \* turns whose answer counts as synced to Telegram
  unnamed   \* turns whose stream did not learn their id

streamVars == <<alike, outcome, message, stream, link, setup, task, told, unnamed>>

All  == 1 .. MaxTurns
None == [turn |-> 0, named |-> FALSE, left |-> 0]

\* What a message shows: nothing yet, half an answer, a turn's answer, that it was cut short.
Blank     == [is |-> "none", of |-> 0]
Half      == [is |-> "half", of |-> 0]
Cut       == [is |-> "cut", of |-> 0]
Answer(t) == [is |-> "answer", of |-> t]
MessageTexts     == {Blank, Half, Cut} \cup {Answer(t) : t \in All}

Running == {t \in All : outcome[t] = "runs"}
Ended   == {t \in All : outcome[t] \in {"answered", "silent", "aborted"}}

Init ==
  /\ alike \in BOOLEAN
  /\ outcome = [t \in All |-> "none"]
  /\ message = [t \in All |-> Blank]
  /\ stream = None /\ setup = None /\ task = None
  /\ link = "up" /\ told = {} /\ unnamed = {}

-----------------------------------------------------------------------------
(* What a look finds for a recovery r.                                     *)

\* The turns whose end may be taken for that of r: its own if it has a name.
OwnAny(r) == Ended   \* mutant: the turn's id is not compared
Own(r)    == {t \in Ended : r.named => t = r.turn}

Aborted(r) == Own(r) # {} /\ outcome[Max(Own(r))] = "aborted"
Answered(ts) == {t \in ts : outcome[t] = "answered"}
LastOf(ts) == IF ts = {} THEN {} ELSE {Max(ts)}

\* The answers that begin with the half shown: of the last of the ends, or else the last of
\* the history.
Begins(r, ts)  == {t \in ts : alike \/ t = r.turn}
Candidates(r) ==
  LET ends == Begins(r, LastOf(Answered(Own(r))))
  IN IF ends # {} THEN ends ELSE Begins(r, LastOf(Answered(Ended)))

\* What a look tries to put into the message, one after the other as edits fail: that the
\* turn was cut short, the answer of the very turn, a candidate.
Tries(r) ==
  (IF Aborted(r) THEN {Cut} ELSE {})
    \cup {Answer(t) : t \in (IF r.named THEN LastOf(Answered(Own(r))) ELSE {}) \cup Candidates(r)}

Puts(r, text) ==
  /\ message' = [message EXCEPT ![r.turn] = text]
  /\ told' = IF text = Cut THEN told ELSE told \cup {r.turn}

-----------------------------------------------------------------------------
(* codex and the thread's messages.                                        *)

\* A turn starts once the last is over, whether or not anyone hears of it.
Starts ==
  /\ Running = {}
  /\ \E t \in All : /\ outcome[t] = "none" /\ \A u \in 1 .. t - 1 : u \in Ended
                    /\ outcome' = [outcome EXCEPT ![t] = "runs"]
  /\ UNCHANGED <<alike, message, stream, link, setup, task, told, unnamed>>

\* The first text of the running turn makes its message.
Shows ==
  /\ link = "up" /\ stream = None
  /\ \E t \in Running, named \in BOOLEAN :
       /\ message[t] = Blank
       /\ message' = [message EXCEPT ![t] = Half]
       /\ stream' = [turn |-> t, named |-> named, left |-> 0]
       /\ unnamed' = IF named THEN unnamed ELSE unnamed \cup {t}
  /\ UNCHANGED <<alike, outcome, link, setup, task, told>>

\* The turn ends: heard of, its message shows the answer; else the rollout alone has it.
Ends ==
  /\ \E t \in Running, how \in {"answered", "silent", "aborted"} :
       /\ outcome' = [outcome EXCEPT ![t] = how]
       /\ IF link = "up" /\ stream.turn = t
          THEN /\ message' = [message EXCEPT ![t] = CASE how = "answered" -> Answer(t)
                                                       [] how = "aborted" -> Cut
                                                       [] how = "silent" -> @]
               /\ told' = IF how = "answered" THEN told \cup {t} ELSE told
               /\ stream' = None
          ELSE UNCHANGED <<message, told, stream>>
  /\ UNCHANGED <<alike, link, setup, task, unnamed>>

Breaks ==
  /\ link = "up" /\ link' = "down"
  /\ UNCHANGED <<alike, outcome, message, stream, setup, task, told, unnamed>>

\* A new connection's setup sees to a stream that was left, before anything else is heard.
Reconnects ==
  /\ link = "down" /\ link' = IF stream = None THEN "up" ELSE "setup"
  /\ setup' = IF stream = None THEN None ELSE [stream EXCEPT !.left = MaxLooks]
  /\ UNCHANGED <<alike, outcome, message, stream, task, told, unnamed>>

-----------------------------------------------------------------------------
(* The recoveries.                                                         *)

\* The setup drops the stream, recovered or not.
SetupOver == link' = "up" /\ stream' = None /\ setup' = None

SetupPuts ==
  /\ link = "setup"
  /\ \E text \in Tries(setup) : Puts(setup, text)
  /\ SetupOver
  /\ UNCHANGED <<alike, outcome, task, unnamed>>

\* Nothing to show yet, or the edits fail; after the last look the task is left with it,
\* unless an earlier one still runs.
SetupLooks ==
  /\ link = "setup"
  /\ IF setup.left > 1
     THEN /\ setup' = [setup EXCEPT !.left = @ - 1]
          /\ UNCHANGED <<link, stream, task>>
     ELSE /\ SetupOver
          /\ task' = IF task = None THEN [setup EXCEPT !.left = MaxLooks] ELSE task
  /\ UNCHANGED <<alike, outcome, message, told, unnamed>>

\* A history that cannot be read ends the looks of the setup at once.
SetupGivesUp ==
  /\ link = "setup"
  /\ SetupOver
  /\ task' = IF task = None THEN [setup EXCEPT !.left = MaxLooks] ELSE task
  /\ UNCHANGED <<alike, outcome, message, told, unnamed>>

TaskPuts ==
  /\ task # None
  /\ \E text \in Tries(task) : Puts(task, text)
  /\ task' = None
  /\ UNCHANGED <<alike, outcome, stream, link, setup, unnamed>>

TaskLooks ==
  /\ task # None
  /\ task' = IF task.left > 1 THEN [task EXCEPT !.left = @ - 1] ELSE None
  /\ UNCHANGED <<alike, outcome, message, stream, link, setup, told, unnamed>>

\* The owner process ends: its streams and its tasks with it.
Restart ==
  /\ stream' = None /\ setup' = None /\ task' = None /\ link' = "down"
  /\ UNCHANGED <<alike, outcome, message, told, unnamed>>

Next ==
  \/ Starts \/ Shows \/ Ends \/ Breaks \/ Reconnects
  \/ SetupPuts \/ SetupLooks \/ SetupGivesUp \/ TaskPuts \/ TaskLooks \/ Restart

-----------------------------------------------------------------------------
Recoveries == [turn : 0 .. MaxTurns, named : BOOLEAN, left : 0 .. MaxLooks]

TypeOK ==
  /\ outcome \in [All -> {"none", "runs", "answered", "silent", "aborted"}]
  /\ message \in [All -> MessageTexts] /\ told \subseteq All
  /\ {stream, setup, task} \subseteq Recoveries
  /\ link \in {"up", "down", "setup"}

\* A message that was left half shown ends up with its own turn's answer, or its own turn's
\* end, never with another's, whatever turns have followed: unless the stream never learned
\* its turn's id, or the answers begin alike.
OwnAnswer ==
  alike \/ \A t \in All \ unnamed :
    /\ message[t] \in {Blank, Half, Cut, Answer(t)}
    /\ message[t] = Cut => outcome[t] = "aborted"
    /\ t \in told => message[t] = Answer(t) /\ outcome[t] = "answered"
=============================================================================
