----------------------------- MODULE ClaudeTurns -----------------------------
(***************************************************************************)
(* The turns of one claude session: those OnlineWorker runs itself, a      *)
(* process for each message sent from the desktop or a topic, and those a  *)
(* person runs in a terminal, known from the hooks that claude process     *)
(* relays.  Both tell the session's activity, one at a time: a lock of the *)
(* session, granted in order, is held by a send from its turn's start to   *)
(* its end and by a terminal's hook while it is handled.                   *)
(***************************************************************************)
EXTENDS Naturals, Sequences, FiniteSets

CONSTANTS
  Sends,    \* messages sent through the adapter; each is its turn's id
  Prompts,  \* turns of the terminal, 1..n
  Texts,    \* what is asked
  NoTurn,   \* no turn id, and no answer
  AdHoc,    \* the id made up for a terminal turn that never started
  Quiet,    \* bound: hooks of the terminal not yet handled when it goes on
  Tools,    \* bound: tools of a terminal's turn
  MaxTurns  \* bound: turns of both kinds

Lifecycle == {"start", "prompt", "stop", "failed", "end"}
Hooks == Lifecycle \cup {"tool", "ask"}

ASSUME ClaudeTurnsAssumption ==
  /\ Prompts = 1 .. Cardinality(Prompts)
  /\ Sends \cap Prompts = {} /\ Sends \cap (Hooks \X ({0} \cup Prompts)) = {}
  /\ {NoTurn, AdHoc} \cap (Sends \cup Prompts) = {} /\ NoTurn # AdHoc
  /\ {Quiet, Tools, MaxTurns} \subseteq Nat

Turns == Sends \cup Prompts \cup {AdHoc}

VARIABLES
  connected, \* _connected
  send,      \* where each send_user_message call stands
  result,    \* the status it returned
  proc,      \* the claude process of a send
  active,    \* _active_processes of the session
  cancelled, \* the session is in _cancelled_threads
  line,      \* the session's lock: its holder, then those who wait
  hook,      \* _external_hook_sessions of the session
  asked,     \* the text of each message and prompt
  terminal,  \* what the claude in the terminal does
  last,      \* the session file's last user and assistant messages, by turn
  shown,     \* the session's activity: [status, turn]
  finals,    \* final messages told: <<turn, whose answer it is>>
  pressed,   \* sends that were active when somebody interrupted
  answers,   \* terminal's turns that ended with an answer
  overlap    \* a turn began while the other's was not ended

managed == <<connected, send, result, proc, active, cancelled, pressed>>
outside == <<asked, terminal, last, answers>>
told    == <<shown, finals>>
vars    == <<managed, line, hook, outside, told, overlap>>

\* Mutant: whoever waits goes on.
HoldsAny(who) == \E k \in DOMAIN line : line[k] = who
Holds(who)    == line # <<>> /\ Head(line) = who

TypeOK ==
  /\ connected \in BOOLEAN
  /\ send \in [Sends -> {"none", "checking", "waiting", "started", "reading", "read", "over"}]
  /\ result \in [Sends -> {"", "completed", "cancelled", "error", "refused", "raised"}]
  /\ proc \in [Sends -> {"none", "works", "asks", "answered", "failed", "killed"}]
  /\ active \in {s \in Sends : send[s] = "reading"} \cup {NoTurn}
  /\ \A s \in Sends : send[s] \in {"started", "reading", "read"} => Holds(s)
  /\ cancelled \in BOOLEAN
  /\ \A k \in DOMAIN line : line[k] \in Sends \cup (Hooks \X ({0} \cup Prompts))
  /\ hook \in [turn : Turns \cup {NoTurn}, ended : Turns \cup {NoTurn},
               open : BOOLEAN, prompt : Texts \cup {NoTurn}]
  /\ asked \in [Sends \cup Prompts -> Texts]
  /\ terminal \in [stage : {"closed", "idle", "working", "tool", "left"},
                   turn : {0} \cup Prompts, tools : 0 .. Tools]
  /\ last \in [user : Turns \cup {NoTurn}, answer : Turns \cup {NoTurn}]
  /\ shown \in [status : {"idle", "running", "attention", "over"}, turn : Turns \cup {NoTurn}]
  /\ finals \subseteq Turns \X (Turns \cup {NoTurn})
  /\ pressed \subseteq Sends /\ answers \subseteq Prompts
  /\ overlap \in BOOLEAN

\* What the adapter knows of the terminal's turns is dropped with its hook bridge.
NoHooks == [turn |-> NoTurn, ended |-> NoTurn, open |-> FALSE, prompt |-> NoTurn]

Init ==
  /\ connected = TRUE
  /\ send = [s \in Sends |-> "none"]
  /\ result = [s \in Sends |-> ""]
  /\ proc = [s \in Sends |-> "none"]
  /\ active = NoTurn /\ cancelled = FALSE /\ pressed = {}
  /\ line = <<>>
  /\ hook = NoHooks
  /\ terminal = [stage |-> "closed", turn |-> 0, tools |-> 0]
  /\ asked \in [Sends \cup Prompts -> Texts]
  /\ last = [user |-> NoTurn, answer |-> NoTurn]
  /\ answers = {}
  /\ shown = [status |-> "idle", turn |-> NoTurn]
  /\ finals = {}
  /\ overlap = FALSE

-----------------------------------------------------------------------------
(* The activity.  An event that names a turn other than the current one is *)
(* not the activity's business.                                            *)

Scoped(kind) == kind \notin {"started"}
Concerns(kind, turn, a) == ~Scoped(kind) \/ NoTurn \in {turn, a.turn} \/ turn = a.turn

Status(kind, was) ==
  CASE kind \in {"started", "works"}   -> "running"
    [] kind = "asks"                   -> "attention"
    [] kind = "answered" /\ was # "over" -> "running"
    [] kind \in {"final", "failed"}    -> "over"
    [] kind = "completed" /\ was # "attention" -> "over"
    [] OTHER                           -> was

After(kind, turn, a) ==
  IF Concerns(kind, turn, a)
  THEN [status |-> Status(kind, a.status),
        turn   |-> IF turn # NoTurn /\ (kind = "started" \/ a.turn = NoTurn) THEN turn ELSE a.turn]
  ELSE a

Tell(kind, turn) == shown' = After(kind, turn, shown) /\ UNCHANGED finals

\* The final message and the end of a turn, told in this order.
TellAnswer(turn, answer) ==
  /\ shown' = After("completed", turn,
                    IF answer = NoTurn THEN shown ELSE After("final", turn, shown))
  /\ finals' = IF answer = NoTurn THEN finals ELSE finals \cup {<<turn, answer>>}

-----------------------------------------------------------------------------
(* The lock.                                                               *)

Join(who)  == line' = Append(line, who)
Release    == line' = Tail(line)

-----------------------------------------------------------------------------
(* A message is sent.                                                      *)

Alive(s) == proc[s] \in {"works", "asks"}
Under(s) == send[s] \notin {"none", "over"}
MoreTurns == Cardinality({s \in Sends : send[s] # "none"}) + terminal.turn < MaxTurns
Unended  == terminal.stage \in {"working", "tool", "left"}

Called(s) ==
  /\ connected /\ send[s] = "none" /\ MoreTurns
  /\ send' = [send EXCEPT ![s] = "checking"]
  /\ overlap' = (overlap \/ Unended)
  /\ UNCHANGED <<connected, result, proc, active, cancelled, pressed, line, hook, outside, told>>

\* check_readiness runs claude; a claude that is not ready refuses the send.
Ready(s) ==
  /\ send[s] = "checking"
  /\ send' = [send EXCEPT ![s] = "waiting"]
  /\ Join(s)
  /\ UNCHANGED <<connected, result, proc, active, cancelled, pressed, hook, outside, told, overlap>>

NotReady(s) ==
  /\ send[s] = "checking"
  /\ send' = [send EXCEPT ![s] = "over"]
  /\ result' = [result EXCEPT ![s] = "refused"]
  /\ UNCHANGED <<connected, proc, active, cancelled, pressed, line, hook, outside, told, overlap>>

Begin(s) ==
  /\ send[s] = "waiting" /\ Holds(s)
  /\ send' = [send EXCEPT ![s] = "started"]
  /\ Tell("started", s)
  /\ UNCHANGED <<connected, result, proc, active, cancelled, pressed, line, hook, outside, overlap>>

Spawn(s) ==
  /\ send[s] = "started"
  /\ send' = [send EXCEPT ![s] = "reading"]
  /\ proc' = [proc EXCEPT ![s] = "works"]
  /\ active' = s
  /\ last' = [last EXCEPT !.user = s]
  /\ UNCHANGED <<connected, result, cancelled, pressed, line, hook, asked, terminal, answers, told, overlap>>

End(s, status) ==
  /\ send' = [send EXCEPT ![s] = "over"]
  /\ result' = [result EXCEPT ![s] = status]
  /\ Release

SpawnFails(s) ==
  /\ send[s] = "started"
  /\ Tell("failed", s)
  /\ End(s, "error")
  /\ UNCHANGED <<connected, proc, active, cancelled, pressed, hook, outside, overlap>>

Delta(s) ==
  /\ send[s] = "reading" /\ proc[s] = "works"
  /\ Tell("works", s)
  /\ UNCHANGED <<managed, line, hook, outside, overlap>>

\* A tool of the process needs a permission: its hook is handled without the
\* lock, which the send holds, and waits for the reply.
Asks(s) ==
  /\ proc[s] = "works"
  /\ proc' = [proc EXCEPT ![s] = "asks"]
  /\ Tell("asks", NoTurn)
  /\ UNCHANGED <<connected, send, result, active, cancelled, pressed, line, hook, outside, overlap>>

\* Mutant: the hook's handler takes the session's lock.
AnsweredLocked(s) ==
  /\ proc[s] = "asks" /\ line = <<>>
  /\ proc' = [proc EXCEPT ![s] = "works"]
  /\ Tell("answered", NoTurn)
  /\ UNCHANGED <<connected, send, result, active, cancelled, pressed, line, hook, outside, overlap>>

Answered(s) ==
  /\ proc[s] = "asks"
  /\ proc' = [proc EXCEPT ![s] = "works"]
  /\ Tell("answered", NoTurn)
  /\ UNCHANGED <<connected, send, result, active, cancelled, pressed, line, hook, outside, overlap>>

\* The process ends, with an answer in the session file or without.
Exits(s) ==
  /\ proc[s] = "works"
  /\ \E how \in {"answered", "failed"} :
       /\ proc' = [proc EXCEPT ![s] = how]
       /\ last' = IF how = "answered" THEN [last EXCEPT !.answer = s] ELSE last
  /\ UNCHANGED <<connected, send, result, active, cancelled, pressed, line, hook, asked, terminal, answers,
                 told, overlap>>

\* The end of its output is read and its exit status awaited.
Reaped(s) ==
  /\ send[s] = "reading" /\ ~Alive(s)
  /\ send' = [send EXCEPT ![s] = "read"]
  /\ active' = NoTurn
  /\ UNCHANGED <<connected, result, proc, cancelled, pressed, line, hook, outside, told, overlap>>

\* A line longer than the stream's buffer raises out of the send: the entry
\* is dropped and the lock released, the process is left to itself.
Unreadable(s) ==
  /\ send[s] = "reading" /\ proc[s] = "works"
  /\ active' = NoTurn
  /\ End(s, "raised")
  /\ UNCHANGED <<connected, proc, cancelled, pressed, hook, outside, told, overlap>>

\* Mutant: the mark of the interruption outlives the turn it was for.
FinishKeepsMark(s) ==
  /\ send[s] = "read"
  /\ IF cancelled
     THEN Tell("failed", s) /\ End(s, "cancelled")
     ELSE IF proc[s] = "answered"
     THEN TellAnswer(s, s) /\ End(s, "completed")
     ELSE Tell("failed", s) /\ End(s, "error")
  /\ UNCHANGED <<connected, proc, active, cancelled, pressed, hook, outside, overlap>>

Finish(s) ==
  /\ send[s] = "read"
  /\ cancelled' = FALSE
  /\ IF cancelled
     THEN Tell("failed", s) /\ End(s, "cancelled")
     ELSE IF proc[s] = "answered"
     THEN TellAnswer(s, s) /\ End(s, "completed")
     ELSE Tell("failed", s) /\ End(s, "error")
  /\ UNCHANGED <<connected, proc, active, pressed, hook, outside, overlap>>

\* The mark is set before the kill, which fails when the process has ended.
Interrupt ==
  /\ active # NoTurn
  /\ cancelled' = TRUE
  /\ pressed' = pressed \cup {active}
  /\ proc' = IF Alive(active) THEN [proc EXCEPT ![active] = "killed"] ELSE proc
  /\ UNCHANGED <<connected, send, result, active, line, hook, outside, told, overlap>>

\* The hooks' sessions are forgotten with the connection; a send that waits
\* for the lock is not.
Disconnect ==
  /\ connected
  /\ connected' = FALSE
  /\ proc' = IF active # NoTurn /\ Alive(active) THEN [proc EXCEPT ![active] = "killed"] ELSE proc
  /\ active' = NoTurn
  /\ hook' = NoHooks
  /\ UNCHANGED <<send, result, cancelled, pressed, line, outside, told, overlap>>

-----------------------------------------------------------------------------
(* The terminal.  Its hooks are relayed while the adapter is connected;    *)
(* those of a turn's life are ignored while a process of ours is active.   *)

\* Mutant: no hook waits for its turn.
RelayAtOnce(what) ==
  line' = IF connected /\ ~(what \in Lifecycle /\ active # NoTurn)
          THEN <<<<what, terminal'.turn>>>> \o line ELSE line

Relay(what) ==
  IF connected /\ ~(what \in Lifecycle /\ active # NoTurn)
  THEN Join(<<what, terminal'.turn>>)
  ELSE UNCHANGED line

\* The terminal goes on while few of its hooks wait.
Goes ==
  /\ Cardinality({k \in DOMAIN line : line[k] \notin Sends}) < Quiet
  /\ UNCHANGED <<managed, hook, asked, told>>

Opens ==
  /\ Goes /\ terminal.stage = "closed"
  /\ terminal' = [terminal EXCEPT !.stage = "idle"]
  /\ Relay("start")
  /\ UNCHANGED <<last, answers, overlap>>

Prompted(p) ==
  /\ Goes /\ terminal.stage \in {"idle", "left"}
  /\ p = terminal.turn + 1 /\ MoreTurns
  /\ terminal' = [stage |-> "working", turn |-> p, tools |-> 0]
  /\ last' = [last EXCEPT !.user = p]
  /\ overlap' = (overlap \/ \E s \in Sends : Under(s))
  /\ Relay("prompt")
  /\ UNCHANGED answers

\* A tool that may need a permission is mirrored as a request for it.
UsesTool ==
  /\ Goes /\ terminal.stage = "working" /\ terminal.tools < Tools
  /\ terminal' = [terminal EXCEPT !.stage = "tool", !.tools = @ + 1]
  /\ \E what \in {"tool", "ask"} : Relay(what)
  /\ UNCHANGED <<last, answers, overlap>>

ToolDone ==
  /\ Goes /\ terminal.stage = "tool"
  /\ terminal' = [terminal EXCEPT !.stage = "working"]
  /\ Relay("tool") \/ UNCHANGED line  \* used, or denied
  /\ UNCHANGED <<last, answers, overlap>>

Stops ==
  /\ Goes /\ terminal.stage = "working"
  /\ terminal' = [terminal EXCEPT !.stage = "idle"]
  /\ \/ /\ last' = [last EXCEPT !.answer = terminal.turn]
        /\ answers' = answers \cup {terminal.turn}
        /\ Relay("stop")
     \/ /\ UNCHANGED <<last, answers>>
        /\ Relay("stop") \/ Relay("failed")
  /\ UNCHANGED overlap

\* Interrupted by its user, a turn ends without a hook.
Leaves ==
  /\ Goes /\ terminal.stage \in {"working", "tool"}
  /\ terminal' = [terminal EXCEPT !.stage = "left"]
  /\ UNCHANGED <<line, last, answers, overlap>>

Closes ==
  /\ Goes /\ terminal.stage \in {"idle", "left"}
  /\ terminal' = [terminal EXCEPT !.stage = "closed"]
  /\ Relay("end")
  /\ UNCHANGED <<last, answers, overlap>>

-----------------------------------------------------------------------------
(* A hook's turn at the lock.                                              *)

\* Mutant: the same prompt again is a repeat, even after its turn ended.
IsRepeatEver(text) == hook.prompt = text
IsRepeat(text)     == hook.open /\ hook.prompt = text

OnPrompt(p) ==
  IF IsRepeat(asked[p])
  THEN UNCHANGED <<hook, told>>
  ELSE /\ hook' = [turn |-> p, ended |-> NoTurn, open |-> TRUE, prompt |-> asked[p]]
       /\ Tell("started", p)

\* The prompt shown with a tool is the one remembered, or the file's last.
OnTool(what) ==
  /\ hook' = IF hook.prompt = NoTurn /\ last.user # NoTurn
             THEN [hook EXCEPT !.prompt = asked[last.user]] ELSE hook
  /\ Tell(IF what = "ask" THEN "asks" ELSE "works", NoTurn)

EndingTurn == IF hook.turn = NoTurn THEN AdHoc ELSE hook.turn
HasEnded   == ~hook.open /\ hook.turn # NoTurn /\ hook.ended = hook.turn

OnStop ==
  /\ TellAnswer(EndingTurn, last.answer)
  /\ hook' = [hook EXCEPT !.turn = EndingTurn, !.open = FALSE, !.ended = EndingTurn]

OnFailure ==
  /\ Tell("failed", EndingTurn)
  /\ hook' = [hook EXCEPT !.open = FALSE, !.ended = EndingTurn]

HandleHook ==
  /\ line # <<>> /\ Head(line) \notin Sends
  /\ Release
  /\ LET what == Head(line)[1] IN
     CASE what = "start"           -> UNCHANGED <<hook, told>>
       [] what = "prompt"          -> OnPrompt(Head(line)[2])
       [] what \in {"tool", "ask"} -> OnTool(what)
       [] what \in {"stop", "failed", "end"} /\ HasEnded -> UNCHANGED <<hook, told>>
       [] what \in {"stop", "end"} /\ ~HasEnded -> OnStop
       [] what = "failed" /\ ~HasEnded          -> OnFailure
  /\ UNCHANGED <<managed, outside, overlap>>

-----------------------------------------------------------------------------
SendStep(s) ==
  \/ Ready(s) \/ NotReady(s) \/ Begin(s) \/ Spawn(s) \/ SpawnFails(s)
  \/ Reaped(s) \/ Finish(s)

Process(s) == Delta(s) \/ Asks(s) \/ Answered(s) \/ Exits(s)

Terminal ==
  \/ Opens \/ (\E p \in Prompts : Prompted(p)) \/ UsesTool \/ ToolDone
  \/ Stops \/ Leaves \/ Closes

Next ==
  \/ \E s \in Sends : Called(s) \/ SendStep(s) \/ Process(s) \/ Unreadable(s)
  \/ Interrupt \/ Disconnect
  \/ Terminal
  \/ HandleHook

Spec == Init /\ [][Next]_vars

\* A send goes on, a hook is handled, a permission asked for is decided, and
\* no process asks for permissions forever.
FairSpec ==
  /\ Spec
  /\ WF_vars(HandleHook)
  /\ \A s \in Sends : WF_vars(SendStep(s)) /\ WF_vars(Answered(s)) /\ SF_vars(Exits(s))

-----------------------------------------------------------------------------
\* No send raised out of its reading loop.
Whole == \A s \in Sends : result[s] # "raised"

\* Only one process of ours works on the session at a time, and while it
\* does, the session's activity is about its turn.
OneAtATime ==
  \A s \in Sends : Whole /\ Alive(s) =>
    /\ shown.turn = s
    /\ \A t \in Sends \ {s} : ~Alive(t)

\* A turn told and returned as cancelled is one that somebody interrupted,
\* not the next one.
CancelMeant == \A s \in Sends : Whole /\ result[s] = "cancelled" => s \in pressed

\* Nothing works on the session or waits to be told.
AtRest ==
  /\ connected /\ line = <<>>
  /\ \A s \in Sends : ~Under(s)
  /\ terminal.stage \in {"closed", "idle"}

\* The session is not shown as running for ever, and no answer is lost.
TerminalTold ==
  AtRest =>
    /\ shown.status # "running"
    /\ \A p \in answers : \E t \in Turns : <<t, p>> \in finals

\* The same, where the terminal and the adapter took turns.
TerminalToldApart == ~overlap /\ Whole => TerminalTold

\* A message called for is answered: the send returns.
SendsEnd == \A s \in Sends : send[s] # "none" ~> send[s] = "over"
=============================================================================
