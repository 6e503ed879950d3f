---------------------------- MODULE Interactions ----------------------------
(***************************************************************************)
(* Approvals and questions of one session: the provider waits for a        *)
(* decision, the session's activity says so, the desktop and a Telegram    *)
(* topic both offer it, and either may decide.                             *)
(*                                                                         *)
(* codex asks with server requests of its JSON-RPC connection and tells    *)
(* later that one is resolved; a reply is a message it may ignore.         *)
(* claude asks with hook processes, each waiting on a future the adapter   *)
(* keeps; a reply to a future that is gone raises.  Telegram messages are  *)
(* sent by an ordered consumer, one await at a time.                       *)
(***************************************************************************)
EXTENDS Naturals, Sequences, FiniteSets, SequencesExt

CONSTANTS
  Providers,  \* the providers a behaviour may be about: "codex", "claude"
  Approvals,  \* approval requests; of codex, their JSON-RPC ids
  Questions,  \* question ids
  Parts,      \* sub-questions of a question: 1..n
  Decisions,  \* of "allow", "deny" and "always", those a person may take
  NoId,       \* the empty request id
  AtOnce,     \* bound: requests the provider has open at once
  MaxAhead,   \* bound: messages not yet handled while more output comes
  Drift       \* TRUE when the two channels of a provider may be out of step

ASSUME InteractionsAssumption ==
  /\ Providers \subseteq {"codex", "claude"}
  /\ Approvals \subseteq Nat
  /\ Decisions \subseteq {"allow", "deny", "always"}
  /\ Approvals \cap Questions = {}
  /\ NoId \notin Approvals \cup Questions
  /\ Parts = 1 .. Cardinality(Parts)
  /\ AtOnce \in Nat /\ MaxAhead \in Nat /\ Drift \in BOOLEAN

Requests == Approvals \cup Questions
Clients  == {"desktop", "telegram"}

VARIABLES
  setting,   \* [provider, topic: the session has one, late: replies may be]
  turn,      \* the provider works on a turn
  ask,       \* the provider's view of each request
  took,      \* what the provider took: a choice, or the parts answered
  told,      \* parts of each question emitted so far
  future,    \* claude: _pending_hook_requests and _pending_hook_questions
  given,     \* claude: what the future was resolved with
  always,    \* claude: the tool is in _session_tool_allowlist
  inbox,     \* what the provider said that is not yet handled
  wire,      \* codex: replies written, not yet read by the app-server
  calls,     \* replies whose send is still awaited
  activity,  \* the session's activity
  seen,      \* dedupe identities
  queue,     \* the Telegram consumer's tasks
  work,      \* the task it awaits
  buttons,   \* pending_approvals, by request
  open,      \* run.active_interruption_ids, by request
  pending,   \* pending_questions: <<question, part>>
  typing,    \* those with awaiting_text
  answers    \* pending_question_groups: the parts answered

provider == <<turn, ask, took, told, future, given, always>>
link     == <<inbox, wire, calls>>
bus      == <<activity, seen>>
telegram == <<queue, work, buttons, open, pending, typing, answers>>
vars     == <<setting, provider, link, bus, telegram>>

Task == [what : {"approval", "finish"}, of : Approvals, part : {0}]
        \cup [what : {"part"}, of : Questions, part : Parts]
Idle == [what |-> "idle", of |-> NoId, part |-> 0, stage |-> "idle"]

TypeOK ==
  /\ setting \in [provider : Providers, topic : BOOLEAN, late : BOOLEAN]
  /\ turn \in BOOLEAN
  /\ ask \in [Requests -> {"none", "open", "closed"}]
  /\ DOMAIN took = Requests
  /\ \A i \in Approvals : took[i] \subseteq Decisions \cup {"allow"}
  /\ \A q \in Questions : took[q] \subseteq Parts
  /\ told \in [Questions -> {0} \cup Parts]
  /\ future \in [Requests -> {"none", "open", "done"}]
  /\ DOMAIN given = Requests
  /\ always \in BOOLEAN
  /\ \A k \in DOMAIN inbox : inbox[k].of \in Approvals \cup {NoId}
  /\ wire \cup calls \subseteq Clients \X Approvals \X Decisions
  /\ activity \in [status : {"running", "attention", "over"}, kind : {"", "approval", "question"},
                   req : Requests \cup {NoId}, parts : SUBSET Parts]
  /\ \A k \in DOMAIN queue : queue[k] \in Task
  /\ work = Idle \/ work.stage \in {"posting", "keys"}
  /\ buttons \subseteq Approvals /\ open \subseteq Approvals
  /\ typing \subseteq pending /\ pending \subseteq Questions \X Parts
  /\ answers \in [Questions -> SUBSET Parts]

Running == [status |-> "running", kind |-> "", req |-> NoId, parts |-> {}]

Init ==
  /\ setting \in [provider : Providers, topic : BOOLEAN, late : BOOLEAN]
  /\ turn = TRUE
  /\ ask = [i \in Requests |-> "none"]
  /\ took = [i \in Requests |-> {}]
  /\ told = [q \in Questions |-> 0]
  /\ future = [i \in Requests |-> "none"]
  /\ given = [i \in Requests |-> {}]
  /\ always = FALSE
  /\ inbox = <<>> /\ wire = {} /\ calls = {}
  /\ activity = Running
  /\ seen = {}
  /\ queue = <<>> /\ work = Idle
  /\ buttons = {} /\ open = {} /\ pending = {} /\ typing = {}
  /\ answers = [q \in Questions |-> {}]

-----------------------------------------------------------------------------
(* The bus and the projection.  An event is [kind, of, ...]; what tells two *)
(* accounts of one fact apart is in its identity.                          *)

\* str(value or ""): a JSON-RPC id of 0 is no id.
Clean(i) == IF i = 0 THEN NoId ELSE i

Answered(a) == IF a.status = "over" THEN a ELSE Running

Progress(a) == IF a.kind = "question" THEN a ELSE Running

\* Mutant: a failed turn keeps what it waited for, like a completed one.
ShownFailedKeeps(e, a) ==
  IF e.kind = "failed" /\ a.status = "attention" THEN a
  ELSE CASE e.kind = "requested" -> [status |-> "attention", kind |-> "approval",
                                     req |-> Clean(e.of), parts |-> {}]
         [] e.kind = "asked" -> [status |-> "attention", kind |-> "question", req |-> e.of,
                                 parts |-> {e.part} \cup (IF a.req = e.of THEN a.parts ELSE {})]
         [] e.kind = "started" -> Running
         [] OTHER -> Answered(a)

Shown(e, a) ==
  CASE e.kind = "requested" -> [status |-> "attention", kind |-> "approval",
                                req |-> Clean(e.of), parts |-> {}]
    [] e.kind = "answered"  -> Answered(a)
    [] e.kind = "asked"     -> [status |-> "attention", kind |-> "question", req |-> e.of,
                                parts |-> {e.part} \cup (IF a.req = e.of THEN a.parts ELSE {})]
    [] e.kind = "replied"   -> IF a.req \in {NoId, e.of} THEN Answered(a) ELSE a
    [] e.kind = "progress"  -> Progress(a)
    [] e.kind = "started"   -> Running
    [] e.kind = "completed" -> IF a.status = "attention" THEN a
                               ELSE [a EXCEPT !.status = "over"]
    [] e.kind \in {"final", "failed"} -> [Running EXCEPT !.status = "over"]

Keyed(e) == e.kind \in {"requested", "answered", "asked", "replied"}
Event(kind, i, detail) == [kind |-> kind, of |-> i, detail |-> detail, part |-> 0]
Fresh(e) == ~Keyed(e) \/ [e EXCEPT !.of = Clean(@)] \notin seen

Publish(e) ==
  /\ activity' = IF Fresh(e) THEN Shown(e, activity) ELSE activity
  /\ seen' = IF Keyed(e) THEN seen \cup {[e EXCEPT !.of = Clean(@)]} ELSE seen

\* The consumer's publish names another identity than claude's event does.
Request(i, by) ==
  Event("requested", i, IF setting.provider = "codex" THEN "both" ELSE by)

IsPending(q) ==
  activity.status = "attention" /\ activity.kind = "question" /\ activity.req = q

\* The session's own topic, or nothing is sent to Telegram at all.
Routed        == setting.topic
Enqueue(task) == queue' = IF Routed THEN Append(queue, task) ELSE queue
ApprovalTask(what, i) == [what |-> what, of |-> i, part |-> 0]

-----------------------------------------------------------------------------
(* The provider asks, goes on, and stops.                                  *)

Waiting  == {i \in Requests : ask[i] = "open"}
IsCodex  == setting.provider = "codex"
MayAsk(i) ==
  /\ turn /\ ask[i] = "none" /\ Cardinality(Waiting) < AtOnce
  /\ IsCodex \/ Drift \/ inbox = <<>>  \* claude's output and its hooks

\* No question is half emitted.
AllTold ==
  \A q \in Questions : future[q] = "open" => told[q] = Cardinality(Parts)

Receive(kind, i) == inbox' = Append(inbox, [kind |-> kind, of |-> i])

CodexAsks(i) ==
  /\ IsCodex /\ MayAsk(i)
  /\ ask' = [ask EXCEPT ![i] = "open"]
  /\ Receive("request", i)
  /\ UNCHANGED <<setting, turn, took, told, future, given, always, wire, calls, bus, telegram>>

\* A tool the session always allows is answered at once, unseen.
ClaudeAsks(i) ==
  /\ ~IsCodex /\ MayAsk(i)
  /\ IF always
     THEN /\ ask' = [ask EXCEPT ![i] = "closed"]
          /\ took' = [took EXCEPT ![i] = {"allow"}]
          /\ UNCHANGED <<future, bus, queue>>
     ELSE /\ ask' = [ask EXCEPT ![i] = "open"]
          /\ future' = [future EXCEPT ![i] = "open"]
          /\ Publish(Request(i, "hook"))
          /\ Enqueue(ApprovalTask("approval", i))
          /\ UNCHANGED took
  /\ UNCHANGED <<setting, turn, told, given, always, link, work, buttons, open, pending, typing, answers>>

ClaudeQuestion(q) ==
  /\ ~IsCodex /\ MayAsk(q)
  /\ ask' = [ask EXCEPT ![q] = "open"]
  /\ future' = [future EXCEPT ![q] = "open"]
  /\ UNCHANGED <<setting, turn, took, told, given, always, link, bus, telegram>>

\* The hook's parts are emitted one by one, each a round through the loop.
ClaudePart(q) ==
  LET p == told[q] + 1 IN
  /\ future[q] # "none" /\ p \in Parts
  /\ told' = [told EXCEPT ![q] = p]
  /\ Publish([Event("asked", q, "") EXCEPT !.part = p])
  /\ Enqueue([what |-> "part", of |-> q, part |-> p])
  /\ UNCHANGED <<setting, turn, ask, took, future, given, always, link, work, buttons, open, pending,
                 typing, answers>>

\* The hook's process, if it lives, reads the response and passes it on.
Relayed(i) ==
  IF ask[i] = "open"
  THEN ask' = [ask EXCEPT ![i] = "closed"] /\ took' = [took EXCEPT ![i] = given[i]]
  ELSE UNCHANGED <<ask, took>>

\* The handler of a hook whose future is done resumes, forgets the entry and responds.
HookReturns(i) ==
  /\ future[i] = "done"
  /\ i \in Questions => told[i] = Cardinality(Parts)
  /\ future' = [future EXCEPT ![i] = "none"]
  /\ Relayed(i)
  /\ UNCHANGED <<setting, turn, told, given, always, link, bus, telegram>>

\* Output of the turn, while it waits for nobody.
GoesOn ==
  /\ turn /\ Waiting = {}
  /\ Len(inbox) < MaxAhead
  /\ Receive("progress", NoId)
  /\ UNCHANGED <<setting, provider, wire, calls, bus, telegram>>

Ends ==
  /\ turn /\ Waiting = {}
  /\ turn' = FALSE
  /\ Receive("final", NoId)
  /\ UNCHANGED <<setting, ask, took, told, future, given, always, wire, calls, bus, telegram>>

\* The turn is interrupted.  codex resolves its requests first; claude's
\* process is killed and with it its hook processes, but not their futures.
Interrupted ==
  LET gone == SetToSeq(Waiting)
      last(kind) == <<[kind |-> kind, of |-> NoId]>>
  IN
  /\ Waiting # {} /\ (Drift \/ AllTold)
  /\ turn' = FALSE
  /\ ask' = [i \in Requests |-> IF i \in Waiting THEN "closed" ELSE ask[i]]
  /\ inbox' = inbox \o (IF IsCodex
                        THEN [k \in DOMAIN gone |-> [kind |-> "resolved", of |-> gone[k]]]
                             \o last("completed")
                        ELSE last("failed"))
  /\ UNCHANGED <<setting, took, told, future, given, always, wire, calls, bus, telegram>>

\* claude's next turn waits for the events of the last one.
NextTurn ==
  /\ ~turn
  /\ IF IsCodex THEN Len(inbox) < MaxAhead ELSE inbox = <<>>
  /\ turn' = TRUE
  /\ Receive("started", NoId)
  /\ UNCHANGED <<setting, ask, took, told, future, given, always, wire, calls, bus, telegram>>

-----------------------------------------------------------------------------
(* What the connection delivers: server requests go to one worker, all     *)
(* other messages to another.                                              *)

Take(k) == inbox' = RemoveAt(inbox, k)
IsNext(k) == IF Drift
             THEN \A n \in 1 .. k - 1 : (inbox[n].kind = "request") # (inbox[k].kind = "request")
             ELSE k = 1

\* A request whose buttons are in Telegram already; an id of 0 is never found.
Mirrored(i) == i # 0 /\ i \in buttons

\* A request mirrored to Telegram already is skipped, or else published;
\* the delivery subscriber notes an interruption of the run and the send.
HandleRequest(k) ==
  LET i == inbox[k].of IN
  /\ inbox[k].kind = "request"
  /\ IF Mirrored(i)
     THEN UNCHANGED <<bus, open, queue>>
     ELSE /\ Publish(Request(i, "hook"))
          /\ IF Fresh(Request(i, "hook"))
             THEN open' = open \cup {i} /\ Enqueue(ApprovalTask("approval", i))
             ELSE UNCHANGED <<open, queue>>
  /\ UNCHANGED <<work, buttons, pending, typing, answers>>

\* Mutant: only the buttons there are now are taken back.
HandleResolvedOnce(k) ==
  LET i == inbox[k].of IN
  /\ inbox[k].kind = "resolved"
  /\ buttons' = IF i = 0 THEN buttons ELSE buttons \ {i}
  /\ open' = IF i = 0 THEN open ELSE open \ {i}
  /\ IF i # 0 /\ activity.req = i
     THEN Publish(Event("answered", i, "resolved"))
     ELSE UNCHANGED bus
  /\ UNCHANGED <<queue, work, pending, typing, answers>>

\* Mutant: the buttons go, and nobody else is told.
HandleResolvedSilently(k) ==
  LET i == inbox[k].of IN
  /\ inbox[k].kind = "resolved"
  /\ buttons' = IF i = 0 THEN buttons ELSE buttons \ {i}
  /\ open' = IF i = 0 THEN open ELSE open \ {i}
  /\ queue' = Append(queue, ApprovalTask("finish", i))
  /\ UNCHANGED <<bus, work, pending, typing, answers>>

\* serverRequest/resolved: an id of 0 reads as no id at all.
HandleResolved(k) ==
  LET i == inbox[k].of IN
  /\ inbox[k].kind = "resolved"
  /\ buttons' = IF i = 0 THEN buttons ELSE buttons \ {i}
  /\ open' = IF i = 0 THEN open ELSE open \ {i}
  /\ IF i # 0 /\ activity.req = i
     THEN Publish(Event("answered", i, "resolved"))
     ELSE UNCHANGED bus
  /\ queue' = Append(queue, ApprovalTask("finish", i))
  /\ UNCHANGED <<work, pending, typing, answers>>

HandleOther(k) ==
  /\ inbox[k].kind \in {"started", "progress", "final", "completed", "failed"}
  /\ Publish(Event(inbox[k].kind, NoId, ""))
  /\ UNCHANGED telegram

Handle ==
  /\ \E k \in DOMAIN inbox :
       /\ IsNext(k) /\ Take(k)
       /\ HandleRequest(k) \/ HandleResolved(k) \/ HandleOther(k)
  /\ UNCHANGED <<setting, provider, wire, calls>>

-----------------------------------------------------------------------------
(* The Telegram consumer.                                                  *)

Working(task, stage) ==
  [what |-> task.what, of |-> task.of, part |-> task.part, stage |-> stage]

TakeTask ==
  LET task == Head(queue) IN
  /\ work = Idle /\ queue # <<>>
  /\ queue' = Tail(queue)
  /\ CASE task.what = "approval" -> work' = Working(task, "posting") /\ UNCHANGED buttons
       [] task.what = "part"     -> /\ work' = IF IsPending(task.of)
                                               THEN Working(task, "posting") ELSE Idle
                                   /\ UNCHANGED buttons
       [] task.what = "finish"   -> /\ buttons' = buttons \ {IF task.of = 0 THEN NoId ELSE task.of}
                                   /\ UNCHANGED work
  /\ UNCHANGED <<setting, provider, link, bus, open, pending, typing, answers>>

\* The message is out: register the buttons and publish the request, once
\* more, for those who have not heard of it.
ApprovalPosted ==
  /\ work.what = "approval"
  /\ buttons' = buttons \cup {work.of}
  /\ Publish(Request(work.of, "telegram"))
  /\ work' = Idle
  /\ UNCHANGED <<setting, provider, link, queue, open, pending, typing, answers>>

PartPosted ==
  /\ work.what = "part" /\ work.stage = "posting"
  /\ IF IsPending(work.of)
     THEN pending' = pending \cup {<<work.of, work.part>>} /\ work' = [work EXCEPT !.stage = "keys"]
     ELSE work' = Idle /\ UNCHANGED pending
  /\ UNCHANGED <<setting, provider, link, bus, queue, buttons, open, typing, answers>>

\* The keyboard is attached; the question may have been answered meanwhile.
KeysAttached ==
  LET item == <<work.of, work.part>> IN
  /\ work.stage = "keys"
  /\ work' = Idle
  /\ IF IsPending(work.of)
     THEN UNCHANGED <<pending, typing, answers>>
     ELSE /\ pending' = pending \ {item}
          /\ typing' = typing \ {item}
          /\ answers' = [answers EXCEPT ![work.of] = {}]
  /\ UNCHANGED <<setting, provider, link, bus, queue, buttons, open>>

\* Telegram refuses or times out: what was registered stays.
PostFails ==
  /\ work # Idle
  /\ work' = Idle
  /\ UNCHANGED <<setting, provider, link, bus, queue, buttons, open, pending, typing, answers>>

-----------------------------------------------------------------------------
(* Deciding an approval.                                                   *)

\* After the reply: Telegram forgets the buttons, and both publish.
Replied(c, i, choice) ==
  /\ Publish(Event("answered", i, choice))
  /\ buttons' = IF c = "telegram" THEN buttons \ {i} ELSE buttons

\* The desktop names the request it shows, by a non-empty id; its view may
\* be older than the activity.
Offered(c, i) ==
  IF c = "telegram" THEN i \in buttons
  ELSE /\ i # 0
       /\ \/ activity.kind = "approval" /\ activity.req = i
          \/ setting.late /\ \E e \in seen : e.kind = "requested" /\ e.of = i

\* The reply goes out on the connection, whatever became of the request.
Sends(c, i, choice) == wire' = wire \cup {<<c, i, choice>>}

CodexDecide(c, i, choice) ==
  /\ IsCodex /\ Offered(c, i)
  /\ Sends(c, i, choice)
  /\ IF setting.late
     THEN calls' = calls \cup {<<c, i, choice>>} /\ UNCHANGED <<bus, buttons>>
     ELSE Replied(c, i, choice) /\ UNCHANGED calls
  /\ UNCHANGED <<setting, provider, inbox, queue, work, open, pending, typing, answers>>

SendReturns(c, i, choice) ==
  /\ <<c, i, choice>> \in calls
  /\ calls' = calls \ {<<c, i, choice>>}
  /\ Replied(c, i, choice)
  /\ UNCHANGED <<setting, provider, inbox, wire, queue, work, open, pending, typing, answers>>

\* The app-server reads a reply: to a request it no longer waits for it is
\* nothing, else it resolves it.
CodexTakes(c, i, choice) ==
  /\ <<c, i, choice>> \in wire
  /\ wire' = wire \ {<<c, i, choice>>}
  /\ IF ask[i] = "open"
     THEN /\ ask' = [ask EXCEPT ![i] = "closed"]
          /\ took' = [took EXCEPT ![i] = {choice}]
          /\ Receive("resolved", i)
     ELSE UNCHANGED <<ask, took, inbox>>
  /\ UNCHANGED <<setting, turn, told, future, given, always, calls, bus, telegram>>

Resolve(i, what) ==
  /\ future' = [future EXCEPT ![i] = "done"]
  /\ given' = [given EXCEPT ![i] = what]

\* No entry raises before anything is published; a done future is ignored,
\* but not what the choice says about the session's other tools.
ClaudeDecide(c, i, choice) ==
  /\ ~IsCodex /\ Offered(c, i)
  /\ future[i] # "none"
  /\ always' = (always \/ choice = "always")
  /\ IF future[i] = "open" THEN Resolve(i, {choice}) ELSE UNCHANGED <<future, given>>
  /\ Replied(c, i, choice)
  /\ UNCHANGED <<setting, turn, ask, took, told, link, queue, work, open, pending, typing, answers>>

-----------------------------------------------------------------------------
(* Answering a question.                                                   *)

\* Mutant: the topic goes on waiting for a text.
DiscardKeepsTyping(q) ==
  /\ pending' = {item \in pending : item[1] # q}
  /\ answers' = [answers EXCEPT ![q] = {}]
  /\ UNCHANGED typing

Discard(q) ==
  LET left == {item \in pending : item[1] # q} IN
  /\ pending' = left
  /\ typing' = typing \cap left
  /\ answers' = [answers EXCEPT ![q] = {}]

\* submit_question_reply: a future that is gone only discards the question.
Submit(q, parts) ==
  /\ IF future[q] = "open"
     THEN Resolve(q, parts) /\ Publish(Event("replied", q, ""))
     ELSE UNCHANGED <<future, given, bus>>
  /\ Discard(q)

DesktopAnswers(q) ==
  /\ IsPending(q) /\ activity.parts = Parts
  /\ Submit(q, Parts)
  /\ UNCHANGED <<setting, turn, ask, took, told, always, link, queue, work, buttons, open>>

AllAnswered(parts) == Cardinality(parts) = Cardinality(Parts)

\* The answer of a part waits for the others of its group; the last one submits them all.
SubmitAnswer(q, p) ==
  LET done == answers[q] \cup {p} IN
  IF AllAnswered(done)
  THEN Submit(q, done)
  ELSE /\ answers' = [answers EXCEPT ![q] = done]
       /\ pending' = pending \ {<<q, p>>}
       /\ typing' = typing \ {<<q, p>>}
       /\ UNCHANGED <<future, given, bus>>

\* What is over is discarded, or else answered.
AnswersPart(q, p) ==
  /\ IF IsPending(q) THEN SubmitAnswer(q, p) ELSE Discard(q) /\ UNCHANGED <<future, given, bus>>
  /\ UNCHANGED <<setting, turn, ask, took, told, always, link, queue, work, buttons, open>>

\* A pressed option or a confirmed selection.
TelegramPresses(q, p) == <<q, p>> \in pending /\ AnswersPart(q, p)

\* The text that is typed for a part.
TelegramTexts(q, p) == <<q, p>> \in typing /\ AnswersPart(q, p)

\* q_cus: the next text of the topic is the answer.
TelegramTypes(q, p) ==
  /\ <<q, p>> \in pending \ typing
  /\ IF IsPending(q) THEN typing' = typing \cup {<<q, p>>} /\ UNCHANGED <<pending, answers>>
                     ELSE Discard(q)
  /\ UNCHANGED <<setting, provider, link, bus, queue, work, buttons, open>>

\* A press on buttons older than their time to live.
TelegramExpired(q, p) ==
  /\ <<q, p>> \in pending
  /\ Discard(q)
  /\ UNCHANGED <<setting, provider, link, bus, queue, work, buttons, open>>

-----------------------------------------------------------------------------
Provider ==
  \/ \E i \in Approvals : CodexAsks(i) \/ ClaudeAsks(i)
  \/ \E q \in Questions : ClaudeQuestion(q) \/ ClaudePart(q)
  \/ \E i \in Requests : HookReturns(i)
  \/ GoesOn \/ Ends \/ Interrupted \/ NextTurn

Consumer == TakeTask \/ ApprovalPosted \/ PartPosted \/ KeysAttached

Decide(c, i, choice) ==
  \/ CodexDecide(c, i, choice) \/ SendReturns(c, i, choice)
  \/ CodexTakes(c, i, choice) \/ ClaudeDecide(c, i, choice)

Answer(q) ==
  \/ DesktopAnswers(q)
  \/ \E p \in Parts : TelegramPresses(q, p) \/ TelegramTexts(q, p) \/ TelegramTypes(q, p) \/ TelegramExpired(q, p)

Next ==
  \/ Provider
  \/ Handle
  \/ Consumer \/ PostFails
  \/ \E c \in Clients, i \in Approvals, choice \in Decisions : Decide(c, i, choice)
  \/ \E q \in Questions : Answer(q)

Spec == Init /\ [][Next]_vars

\* The workers run; a send of Telegram or the connection ends.
FairSpec == Spec /\ WF_vars(Handle) /\ WF_vars(Consumer)
                 /\ \A q \in Questions : WF_vars(ClaudePart(q))

-----------------------------------------------------------------------------
\* Nothing is on its way to the bus, the provider or the topic.
AtRest ==
  /\ inbox = <<>> /\ wire = {} /\ calls = {} /\ queue = <<>> /\ work = Idle
  /\ \A i \in Requests : future[i] # "done"
  /\ AllTold

\* What the person reads is what the provider waits for.
Faithful ==
  /\ activity.status = "attention" <=> Waiting # {}
  /\ Waiting # {} => activity.req \in Waiting

\* At rest, a session shows "needs attention" exactly while its provider
\* waits, and names the request it waits for.
AttentionTrue == AtRest => Faithful

\* Somebody decided a request the provider no longer waited for.
Outdated ==
  \E e \in seen : e.kind = "answered" /\ e.detail \in Decisions /\ took[e.of] # {e.detail}

\* The same where no such answer was given, no reply is held up by
\* back-pressure, and no Telegram send of claude's publishes a request again.
AttentionTrueUnlessLate ==
  ~Outdated /\ ~setting.late /\ (IsCodex \/ ~setting.topic) => AttentionTrue

\* codex: no button and no interruption of the run outlives its request,
\* whoever decided it and however late its message was posted.
NothingLeft ==
  IsCodex /\ AtRest => buttons \cup open \subseteq Waiting

\* The session-wide permission was given by a decision the provider took.
AlwaysMeant == always => \E i \in Approvals : took[i] = {"always"}

\* The buttons of a decided codex request go away.
ButtonsCleared ==
  \A i \in Approvals :
    IsCodex /\ i \in buttons /\ ask[i] = "closed" ~> i \notin buttons
=============================================================================
