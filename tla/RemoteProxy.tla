----------------------------- MODULE RemoteProxy -----------------------------
(***************************************************************************)
(* A codex CLI that talks to the app-server through OnlineWorker.  The     *)
(* proxy relays both ways over one connection.  An approval the app-server *)
(* asks for goes to the CLI's own prompt and, if the thread has a topic,   *)
(* to a Telegram card as well: the first of CLI, Telegram, deadline and    *)
(* the app-server's own resolution decides.  A list of threads is cut down *)
(* to those of the CLI's directory on its way back.                        *)
(***************************************************************************)
EXTENDS Naturals, Sequences, FiniteSets

CONSTANTS
  Requests,  \* approvals the app-server asks for
  Lists,     \* thread/list and thread/search calls of the CLI
  Id,        \* the JSON-RPC id of each; either side numbers its own calls
  Verdicts   \* what may be decided

VARIABLES
  open,     \* the connection stands, both sides
  down,     \* messages of the app-server not yet relayed
  outbound, \* the CLI's reply the relay is sending: [request, choice], or none
  prompt,   \* the CLI's prompt for each request
  race,     \* pending_approval_races holds the request
  answered, \* who the race was decided by
  waiting,  \* pending_approval_decisions holds the request
  event,    \* its event is set
  chosen,   \* the decision it was given
  card,     \* pending_approvals holds the card
  buttons,  \* the card has its buttons
  said,     \* the decision the card shows as carried out
  mirror,   \* the mirror's task
  replies,  \* replies the app-server received: <<by, choice>>
  resolved, \* the app-server said that the request is resolved
  cwds,     \* thread_collection_cwds: ids of list calls under way
  list      \* what the CLI got for each list call

approval == <<race, answered, waiting, event, chosen, card, buttons, said, mirror>>
lists    == <<cwds, list>>
vars     == <<open, down, outbound, prompt, approval, replies, resolved, lists>>

NoReply == [request |-> "none", choice |-> ""]

TypeOK ==
  /\ open \in BOOLEAN
  /\ \A k \in DOMAIN down : down[k] \in {"asks", "resolved"} \X Requests \cup {"list"} \X Lists
  /\ outbound \in [request : Requests, choice : Verdicts] \cup {NoReply}
  /\ prompt \in [Requests -> {"none", "open", "answered", "closed"}]
  /\ {race, waiting, event, card, buttons, resolved} \subseteq [Requests -> BOOLEAN]
  /\ answered \in [Requests -> {"", "cli", "telegram", "timeout", "resolved"}]
  /\ chosen \in [Requests -> Verdicts \cup {""}] /\ said \in [Requests -> Verdicts \cup {""}]
  /\ mirror \in [Requests -> {"none", "sending", "marking", "waiting", "replying",
                              "over", "cancelled"}]
  /\ cwds \subseteq {Id[l] : l \in Lists}
  /\ list \in [Lists -> {"none", "asked", "cut", "whole"}]
  \* A race is there for its task to decide, and so is what Telegram may choose.
  /\ \A r \in Requests : race[r] => mirror[r] \notin {"none", "over"}
  /\ \A r \in Requests : answered[r] # "" => event[r]

Init ==
  /\ open = TRUE /\ down = <<>> /\ outbound = NoReply
  /\ prompt = [r \in Requests |-> "none"]
  /\ race = [r \in Requests |-> FALSE] /\ waiting = race /\ event = race
  /\ card = race /\ buttons = race /\ resolved = race
  /\ answered = [r \in Requests |-> ""] /\ chosen = answered /\ said = answered
  /\ mirror = [r \in Requests |-> "none"]
  /\ replies = [r \in Requests |-> <<>>]
  /\ cwds = {} /\ list = [l \in Lists |-> "none"]

-----------------------------------------------------------------------------
(* The app-server.                                                         *)

Sends(kind, x) == down' = Append(down, <<kind, x>>)

Asked(r) == prompt[r] # "none" \/ \E k \in DOMAIN down : down[k] = <<"asks", r>>

ServerAsks(r) ==
  /\ open /\ ~Asked(r) /\ Sends("asks", r)
  /\ UNCHANGED <<open, outbound, prompt, approval, replies, resolved, lists>>

\* The first reply resolves a request; so does another client's, or the end of
\* its turn.
ServerResolves(r) ==
  /\ open /\ Asked(r) /\ ~resolved[r]
  /\ resolved' = [resolved EXCEPT ![r] = TRUE]
  /\ Sends("resolved", r)
  /\ UNCHANGED <<open, outbound, prompt, approval, replies, lists>>

ServerLists(l) ==
  /\ open /\ list[l] = "asked" /\ ~\E k \in DOMAIN down : down[k] = <<"list", l>>
  /\ Sends("list", l)
  /\ UNCHANGED <<open, outbound, prompt, approval, replies, resolved, lists>>

-----------------------------------------------------------------------------
(* From the app-server to the CLI.                                         *)

Relays(kind, x) == open /\ down # <<>> /\ Head(down) = <<kind, x>> /\ down' = Tail(down)

\* Any message with the id of a list call under way is taken for its answer.
RelayAsks(r) ==
  /\ Relays("asks", r)
  /\ prompt' = [prompt EXCEPT ![r] = "open"]
  /\ cwds' = cwds \ {Id[r]}
  /\ \E bound \in BOOLEAN :  \* the thread has a topic and a bot
       IF bound
       THEN /\ race' = [race EXCEPT ![r] = TRUE]
            /\ waiting' = [waiting EXCEPT ![r] = TRUE]
            /\ mirror' = [mirror EXCEPT ![r] = "sending"]
       ELSE UNCHANGED <<race, waiting, mirror>>
  /\ UNCHANGED <<open, outbound, answered, event, chosen, card, buttons, said, replies, resolved, list>>

\* An approval is no longer to be decided: its decision and its card go.
Discard(r) ==
  /\ waiting' = [waiting EXCEPT ![r] = FALSE]
  /\ card' = [card EXCEPT ![r] = FALSE]

Drop(r) == race' = [race EXCEPT ![r] = FALSE]

Mark(r, who) ==
  /\ answered' = [answered EXCEPT ![r] = IF @ = "" THEN who ELSE @]
  /\ event' = [event EXCEPT ![r] = TRUE]

\* An id that is zero reads as missing: the resolution finds no race.
RelayResolved(r) ==
  /\ Relays("resolved", r)
  /\ prompt' = [prompt EXCEPT ![r] = IF @ = "open" THEN "closed" ELSE @]
  /\ IF race[r] /\ Id[r] # 0
     THEN Drop(r) /\ Mark(r, "resolved") /\ Discard(r)
     ELSE UNCHANGED <<race, answered, event, waiting, card>>
  /\ UNCHANGED <<open, outbound, chosen, buttons, said, mirror, replies, resolved, lists>>

RelayList(l) ==
  /\ Relays("list", l)
  /\ list' = [list EXCEPT ![l] = IF Id[l] \in cwds THEN "cut" ELSE "whole"]
  /\ cwds' = cwds \ {Id[l]}
  /\ UNCHANGED <<open, outbound, prompt, approval, replies, resolved>>

-----------------------------------------------------------------------------
(* From the CLI to the app-server: one message at a time.                  *)

CliLists(l) ==
  /\ open /\ outbound = NoReply /\ list[l] = "none"
  /\ list' = [list EXCEPT ![l] = "asked"]
  /\ cwds' = cwds \cup {Id[l]}
  /\ UNCHANGED <<open, down, outbound, prompt, approval, replies, resolved>>

\* A reply to an approval that is decided already stays here.
CliAnswers(r, choice) ==
  /\ open /\ outbound = NoReply /\ prompt[r] = "open"
  /\ prompt' = [prompt EXCEPT ![r] = "answered"]
  /\ Drop(r)
  /\ \/ /\ race[r] /\ answered[r] # ""
        /\ UNCHANGED <<outbound, answered, event, waiting, card>>
     \/ /\ race[r] /\ answered[r] = ""
        /\ outbound' = [request |-> r, choice |-> choice]
        /\ Mark(r, "cli") /\ Discard(r)
     \/ /\ ~race[r]
        /\ outbound' = [request |-> r, choice |-> choice]
        /\ UNCHANGED <<answered, event, waiting, card>>
  /\ UNCHANGED <<open, down, chosen, buttons, said, mirror, replies, resolved, lists>>

Received(r, by, choice) == replies' = [replies EXCEPT ![r] = Append(@, <<by, choice>>)]

Forward ==
  /\ open /\ outbound # NoReply
  /\ Received(outbound.request, "cli", outbound.choice)
  /\ outbound' = NoReply
  /\ UNCHANGED <<open, down, prompt, approval, resolved, lists>>

-----------------------------------------------------------------------------
(* The mirror's task, one for each approval.                               *)

Goes(r, stage) == mirror' = [mirror EXCEPT ![r] = stage]

\* A card that was not sent, or is not there any more, leaves the CLI alone.
GivesUp(r) ==
  /\ waiting' = [waiting EXCEPT ![r] = FALSE]
  /\ event' = [event EXCEPT ![r] = @ \/ waiting[r]]
  /\ Drop(r) /\ Goes(r, "over")

CardSent(r) ==
  /\ mirror[r] = "sending"
  /\ \/ /\ card' = [card EXCEPT ![r] = TRUE] /\ Goes(r, "marking")
        /\ UNCHANGED <<waiting, event, race>>
     \/ GivesUp(r) /\ UNCHANGED card
  /\ UNCHANGED <<open, down, outbound, prompt, answered, chosen, buttons, said, replies, resolved, lists>>

CardMarked(r) ==
  /\ mirror[r] = "marking"
  /\ \E ok \in BOOLEAN : buttons' = [buttons EXCEPT ![r] = ok]
  /\ IF card[r] THEN Goes(r, "waiting") /\ UNCHANGED <<waiting, event, race>> ELSE GivesUp(r)
  /\ UNCHANGED <<open, down, outbound, prompt, answered, chosen, card, said, replies, resolved, lists>>

Press(r, choice) ==
  /\ card[r] /\ buttons[r]
  /\ card' = [card EXCEPT ![r] = FALSE]
  /\ said' = [said EXCEPT ![r] = choice]
  /\ IF waiting[r]
     THEN /\ waiting' = [waiting EXCEPT ![r] = FALSE]
          /\ chosen' = [chosen EXCEPT ![r] = choice]
          /\ event' = [event EXCEPT ![r] = TRUE]
     ELSE UNCHANGED <<waiting, chosen, event>>
  /\ UNCHANGED <<open, down, outbound, prompt, race, answered, buttons, mirror, replies, resolved, lists>>

\* Mutant: whoever wakes replies.
DecidedByNobody(r) == FALSE
Decided(r) == answered[r] # ""

\* Mutant: the task waits for a choice, not for the event.
WakesForChoice(r) ==
  /\ mirror[r] = "waiting" /\ chosen[r] # ""
  /\ IF Decided(r)
     THEN Discard(r) /\ Goes(r, "over") /\ UNCHANGED <<answered, event>>
     ELSE Mark(r, "telegram") /\ Goes(r, "replying") /\ UNCHANGED <<waiting, card>>
  /\ UNCHANGED <<open, down, outbound, prompt, race, chosen, buttons, said, replies, resolved, lists>>

Wakes(r) ==
  /\ mirror[r] = "waiting" /\ event[r]
  /\ IF Decided(r)
     THEN Discard(r) /\ Goes(r, "over") /\ UNCHANGED <<answered, event>>
     ELSE Mark(r, "telegram") /\ Goes(r, "replying") /\ UNCHANGED <<waiting, card>>
  /\ UNCHANGED <<open, down, outbound, prompt, race, chosen, buttons, said, replies, resolved, lists>>

TimesOut(r) ==
  /\ mirror[r] = "waiting" /\ ~event[r]
  /\ Mark(r, "timeout") /\ Goes(r, "replying")
  /\ UNCHANGED <<open, down, outbound, prompt, race, waiting, chosen, card, buttons, said, replies, resolved, lists>>

\* What is sent at the deadline is a refusal.  The send waits while the
\* relay holds the connection, and fails with it.
Replies(r) ==
  /\ mirror[r] = "replying" /\ outbound = NoReply
  /\ Received(r, answered[r], IF answered[r] = "timeout" THEN "" ELSE chosen[r])
  /\ Drop(r) /\ Discard(r) /\ Goes(r, "over")
  /\ UNCHANGED <<open, down, outbound, prompt, answered, event, chosen, buttons, said, resolved, lists>>

-----------------------------------------------------------------------------
\* Either side closes: the relays end and the tasks are cancelled where they
\* wait; one that was replying still cleans up.
Close ==
  /\ open /\ open' = FALSE
  /\ down' = <<>> /\ outbound' = NoReply
  /\ prompt' = [r \in Requests |-> IF prompt[r] = "open" THEN "closed" ELSE prompt[r]]
  /\ LET replying == {r \in Requests : mirror[r] = "replying"}
         live == {r \in Requests : mirror[r] \in {"sending", "marking", "waiting"}} IN
     /\ mirror' = [r \in Requests |-> IF r \in live THEN "cancelled"
                                      ELSE IF r \in replying THEN "over" ELSE mirror[r]]
     /\ waiting' = [r \in Requests |-> waiting[r] /\ r \notin replying]
     /\ card' = [r \in Requests |-> card[r] /\ r \notin replying]
  /\ race' = [r \in Requests |-> FALSE]
  /\ cwds' = {}
  /\ UNCHANGED <<answered, event, chosen, buttons, said, replies, resolved, list>>

Server == \E r \in Requests : ServerAsks(r) \/ ServerResolves(r)
Relay  == \/ \E r \in Requests : RelayAsks(r) \/ RelayResolved(r)
          \/ \E l \in Lists : RelayList(l)
          \/ Forward
Task(r) == CardSent(r) \/ CardMarked(r) \/ Wakes(r) \/ Replies(r)
People == \E r \in Requests : \E c \in Verdicts : CliAnswers(r, c) \/ Press(r, c)

Next ==
  \/ Server \/ Relay \/ People \/ Close
  \/ \E l \in Lists : CliLists(l) \/ ServerLists(l)
  \/ \E r \in Requests : Task(r) \/ TimesOut(r)

Spec == Init /\ [][Next]_vars

\* Tasks run, Telegram calls return and the relays go on; nobody has to press
\* or answer anything, and the deadline of ten minutes may be far off.
FairSpec == Spec /\ WF_vars(Relay) /\ \A r \in Requests : WF_vars(Task(r))

-----------------------------------------------------------------------------
ByProxy(r) == {k \in DOMAIN replies[r] : replies[r][k][1] # "cli"}

\* One decision: the proxy replies to an approval for Telegram or for the
\* deadline at most once and only as the first, never after the CLI's reply
\* or once it knows that the request is resolved.
FirstDecides ==
  \A r \in Requests :
    /\ ByProxy(r) \subseteq {1}
    /\ \A k \in ByProxy(r) : replies[r][k][1] = answered[r] /\ answered[r] # "resolved"

\* Once an approval is decided by anybody, its task ends without waiting for
\* the deadline.
DecisionEnds ==
  \A r \in Requests : answered[r] # "" ~> mirror[r] \in {"over", "cancelled"}

\* The CLI is shown the threads of its directory only.
ListScoped == \A l \in Lists : list[l] # "whole"

\* A card says that a decision was carried out only if the app-server got it.
SaidIsDone ==
  \A r \in Requests :
    said[r] # "" /\ mirror[r] \in {"over", "cancelled"} =>
      <<"telegram", said[r]>> \in {replies[r][k] : k \in DOMAIN replies[r]}
=============================================================================
