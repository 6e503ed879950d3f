------------------------- MODULE ClaudeTurnsProofs -------------------------
(***************************************************************************)
(* Proofs about ClaudeTurns, for any messages, any turns of the terminal   *)
(* and any number of hooks and tools: the session's lock is its holder's   *)
(* alone, the mark of an interruption is used up by the turn it was for,   *)
(* and one process of ours works at a time, under its own name.            *)
(***************************************************************************)
EXTENDS ClaudeTurns, SequenceTheorems, FiniteSetTheorems, TLAPS

InLock == {"started", "reading", "read"}

\* Whoever may stand in line: a message, or a hook of the terminal's.
Waiting == Sends \cup (Hooks \X ({0} \cup Prompts))

TurnTypes ==
  /\ line \in Seq(Waiting)
  /\ send \in [Sends -> {"none", "checking", "waiting", "started", "reading", "read", "over"}]
  /\ result \in [Sends -> {"", "completed", "cancelled", "error", "refused", "raised"}]
  /\ proc \in [Sends -> {"none", "works", "asks", "answered", "failed", "killed"}]
  /\ active \in Sends \cup {NoTurn} /\ cancelled \in BOOLEAN /\ pressed \subseteq Sends
  /\ terminal \in [stage : {"closed", "idle", "working", "tool", "left"},
                   turn : {0} \cup Prompts, tools : Nat]

\* A send works only while it holds the lock, and the activity is then about it.
Locked ==
  /\ \A s \in Sends : send[s] \in InLock => Holds(s) /\ shown.turn = s
  /\ active # NoTurn => send[active] = "reading"

\* A send that raised is over.  Unless one did, the mark of an interruption stands
\* for the turn that holds the lock, and a process of ours is that turn's.
Marked ==
  /\ \A s \in Sends : result[s] = "raised" => send[s] = "over"
  /\ Whole => /\ cancelled => \E s \in Sends : send[s] \in {"reading", "read"} /\ s \in pressed
              /\ \A s \in Sends : Alive(s) => send[s] = "reading"
              /\ CancelMeant

TurnsInv == TurnTypes /\ Locked /\ Marked

-----------------------------------------------------------------------------
(* The line and the activity.                                              *)

\* Who joins the line stands behind its holder.
LEMMA JoinKeeps ==
  ASSUME line \in Seq(Waiting), NEW w \in Waiting, Join(w)
  PROVE  /\ line' \in Seq(Waiting)
         /\ \A who : Holds(who) => Holds(who)'
<1>1. line' = Append(line, w)
  BY DEF Join
<1>2. line' \in Seq(Waiting) /\ Len(line') = Len(line) + 1 /\ Len(line) \in Nat
      /\ \A i \in 1 .. Len(line) : line'[i] = line[i]
  BY <1>1, AppendProperties, LenProperties
<1>3. ASSUME line # <<>>
      PROVE  line' # <<>> /\ Head(line') = Head(line)
  <2>1. Len(line) > 0 /\ Len(line') > 0
    BY <1>2, <1>3, EmptySeq
  <2>2. line' # <<>> /\ Head(line) = line[1] /\ Head(line') = line'[1]
    BY <1>2, <2>1, EmptySeq
  <2> QED BY <1>2, <2>1, <2>2
<1> QED BY <1>2, <1>3 DEF Holds

\* Who leaves it leaves the others.
LEMMA ReleaseKeeps ==
  ASSUME line \in Seq(Waiting), line # <<>>, Release
  PROVE  line' \in Seq(Waiting)
BY HeadTailProperties DEF Release

\* An event that names no turn, or the current one, leaves the turn.
LEMMA TurnStays ==
  ASSUME NEW kind, NEW a
  PROVE  /\ After(kind, NoTurn, a).turn = a.turn
         /\ \A s : s = a.turn => After(kind, s, a).turn = s
         /\ \A s : s # NoTurn => After("started", s, a).turn = s
BY DEF After, Concerns, Scoped

\* Only one send holds the lock.
LEMMA OneHolds ==
  ASSUME Locked, NEW s \in Sends, NEW t \in Sends, send[s] \in InLock, send[t] \in InLock
  PROVE  s = t /\ line # <<>> /\ Head(line) = s
BY DEF Locked, Holds

-----------------------------------------------------------------------------
(* The steps.                                                              *)

\* A step of the terminal does not touch the sends.
LEMMA TerminalStep == ASSUME TurnsInv, Terminal PROVE TurnsInv'
<1>1. UNCHANGED <<managed, told>>
  BY DEF Terminal, Goes, Opens, Prompted, UsesTool, ToolDone, Stops, Leaves, Closes
<1>2. terminal' \in [stage : {"closed", "idle", "working", "tool", "left"},
                    turn : {0} \cup Prompts, tools : Nat]
  <2> DEFINE T == [stage : {"closed", "idle", "working", "tool", "left"},
                   turn : {0} \cup Prompts, tools : Nat]
  <2>0. terminal \in T
    BY DEF TurnsInv, TurnTypes
  <2> SUFFICES terminal' \in T
    OBVIOUS
  <2>1. CASE Opens
    BY <2>0, <2>1 DEF Opens
  <2>2. ASSUME NEW p \in Prompts, Prompted(p)
        PROVE  terminal' \in T
    BY <2>0, <2>2 DEF Prompted
  <2>3. CASE UsesTool
    <3>1. terminal.tools + 1 \in Nat
      BY <2>0
    <3>2. terminal' = [terminal EXCEPT !.stage = "tool", !.tools = terminal.tools + 1]
      BY <2>3 DEF UsesTool
    <3> QED BY <2>0, <3>1, <3>2
  <2>4. CASE ToolDone
    BY <2>0, <2>4 DEF ToolDone
  <2>5. CASE Stops
    BY <2>0, <2>5 DEF Stops
  <2>6. CASE Leaves
    BY <2>0, <2>6 DEF Leaves
  <2>7. CASE Closes
    BY <2>0, <2>7 DEF Closes
  <2> HIDE DEF T
  <2> QED BY <2>1, <2>2, <2>3, <2>4, <2>5, <2>6, <2>7 DEF Terminal
<1>3. \/ UNCHANGED line
      \/ \E what \in Hooks : Join(<<what, terminal'.turn>>)
  BY DEF Terminal, Opens, Prompted, UsesTool, ToolDone, Stops, Leaves, Closes, Relay, Hooks, Lifecycle
<1>4. /\ line' \in Seq(Waiting)
      /\ \A who : Holds(who) => Holds(who)'
  <2>1. CASE UNCHANGED line
    BY <2>1 DEF TurnsInv, TurnTypes, Holds
  <2>2. ASSUME NEW what \in Hooks, Join(<<what, terminal'.turn>>)
        PROVE  /\ line' \in Seq(Waiting)
               /\ \A who : Holds(who) => Holds(who)'
    <3>1. PICK w : w = <<what, terminal'.turn>>
      OBVIOUS
    <3>2. w \in Waiting
      BY <1>2, <3>1 DEF Waiting
    <3> QED BY <2>2, <3>1, <3>2, JoinKeeps DEF TurnsInv, TurnTypes
  <2> QED BY <1>3, <2>1, <2>2
<1> QED
  BY <1>1, <1>2, <1>4
  DEF TurnsInv, TurnTypes, Locked, Marked, managed, told, Whole, Alive, CancelMeant

\* A step of a message that has the lock or asks for it.
LEMMA SendsStep ==
  ASSUME TurnsInv, NEW s \in Sends,
         Called(s) \/ SendStep(s) \/ Unreadable(s)
  PROVE  TurnsInv'
<1>0. /\ TurnTypes /\ Locked /\ Marked /\ NoTurn \notin Sends /\ s \in Waiting
      /\ \A t \in Sends : send[t] \in InLock => Holds(t) /\ shown.turn = t
  BY ClaudeTurnsAssumption DEF TurnsInv, Waiting, Locked
<1>11. ASSUME NEW stage \in {"checking", "over", "read"}, NEW status \in {result[s], "refused"},
              send' = [send EXCEPT ![s] = stage], result' = [result EXCEPT ![s] = status],
              stage = "over" \/ status = result[s],
              \/ stage # "read" /\ send[s] \in {"none", "checking"} /\ active' = active
              \/ stage = "read" /\ send[s] = "reading" /\ active' = NoTurn /\ ~Alive(s),
              UNCHANGED <<proc, cancelled, pressed, line, terminal, shown>>
       PROVE  TurnsInv'
  <2>1. /\ send'[s] = stage /\ result'[s] = status
        /\ \A t \in Sends \ {s} : send'[t] = send[t] /\ result'[t] = result[t]
    BY <1>0, <1>11 DEF TurnTypes
  <2>2. TurnTypes'
    BY <1>0, <1>11 DEF TurnTypes
  <2>3. Locked'
    BY <1>0, <1>11, <2>1, OneHolds DEF Locked, InLock, Holds, TurnTypes
  <2>4. Whole' => Whole
    BY <1>0, <1>11, <2>1 DEF Whole, Marked
  <2>5. Marked'
    <3>1. \A t \in Sends : result'[t] = "raised" => send'[t] = "over"
      BY <1>0, <1>11, <2>1 DEF Marked
    <3>2. ASSUME Whole', cancelled'
          PROVE  \E t \in Sends : send'[t] \in {"reading", "read"} /\ t \in pressed'
      BY <1>0, <1>11, <2>1, <2>4, <3>2 DEF Marked
    <3>3. ASSUME Whole', NEW t \in Sends, Alive(t)'
          PROVE  send'[t] = "reading"
      BY <1>0, <1>11, <2>1, <2>4, <3>3 DEF Marked, Alive
    <3>4. Whole' => CancelMeant'
      BY <1>0, <1>11, <2>1, <2>4 DEF Marked, CancelMeant
    <3> QED BY <3>1, <3>2, <3>3, <3>4 DEF Marked
  <2> QED BY <2>2, <2>3, <2>5 DEF TurnsInv
<1>12. result[s] \in {result[s], "refused"} /\ result = [result EXCEPT ![s] = result[s]]
  BY <1>0 DEF TurnTypes
<1>1. CASE Called(s) \/ NotReady(s)
  <2>1. CASE Called(s)
    <3>1. /\ send' = [send EXCEPT ![s] = "checking"] /\ send[s] = "none" /\ result' = result
          /\ UNCHANGED <<active, proc, cancelled, pressed, line, terminal, shown>>
      BY <2>1 DEF Called, outside, told
    <3> QED BY <1>11, <1>12, <3>1
  <2>2. CASE NotReady(s)
    <3>1. /\ send' = [send EXCEPT ![s] = "over"] /\ send[s] = "checking"
          /\ result' = [result EXCEPT ![s] = "refused"]
          /\ UNCHANGED <<active, proc, cancelled, pressed, line, terminal, shown>>
      BY <2>2 DEF NotReady, outside, told
    <3> QED BY <1>11, <3>1
  <2> QED BY <1>1, <2>1, <2>2
<1>2. CASE Ready(s)
  <2>1. line' \in Seq(Waiting) /\ (\A t : Holds(t) => Holds(t)')
    BY <1>0, <1>2, JoinKeeps DEF Ready, TurnTypes
  <2> QED
    BY <1>0, <1>2, <2>1
    DEF Ready, TurnsInv, TurnTypes, Locked, Marked, InLock, Whole, Alive, CancelMeant, outside, told
<1>3. CASE Begin(s)
  <2>1. shown'.turn = s /\ UNCHANGED line
    BY <1>0, <1>3, TurnStays DEF Begin, Tell
  <2>2. \A t \in Sends : send[t] \notin InLock \/ t = s
    BY <1>0, <1>3 DEF Begin, Holds
  <2>3. /\ send'[s] = "started" /\ \A t \in Sends : t # s => send'[t] = send[t]
        /\ send' \in [Sends -> {"none", "checking", "waiting", "started", "reading", "read", "over"}]
        /\ send[s] = "waiting" /\ Holds(s)
        /\ UNCHANGED <<result, proc, active, cancelled, pressed, line, terminal>>
    BY <1>0, <1>3 DEF Begin, TurnTypes, outside
  <2> QED
    BY <1>0, <2>1, <2>2, <2>3
    DEF TurnsInv, TurnTypes, Locked, Marked, InLock, Whole, Alive, CancelMeant, Holds
<1>4. CASE Spawn(s)
  <2>1. \A t \in Sends : send[t] \notin InLock \/ t = s
    BY <1>0, <1>4, OneHolds DEF Spawn, InLock
  <2>2. /\ send' = [send EXCEPT ![s] = "reading"] /\ proc' = [proc EXCEPT ![s] = "works"]
        /\ active' = s /\ send[s] = "started"
        /\ UNCHANGED <<result, cancelled, pressed, line, terminal, shown>>
    BY <1>4 DEF Spawn, told
  <2> QED
    BY <1>0, <2>1, <2>2
    DEF TurnsInv, TurnTypes, Locked, Marked, InLock, Whole, Alive, CancelMeant, Holds
<1>5. CASE Reaped(s)
  <2>1. /\ send' = [send EXCEPT ![s] = "read"] /\ send[s] = "reading" /\ result' = result
        /\ active' = NoTurn /\ ~Alive(s)
        /\ UNCHANGED <<proc, cancelled, pressed, line, terminal, shown>>
    BY <1>5 DEF Reaped, outside, told
  <2> QED BY <1>11, <1>12, <2>1
<1>6. ASSUME NEW status \in {"completed", "cancelled", "error", "raised"}, End(s, status),
             send[s] \in InLock, UNCHANGED <<pressed, terminal>>,
             active' \in {active, NoTurn}, cancelled' \in {cancelled, FALSE},
             UNCHANGED proc, send[s] = "reading" => active' = NoTurn,
             status = "raised" \/ (Whole => ~Alive(s) /\ (cancelled' => send[s] = "started")),
             status = "cancelled" /\ Whole => s \in pressed
      PROVE  TurnsInv'
  <2>1. \A t \in Sends : send[t] \in InLock => t = s /\ line # <<>>
    BY <1>0, <1>6, OneHolds
  <2>2. line' \in Seq(Waiting)
    BY <1>0, <1>6, <2>1, ReleaseKeeps DEF End, TurnTypes
  <2>3. /\ send' = [send EXCEPT ![s] = "over"] /\ result' = [result EXCEPT ![s] = status]
    BY <1>6 DEF End
  <2>4. TurnTypes'
    BY <1>0, <1>6, <2>2, <2>3 DEF TurnTypes
  <2>5. \A t \in Sends : send'[t] \notin InLock
    BY <1>0, <2>1, <2>3 DEF TurnTypes, InLock
  <2>6. active' = NoTurn
    BY <1>0, <1>6, <2>1 DEF Locked, TurnTypes, InLock
  <2>7. Locked'
    BY <2>5, <2>6 DEF Locked
  <2>8. \A t \in Sends : result'[t] = "raised" => send'[t] = "over"
    BY <1>0, <2>3 DEF Marked, TurnTypes
  <2>9. ASSUME Whole'
        PROVE  /\ ~cancelled' /\ (\A t \in Sends : ~Alive(t)') /\ CancelMeant'
    <3>1. status # "raised" /\ result'[s] = status
      BY <1>0, <2>3, <2>9 DEF Whole, TurnTypes
    <3>2. Whole
      BY <1>0, <2>3, <2>9, <1>6 DEF Whole, TurnTypes, Marked, InLock
    <3>3. ~cancelled'
      BY <1>0, <1>6, <2>1, <3>1, <3>2 DEF Marked, InLock, TurnTypes
    <3>4. \A t \in Sends : ~Alive(t)'
      BY <1>0, <1>6, <2>1, <3>1, <3>2 DEF Marked, InLock, Alive
    <3>5. CancelMeant'
      BY <1>0, <1>6, <2>3, <3>1, <3>2 DEF Marked, CancelMeant, TurnTypes
    <3> QED BY <3>3, <3>4, <3>5
  <2>10. Marked'
    BY <2>8, <2>9 DEF Marked
  <2> QED BY <2>4, <2>7, <2>10 DEF TurnsInv
<1>7. CASE SpawnFails(s)
  <2>1. /\ send[s] = "started" /\ End(s, "error")
        /\ UNCHANGED <<pressed, terminal, active, proc, cancelled>>
    BY <1>7 DEF SpawnFails, outside
  <2>2. Whole => ~Alive(s)
    BY <1>0, <2>1 DEF Marked
  <2> QED BY <1>6, <2>1, <2>2 DEF InLock
<1>8. CASE Unreadable(s)
  BY <1>0, <1>6, <1>8 DEF Unreadable, InLock, outside, TurnTypes
<1>9. CASE Finish(s)
  <2>1. send[s] = "read" /\ s \in Sends /\ UNCHANGED <<pressed, terminal, active, proc>> /\ cancelled' = FALSE
    BY <1>9 DEF Finish, outside
  <2>2. PICK status \in {"completed", "cancelled", "error"} :
          End(s, status) /\ (status = "cancelled" => cancelled)
    BY <1>9 DEF Finish
  <2>3. Whole => ~Alive(s)
    BY <1>0, <2>1 DEF Marked
  <2>4. Whole /\ cancelled => s \in pressed
    BY <1>0, <2>1, OneHolds DEF Marked, InLock
  <2> QED BY <1>6, <2>1, <2>2, <2>3, <2>4 DEF InLock
<1> QED
  BY <1>1, <1>2, <1>3, <1>4, <1>5, <1>7, <1>8, <1>9 DEF SendStep

\* A step of a process of ours, whether its send still reads it or not.
LEMMA ProcessStep == ASSUME TurnsInv, NEW s \in Sends, Process(s) PROVE TurnsInv'
<1>0. TurnTypes /\ Locked /\ Marked /\ NoTurn \notin Sends
  BY ClaudeTurnsAssumption DEF TurnsInv
<1>1. /\ UNCHANGED <<send, result, active, cancelled, pressed, line, terminal>>
      /\ proc[s] \in {"works", "asks"}
      /\ \E p \in {"works", "asks", "answered", "failed"} : proc' = [proc EXCEPT ![s] = p]
  <2>1. CASE Delta(s)
    <3>1. proc' = [proc EXCEPT ![s] = proc[s]]
      BY <1>0, <2>1 DEF Delta, managed, TurnTypes
    <3> QED BY <2>1, <3>1 DEF Delta, managed, outside
  <2>2. CASE Asks(s) \/ Answered(s) \/ Exits(s)
    BY <2>2 DEF Asks, Answered, Exits, outside
  <2> QED BY <2>1, <2>2 DEF Process
<1>2. \A t \in Sends : send[t] \in InLock => shown'.turn = shown.turn
  <2>1. CASE Delta(s)
    <3>1. send[s] \in InLock /\ s = shown.turn /\ shown' = After("works", s, shown)
      BY <1>0, <2>1 DEF Delta, Tell, Locked, InLock
    <3>2. After("works", s, shown).turn = s
      BY <3>1, TurnStays
    <3> QED BY <3>1, <3>2
  <2>2. CASE Asks(s) \/ Answered(s)
    BY <2>2, TurnStays DEF Asks, Answered, Tell
  <2>3. CASE Exits(s)
    BY <2>3 DEF Exits, told
  <2> QED BY <2>1, <2>2, <2>3 DEF Process
<1>3. TurnTypes'
  BY <1>0, <1>1 DEF TurnTypes
<1>4. Locked'
  BY <1>0, <1>1, <1>2 DEF Locked, Holds
<1>5. \A t \in Sends : Alive(t)' => Alive(t)
  BY <1>0, <1>1 DEF Alive, TurnTypes
<1>6. Marked'
  BY <1>0, <1>1, <1>5 DEF Marked, Whole, CancelMeant
<1> QED BY <1>3, <1>4, <1>6 DEF TurnsInv

\* Somebody interrupts the active send, or the adapter is disconnected.
LEMMA StopStep == ASSUME TurnsInv, Interrupt \/ Disconnect PROVE TurnsInv'
<1>0. TurnTypes /\ Locked /\ Marked /\ NoTurn \notin Sends
  BY ClaudeTurnsAssumption DEF TurnsInv
<1>1. /\ UNCHANGED <<send, result, line, terminal, shown>>
      /\ active' \in {active, NoTurn} /\ pressed \subseteq pressed'
      /\ \/ proc' = proc
         \/ active \in Sends /\ proc' = [proc EXCEPT ![active] = "killed"]
      /\ \/ pressed' = pressed /\ cancelled' = cancelled
         \/ active \in Sends /\ pressed' = pressed \cup {active} /\ cancelled' = TRUE
  BY <1>0 DEF Interrupt, Disconnect, outside, told, TurnTypes
<1>2. TurnTypes'
  BY <1>0, <1>1 DEF TurnTypes
<1>3. Locked'
  BY <1>0, <1>1 DEF Locked, Holds
<1>4. \A t \in Sends : Alive(t)' => Alive(t)
  BY <1>0, <1>1 DEF Alive, TurnTypes
<1>5. active \in Sends => send[active] = "reading"
  BY <1>0 DEF Locked
<1>6. Marked'
  BY <1>0, <1>1, <1>4, <1>5 DEF Marked, Whole, CancelMeant
<1> QED BY <1>2, <1>3, <1>6 DEF TurnsInv

\* A hook is handled only when no send holds the lock.
LEMMA HookStep == ASSUME TurnsInv, HandleHook PROVE TurnsInv'
<1>0. TurnTypes /\ Locked /\ Marked
  BY DEF TurnsInv
<1>1. /\ line # <<>> /\ Head(line) \notin Sends /\ Release
      /\ UNCHANGED <<send, result, proc, active, cancelled, pressed, terminal>>
  BY DEF HandleHook, managed, outside
<1>2. \A s \in Sends : send[s] \notin InLock
  BY <1>0, <1>1 DEF Locked, Holds
<1>3. line' \in Seq(Waiting)
  BY <1>0, <1>1, ReleaseKeeps DEF TurnTypes
<1>4. TurnTypes' /\ Locked'
  BY <1>0, <1>1, <1>2, <1>3 DEF TurnTypes, Locked
<1>5. Marked'
  BY <1>0, <1>1 DEF Marked, Whole, Alive, CancelMeant
<1> QED BY <1>4, <1>5 DEF TurnsInv

-----------------------------------------------------------------------------
(* The theorems.                                                           *)

\* At first no send works and nobody was interrupted.
LEMMA InitTurns == ASSUME Init PROVE TurnsInv
<1>1. line \in Seq(Waiting)
  <2>1. line = <<>>
    BY DEF Init
  <2> QED BY <2>1
<1> QED
  BY <1>1, ClaudeTurnsAssumption
  DEF Init, TurnsInv, TurnTypes, Locked, Marked, InLock, Whole, Alive, CancelMeant

\* Every step keeps the lock its holder's and the mark its turn's.
LEMMA TurnsStep == ASSUME TurnsInv, [Next]_vars PROVE TurnsInv'
<1>1. CASE UNCHANGED vars
  BY <1>1
  DEF vars, managed, outside, told, TurnsInv, TurnTypes, Locked, Marked, Whole, Alive, Holds,
      CancelMeant
<1>2. CASE Next
  BY <1>2, TerminalStep, SendsStep, ProcessStep, StopStep, HookStep DEF Next
<1> QED BY <1>1, <1>2

\* A send works only with the lock, and the mark of an interruption is the mark of
\* the turn that holds it.
THEOREM TurnsInvariant == Spec => []TurnsInv
<1>1. Init => TurnsInv
  BY InitTurns
<1>2. TurnsInv /\ [Next]_vars => TurnsInv'
  BY TurnsStep
<1> QED BY <1>1, <1>2, PTL DEF Spec

\* A turn told and returned as cancelled is one that somebody interrupted, not the
\* next one (Finish takes the mark of _cancelled_threads away).
THEOREM CancelIsMeant == Spec => []CancelMeant
<1>1. TurnsInv => CancelMeant
  BY DEF TurnsInv, Marked, CancelMeant
<1> QED BY <1>1, TurnsInvariant, PTL

\* One process of ours works on the session at a time, and while it does the
\* session's activity is about its turn.
THEOREM OneWorksAtATime == Spec => []OneAtATime
<1>1. TurnsInv => OneAtATime
  <2> SUFFICES ASSUME TurnsInv, NEW s \in Sends, Whole, Alive(s)
               PROVE  shown.turn = s /\ \A t \in Sends \ {s} : ~Alive(t)
    BY DEF OneAtATime
  <2>1. \A t \in Sends : Alive(t) => send[t] \in InLock
    BY DEF TurnsInv, Marked, InLock
  <2> QED BY <2>1, OneHolds DEF TurnsInv, Locked
<1> QED BY <1>1, TurnsInvariant, PTL

-----------------------------------------------------------------------------
(* Where the terminal and the adapter take turns.  The line's hooks are    *)
(* those of one turn of the terminal at a time, and a message stands       *)
(* behind the hook that ends it.                                           *)

HooksOf(kinds) == kinds \X ({0} \cup Prompts)
PromptHooks == HooksOf({"prompt"})
ToolHooks   == HooksOf({"tool", "ask"})
EndHooks    == HooksOf({"stop", "failed", "end"})

\* Who stands in line stands there once, and has been let into it.
InTurn ==
  /\ \A i \in 1 .. Len(line) : line[i] \in Sends => send[line[i]] \in {"waiting"} \cup InLock
  /\ \A i, j \in 1 .. Len(line) : line[i] = line[j] /\ line[i] \in Sends => i = j
  /\ \A i \in 1 .. Len(line) : line[i] \in PromptHooks => line[i][2] \in Prompts

HookTypes ==
  /\ hook \in [turn : Turns \cup {NoTurn}, ended : Turns \cup {NoTurn},
               open : BOOLEAN, prompt : Texts \cup {NoTurn}]
  /\ asked \in [Sends \cup Prompts -> Texts]
  /\ last \in [user : Sends \cup Prompts \cup {NoTurn}, answer : Sends \cup Prompts \cup {NoTurn}]
  /\ answers \subseteq Prompts
  /\ Unended => terminal.turn \in Prompts

\* The hook record will say that a turn is open when the k-th in line has its turn.
OpenAt(k) ==
  \/ \E j \in 1 .. k - 1 : /\ line[j] \in PromptHooks
                           /\ \A i \in j + 1 .. k - 1 : line[i] \notin EndHooks
  \/ hook.open /\ \A i \in 1 .. k - 1 : line[i] \notin EndHooks

\* A turn of the terminal that goes on is open behind the line, and no message is under way.
Alone == Unended => (\A s \in Sends : ~Under(s)) /\ OpenAt(Len(line) + 1)

ToolsOpen == \A k \in 1 .. Len(line) : line[k] \in ToolHooks => OpenAt(k)

NoDoing(from) == \A i \in from .. Len(line) : line[i] \notin PromptHooks \cup ToolHooks

\* A turn of the terminal that does not go on has ended, or its end stands in line,
\* behind all of its hooks and before any message.
Settles ==
  \/ Unended
  \/ ~hook.open /\ NoDoing(1)
  \/ \E j \in 1 .. Len(line) : /\ line[j] \in EndHooks
                               /\ \A i \in 1 .. j : line[i] \notin Sends
                               /\ NoDoing(j + 1)

\* What is shown as running is the turn that is open, or a message's.
HookShown ==
  /\ hook.open => hook.turn \in Prompts /\ shown.turn = hook.turn
  /\ shown.status = "running" => hook.open \/ \E s \in Sends : send[s] \in InLock

AnswerTold(p) == \E t \in Turns : <<t, p>> \in finals

\* An answer that is not told is still the session file's last, and its hook stands in
\* line before any message.
AnswerWaits(p) ==
  \E k \in 1 .. Len(line) : /\ line[k] = <<"stop", p>> /\ last.answer = p
                            /\ OpenAt(k)
                            /\ \A i \in 1 .. k : line[i] \notin Sends

AnswersKept == \A p \in answers : AnswerWaits(p) \/ AnswerTold(p)

\* No turn began while the other's was not ended, no send raised, and the adapter is connected.
TakesTurns == connected /\ ~overlap /\ Whole

Settled == Alone /\ ToolsOpen /\ Settles /\ HookShown /\ AnswersKept

ApartInv == TurnsInv /\ InTurn /\ HookTypes /\ (TakesTurns => Settled)

-----------------------------------------------------------------------------
(* What joining and leaving the line do to it.                             *)

\* The line with one more behind it.
LEMMA JoinedLine ==
  ASSUME line \in Seq(Waiting), NEW w \in Waiting, Join(w)
  PROVE  /\ Len(line) \in Nat /\ Len(line') = Len(line) + 1
         /\ line'[Len(line) + 1] = w
         /\ \A i \in 1 .. Len(line) : line'[i] = line[i]
<1>1. line' = Append(line, w)
  BY DEF Join
<1> QED BY <1>1, AppendProperties, LenProperties

\* The line without its holder.
LEMMA LeftLine ==
  ASSUME line \in Seq(Waiting), line # <<>>, Release
  PROVE  /\ Len(line) \in Nat \ {0} /\ Len(line') = Len(line) - 1
         /\ Head(line) = line[1] /\ Head(line) \in Waiting
         /\ \A i \in 1 .. Len(line) - 1 : line'[i] = line[i + 1]
<1>1. Len(line) \in Nat \ {0} /\ Head(line) = line[1] /\ line[1] \in Waiting
  BY EmptySeq, LenProperties, ElementOfSeq
<1> QED BY <1>1, HeadTailProperties DEF Release

\* Whoever joins does not change what those before it find.
LEMMA OpenJoined ==
  ASSUME line \in Seq(Waiting), NEW w \in Waiting, Join(w), hook'.open = hook.open
  PROVE  /\ \A k \in 1 .. Len(line) + 1 : OpenAt(k) => OpenAt(k)'
         /\ w \in PromptHooks => OpenAt(Len(line) + 1)'
         /\ OpenAt(Len(line) + 1) /\ w \notin EndHooks => OpenAt(Len(line) + 1)'
<1>1. /\ Len(line) \in Nat /\ Len(line') = Len(line) + 1 /\ line'[Len(line) + 1] = w
      /\ \A i \in 1 .. Len(line) : line'[i] = line[i]
  BY JoinedLine
<1>2. ASSUME NEW k \in 1 .. Len(line) + 1, OpenAt(k)
      PROVE  OpenAt(k)'
  BY <1>1, <1>2 DEF OpenAt
<1>3. w \in PromptHooks => OpenAt(Len(line) + 1)'
  <2> SUFFICES ASSUME w \in PromptHooks
               PROVE  OpenAt(Len(line) + 1)'
    OBVIOUS
  <2>1. Len(line) + 1 \in 1 .. (Len(line') + 1) - 1 /\ line'[Len(line) + 1] \in PromptHooks
    BY <1>1
  <2>2. \A i \in (Len(line) + 1) + 1 .. (Len(line') + 1) - 1 : line'[i] \notin EndHooks
    BY <1>1
  <2> QED BY <2>1, <2>2 DEF OpenAt
<1>4. OpenAt(Len(line) + 1) /\ w \notin EndHooks => OpenAt(Len(line) + 1)'
  <2> SUFFICES ASSUME OpenAt(Len(line) + 1), w \notin EndHooks
               PROVE  OpenAt(Len(line) + 1)'
    OBVIOUS
  <2>1. CASE hook.open /\ \A i \in 1 .. (Len(line) + 1) - 1 : line[i] \notin EndHooks
    BY <1>1, <2>1 DEF OpenAt
  <2>2. ASSUME NEW j \in 1 .. (Len(line) + 1) - 1, line[j] \in PromptHooks,
               \A i \in j + 1 .. (Len(line) + 1) - 1 : line[i] \notin EndHooks
        PROVE  OpenAt(Len(line) + 1)'
    <3>1. j \in 1 .. (Len(line') + 1) - 1 /\ line'[j] \in PromptHooks
      BY <1>1, <2>2
    <3>2. \A i \in j + 1 .. (Len(line') + 1) - 1 : line'[i] \notin EndHooks
      BY <1>1, <2>2
    <3> QED BY <3>1, <3>2 DEF OpenAt
  <2> QED BY <2>1, <2>2 DEF OpenAt
<1> QED BY <1>2, <1>3, <1>4

\* When the first has had its turn, the others find what they would have found.
LEMMA OpenLeft ==
  ASSUME line \in Seq(Waiting), line # <<>>, Release,
         Head(line) \in PromptHooks => hook'.open,
         hook.open /\ Head(line) \notin EndHooks => hook'.open
  PROVE  \A k \in 1 .. Len(line) : OpenAt(k + 1) => OpenAt(k)'
<1>1. /\ Len(line) \in Nat \ {0} /\ Head(line) = line[1]
      /\ \A i \in 1 .. Len(line) - 1 : line'[i] = line[i + 1]
  BY LeftLine
<1> SUFFICES ASSUME NEW k \in 1 .. Len(line), OpenAt(k + 1)
             PROVE  OpenAt(k)'
  OBVIOUS
<1>2. ASSUME NEW m \in 0 .. k, \A i \in m + 1 .. k : line[i] \notin EndHooks
      PROVE  \A i \in 1 .. k - 1 : i >= m => line'[i] \notin EndHooks
  BY <1>1, <1>2
<1>3. CASE \E j \in 2 .. k : /\ line[j] \in PromptHooks
                             /\ \A i \in j + 1 .. k : line[i] \notin EndHooks
  <2>1. PICK j \in 2 .. k : /\ line[j] \in PromptHooks
                            /\ \A i \in j + 1 .. k : line[i] \notin EndHooks
    BY <1>3
  <2>2. j - 1 \in 1 .. k - 1 /\ line'[j - 1] \in PromptHooks
    BY <1>1, <2>1
  <2>3. \A i \in (j - 1) + 1 .. k - 1 : line'[i] \notin EndHooks
    BY <1>2, <2>1
  <2> QED BY <2>2, <2>3 DEF OpenAt
<1>4. CASE /\ line[1] \in PromptHooks \/ (hook.open /\ line[1] \notin EndHooks)
           /\ \A i \in 2 .. k : line[i] \notin EndHooks
  <2>1. hook'.open
    BY <1>1, <1>4
  <2>2. \A i \in 1 .. k - 1 : line'[i] \notin EndHooks
    BY <1>2, <1>4
  <2> QED BY <2>1, <2>2 DEF OpenAt
<1>5. CASE \E j \in 1 .. k : /\ line[j] \in PromptHooks
                             /\ \A i \in j + 1 .. k : line[i] \notin EndHooks
  BY <1>3, <1>4, <1>5
<1>6. CASE hook.open /\ \A i \in 1 .. k : line[i] \notin EndHooks
  BY <1>4, <1>6
<1> QED BY <1>5, <1>6 DEF OpenAt

\* The kinds of hooks are disjoint, and none is a message.
LEMMA HookKinds ==
  /\ PromptHooks \cap (ToolHooks \cup EndHooks) = {} /\ ToolHooks \cap EndHooks = {}
  /\ (PromptHooks \cup ToolHooks \cup EndHooks) \cap Sends = {}
  /\ \A p \in Prompts : <<"stop", p>> \in EndHooks
  /\ PromptHooks \cup ToolHooks \cup EndHooks \subseteq Waiting
BY ClaudeTurnsAssumption
DEF PromptHooks, ToolHooks, EndHooks, HooksOf, Hooks, Lifecycle, Waiting

-----------------------------------------------------------------------------
(* What the steps do to a settled session.                                 *)

\* A session that is settled stays so at a step of the message that holds the lock.
LEMMA HolderStep ==
  ASSUME line \in Seq(Waiting), InTurn, Settled, NEW s \in Sends, Holds(s),
         UNCHANGED <<hook, terminal, answers>>, finals \subseteq finals',
         UNCHANGED line \/ Release,
         shown'.status = "running" => \E t \in Sends : send'[t] \in InLock
  PROVE  Settled'
<1>1. /\ Len(line) \in Nat \ {0} /\ Head(line) = line[1] /\ line[1] = s
  BY EmptySeq, LenProperties DEF Holds
<1>2. Under(s)
  BY <1>1 DEF InTurn, Under, InLock
<1>3. ~Unended /\ ~Unended'
  BY <1>2 DEF Settled, Alone, Unended
<1>4. ~hook.open /\ NoDoing(1)
  BY <1>1, <1>3 DEF Settled, Settles
<1>5. NoDoing(1)'
  <2>1. CASE UNCHANGED line
    BY <1>4, <2>1 DEF NoDoing
  <2>2. CASE Release
    <3>1. /\ Len(line') = Len(line) - 1
          /\ \A i \in 1 .. Len(line) - 1 : line'[i] = line[i + 1]
      BY <2>2, LeftLine DEF Holds
    <3> QED BY <1>1, <1>4, <3>1 DEF NoDoing
  <2> QED BY <2>1, <2>2
<1>6. Alone' /\ Settles' /\ ToolsOpen'
  BY <1>3, <1>4, <1>5 DEF Alone, Settles, ToolsOpen, NoDoing
<1>7. HookShown'
  BY <1>4 DEF HookShown
<1>8. \A p \in answers : ~AnswerWaits(p)
  BY <1>1 DEF AnswerWaits
<1>9. AnswersKept'
  BY <1>8 DEF Settled, AnswersKept, AnswerTold
<1> QED BY <1>6, <1>7, <1>9 DEF Settled

\* An answer that waits in line goes on waiting when others join it.
LEMMA AnswersStay ==
  ASSUME line \in Seq(Waiting), AnswersKept, UNCHANGED hook, UNCHANGED answers,
         last'.answer = last.answer, UNCHANGED finals,
         UNCHANGED line \/ \E w \in Waiting : Join(w)
  PROVE  AnswersKept'
<1> SUFFICES ASSUME NEW p \in answers, AnswerWaits(p)
             PROVE  AnswerWaits(p)'
  BY DEF AnswersKept, AnswerTold
<1>1. CASE UNCHANGED line
  BY <1>1 DEF AnswerWaits, OpenAt
<1>2. ASSUME NEW w \in Waiting, Join(w)
      PROVE  AnswerWaits(p)'
  <2>1. PICK k \in 1 .. Len(line) : /\ line[k] = <<"stop", p>> /\ last.answer = p
                                    /\ OpenAt(k)
                                    /\ \A i \in 1 .. k : line[i] \notin Sends
    BY DEF AnswerWaits
  <2>2. /\ Len(line) \in Nat /\ Len(line') = Len(line) + 1
        /\ \A i \in 1 .. Len(line) : line'[i] = line[i]
    BY <1>2, JoinedLine
  <2>3. OpenAt(k)'
    BY <1>2, <2>1, <2>2, OpenJoined
  <2> QED BY <2>1, <2>2, <2>3 DEF AnswerWaits
<1> QED BY <1>1, <1>2

\* Those in line that need the turn open find it so, when another joins behind them.
LEMMA ToolsStay ==
  ASSUME line \in Seq(Waiting), ToolsOpen, UNCHANGED hook,
         \/ UNCHANGED line
         \/ \E w \in Waiting : Join(w) /\ (w \in ToolHooks => OpenAt(Len(line) + 1))
  PROVE  ToolsOpen'
<1>1. CASE UNCHANGED line
  BY <1>1 DEF ToolsOpen, OpenAt
<1>2. ASSUME NEW w \in Waiting, Join(w), w \in ToolHooks => OpenAt(Len(line) + 1)
      PROVE  ToolsOpen'
  <2>2. /\ Len(line) \in Nat /\ Len(line') = Len(line) + 1 /\ line'[Len(line) + 1] = w
        /\ \A i \in 1 .. Len(line) : line'[i] = line[i]
    BY <1>2, JoinedLine
  <2>3. \A k \in 1 .. Len(line) + 1 : OpenAt(k) => OpenAt(k)'
    BY <1>2, OpenJoined
  <2>4. ASSUME NEW k \in 1 .. Len(line) + 1, line'[k] \in ToolHooks
        PROVE  OpenAt(k)'
    BY <1>2, <2>2, <2>3, <2>4 DEF ToolsOpen
  <2> QED BY <2>2, <2>4 DEF ToolsOpen
<1> QED BY <1>1, <1>2

\* A session whose terminal's turn has ended stays settled when somebody joins the line
\* who begins no turn of the terminal.
LEMMA IdleStep ==
  ASSUME line \in Seq(Waiting), Settled, ~Unended, ~Unended',
         UNCHANGED <<hook, answers, told>>, last'.answer = last.answer,
         \A t \in Sends : send[t] \in InLock => send'[t] \in InLock,
         \/ UNCHANGED line
         \/ \E w \in Waiting : Join(w) /\ w \notin PromptHooks \cup ToolHooks
  PROVE  Settled'
<1>1. AnswersKept' /\ ToolsOpen'
  BY AnswersStay, ToolsStay DEF Settled, told
<1>2. HookShown'
  BY DEF Settled, HookShown, told
<1>3. Settles'
  <2>1. CASE UNCHANGED line
    BY <2>1 DEF Settled, Settles, NoDoing
  <2>2. ASSUME NEW w \in Waiting, Join(w), w \notin PromptHooks \cup ToolHooks
        PROVE  Settles'
    <3>2. /\ Len(line) \in Nat /\ Len(line') = Len(line) + 1 /\ line'[Len(line) + 1] = w
          /\ \A i \in 1 .. Len(line) : line'[i] = line[i]
      BY <2>2, JoinedLine
    <3>3. \A j \in 1 .. Len(line) + 1 : NoDoing(j) => NoDoing(j)'
      BY <2>2, <3>2 DEF NoDoing
    <3>4. CASE ~hook.open /\ NoDoing(1)
      BY <3>2, <3>3, <3>4 DEF Settles
    <3>5. ASSUME NEW j \in 1 .. Len(line), line[j] \in EndHooks,
                 \A i \in 1 .. j : line[i] \notin Sends, NoDoing(j + 1)
          PROVE  Settles'
      BY <3>2, <3>3, <3>5 DEF Settles
    <3> QED BY <3>4, <3>5 DEF Settled, Settles
  <2> QED BY <2>1, <2>2
<1> QED BY <1>1, <1>2, <1>3 DEF Settled, Alone

\* A turn of the terminal goes on with its tools, or is left.
LEMMA TurnGoesOn ==
  ASSUME line \in Seq(Waiting), Settled, Unended, Unended',
         UNCHANGED <<hook, answers, told, send>>, last'.answer = last.answer,
         UNCHANGED line \/ \E w \in ToolHooks : Join(w)
  PROVE  Settled'
<1>0. ToolHooks \subseteq Waiting /\ \A w \in ToolHooks : w \notin EndHooks
  BY HookKinds
<1>1. AnswersKept' /\ ToolsOpen'
  BY <1>0, AnswersStay, ToolsStay DEF Settled, told, Alone
<1>2. HookShown' /\ Settles'
  BY DEF Settled, HookShown, told, Settles
<1>3. OpenAt(Len(line) + 1)'
  <2>1. CASE UNCHANGED line
    BY <2>1 DEF Settled, Alone, OpenAt
  <2>2. ASSUME NEW w \in ToolHooks, Join(w)
        PROVE  OpenAt(Len(line) + 1)'
    BY <1>0, <2>2, OpenJoined DEF Settled, Alone
  <2> QED BY <2>1, <2>2
<1>4. Alone'
  BY <1>3 DEF Settled, Alone, Under
<1> QED BY <1>1, <1>2, <1>4 DEF Settled

\* A turn of the terminal begins while no message is under way.
LEMMA TurnBegins ==
  ASSUME line \in Seq(Waiting), Settled, Unended', \A s \in Sends : ~Under(s),
         UNCHANGED <<hook, answers, told, send>>, last'.answer = last.answer,
         NEW w \in PromptHooks, Join(w)
  PROVE  Settled'
<1>0. w \in Waiting /\ w \notin ToolHooks
  BY HookKinds
<1>1. AnswersKept' /\ ToolsOpen'
  BY <1>0, AnswersStay, ToolsStay DEF Settled, told
<1>2. HookShown' /\ Settles'
  BY DEF Settled, HookShown, told, Settles
<1>3. OpenAt(Len(line) + 1)'
  BY <1>0, OpenJoined
<1> QED BY <1>1, <1>2, <1>3 DEF Settled, Alone, Under

\* A turn of the terminal ends; its answer is the file's last, and no answer before it
\* stands in line any more.
LEMMA TurnEnds ==
  ASSUME line \in Seq(Waiting), InTurn, Settled, Unended, ~Unended',
         UNCHANGED <<hook, told, send>>, NEW w \in EndHooks, Join(w),
         \/ answers' = answers /\ last'.answer = last.answer
         \/ \E p \in Prompts : /\ w = <<"stop", p>> /\ last'.answer = p
                               /\ answers' = answers \cup {p}
                               /\ \A q \in answers : ~AnswerWaits(q)
  PROVE  Settled'
<1>0. w \in Waiting /\ w \notin ToolHooks /\ w \notin PromptHooks /\ w \notin Sends
  BY HookKinds
<1>1. /\ Len(line) \in Nat /\ Len(line') = Len(line) + 1 /\ line'[Len(line) + 1] = w
      /\ \A i \in 1 .. Len(line) : line'[i] = line[i]
  BY <1>0, JoinedLine
<1>2. ToolsOpen'
  BY <1>0, ToolsStay DEF Settled
<1>3. \A i \in 1 .. Len(line) : line[i] \notin Sends
  BY DEF InTurn, Settled, Alone, Under, InLock
<1>4. \A i \in 1 .. Len(line) + 1 : line'[i] \notin Sends
  BY <1>0, <1>1, <1>3
<1>5. Settles'
  <2>1. NoDoing(Len(line) + 1)'
    BY <1>1 DEF NoDoing
  <2> QED BY <1>1, <1>4, <2>1 DEF Settles
<1>6. HookShown'
  BY DEF Settled, HookShown, told
<1>7. AnswersKept'
  <2>1. CASE answers' = answers /\ last'.answer = last.answer
    BY <1>0, <2>1, AnswersStay DEF Settled, told
  <2>2. ASSUME NEW p \in Prompts, w = <<"stop", p>>, last'.answer = p,
               answers' = answers \cup {p}, \A q \in answers : ~AnswerWaits(q)
        PROVE  AnswersKept'
    <3>1. \A q \in answers : AnswerTold(q)'
      BY <2>2 DEF Settled, AnswersKept, AnswerTold, told
    <3>2. PICK k : k = Len(line) + 1
      OBVIOUS
    <3>3. OpenAt(k)'
      BY <1>0, <1>1, <3>2, OpenJoined DEF Settled, Alone
    <3>4. AnswerWaits(p)'
      BY <1>1, <1>4, <2>2, <3>2, <3>3 DEF AnswerWaits
    <3> QED BY <2>2, <3>1, <3>4 DEF AnswersKept
  <2> QED BY <2>1, <2>2
<1> QED BY <1>2, <1>5, <1>6, <1>7 DEF Settled, Alone

-----------------------------------------------------------------------------
(* A hook has its turn.                                                    *)

\* What ends a turn that is open, or is told when none is, leaves nothing running.
LEMMA EndsRunning ==
  ASSUME NEW t, NEW a, a.status = "running" => a.turn = t
  PROVE  /\ After("failed", t, a).status # "running"
         /\ After("completed", t, a).status # "running"
         /\ After("completed", t, After("final", t, a)).status # "running"
<1>1. ASSUME NEW kind \in {"failed", "completed", "final"}, NEW b, b.status = "running" => b.turn = t
      PROVE  After(kind, t, b).status # "running"
  BY <1>1 DEF After, Concerns, Scoped, Status
<1>2. After("final", t, a).status # "running"
  BY <1>1
<1> QED BY <1>1, <1>2

\* The ending of a turn: the record is closed, the answer told, and nothing is left running.
LEMMA EndEffect ==
  ASSUME HookTypes, HookShown, \A s \in Sends : send[s] \notin InLock, OnStop \/ OnFailure
  PROVE  /\ ~hook'.open /\ shown'.status # "running" /\ finals \subseteq finals'
         /\ OnStop => \A p \in Prompts : last.answer = p => AnswerTold(p)'
<1>1. /\ hook'.open = FALSE
  BY DEF HookTypes, OnStop, OnFailure
<1>2. shown.status = "running" => shown.turn = EndingTurn
  BY ClaudeTurnsAssumption DEF HookShown, EndingTurn
<1>3. shown'.status # "running"
  <2>1. CASE OnStop
    BY <1>2, <2>1, EndsRunning DEF OnStop, TellAnswer
  <2>2. CASE OnFailure
    BY <1>2, <2>2, EndsRunning DEF OnFailure, Tell
  <2> QED BY <2>1, <2>2
<1>4. finals \subseteq finals'
  BY DEF OnStop, OnFailure, TellAnswer, Tell
<1>5. ASSUME OnStop, NEW p \in Prompts, last.answer = p
      PROVE  AnswerTold(p)'
  <2>1. EndingTurn \in Turns /\ p # NoTurn
    BY ClaudeTurnsAssumption DEF HookTypes, EndingTurn, Turns
  <2>2. <<EndingTurn, p>> \in finals'
    BY <1>5, <2>1 DEF OnStop, TellAnswer
  <2> QED BY <2>1, <2>2 DEF AnswerTold
<1> QED BY <1>1, <1>3, <1>4, <1>5

\* What a hook's turn does to the record and the activity.
LEMMA HookEffect ==
  ASSUME line \in Seq(Waiting), InTurn, HookTypes, Settled, HandleHook,
         \A s \in Sends : send[s] \notin InLock
  PROVE  /\ Head(line) \in PromptHooks => hook'.open
         /\ hook.open /\ Head(line) \notin EndHooks => hook'.open
         /\ hook'.open => Head(line) \in PromptHooks \/ (hook.open /\ Head(line) \notin EndHooks)
         /\ finals \subseteq finals'
         /\ \A p \in Prompts : Head(line) = <<"stop", p>> /\ hook.open /\ last.answer = p => AnswerTold(p)'
         /\ hook'.open => hook'.turn \in Prompts /\ shown'.turn = hook'.turn
         /\ shown'.status = "running" => hook'.open
<1> DEFINE h == Head(line)
<1>0. HookShown /\ hook.open \in BOOLEAN
  BY DEF Settled, HookTypes
<1>1. /\ line # <<>> /\ h \notin Sends /\ h \in Waiting /\ h = line[1] /\ Len(line) \in Nat \ {0}
  BY LeftLine DEF HandleHook
<1>2. PICK what \in Hooks, p \in {0} \cup Prompts : h = <<what, p>>
  <2>1. h \in Hooks \X ({0} \cup Prompts)
    BY <1>1 DEF Waiting
  <2> HIDE DEF h
  <2>2. h = <<h[1], h[2]>> /\ h[1] \in Hooks /\ h[2] \in {0} \cup Prompts
    BY <2>1
  <2> QED BY <2>2
<1>3. h[1] = what /\ h[2] = p
  BY <1>2
<1>4. /\ h \in PromptHooks <=> what = "prompt"
      /\ h \in ToolHooks <=> what \in {"tool", "ask"}
      /\ h \in EndHooks <=> what \in {"stop", "failed", "end"}
  BY <1>2 DEF PromptHooks, ToolHooks, EndHooks, HooksOf
<1>5. \A q \in Prompts : h = <<"stop", q>> => what = "stop" /\ q = p
  BY <1>2
<1> HIDE DEF h
<1>6. shown.status = "running" => hook.open
  BY <1>0 DEF HookShown
<1> USE DEF h
<1>7. CASE what = "start"
  <2>1. UNCHANGED <<hook, told>>
    BY <1>3, <1>7 DEF HandleHook
  <2> QED BY <1>0, <1>4, <1>5, <1>6, <1>7, <2>1 DEF told, HookShown
<1>8. CASE what = "prompt"
  <2>0. OnPrompt(p)
    <3>1. OnPrompt(Head(line)[2])
      BY <1>3, <1>8 DEF HandleHook
    <3> QED BY <1>3, <3>1 DEF OnPrompt
  <2>1. p \in Prompts /\ OnPrompt(p)
    BY <1>1, <1>3, <1>4, <1>8, <2>0 DEF InTurn
  <2>2. CASE IsRepeat(asked[p])
    BY <1>0, <1>4, <1>5, <1>8, <2>1, <2>2 DEF OnPrompt, IsRepeat, HookShown, told
  <2>3. CASE ~IsRepeat(asked[p])
    <3>1. /\ hook' = [turn |-> p, ended |-> NoTurn, open |-> TRUE, prompt |-> asked[p]]
          /\ shown' = After("started", p, shown) /\ finals' = finals
      BY <2>1, <2>3 DEF OnPrompt, Tell
    <3>2. shown'.turn = p
      BY <2>1, <3>1, TurnStays, ClaudeTurnsAssumption
    <3> QED BY <1>4, <1>5, <1>8, <2>1, <3>1, <3>2
  <2> QED BY <2>2, <2>3
<1>9. CASE what \in {"tool", "ask"}
  <2>1. OnTool(what)
    BY <1>3, <1>9 DEF HandleHook
  <2>2. hook.open
    <3>1. OpenAt(1)
      BY <1>1, <1>4, <1>9 DEF Settled, ToolsOpen
    <3> QED BY <3>1 DEF OpenAt
  <2>3. hook'.open = hook.open /\ hook'.turn = hook.turn
    BY <2>1 DEF OnTool, HookTypes
  <2>4. shown'.turn = shown.turn /\ finals' = finals
    BY <2>1, TurnStays DEF OnTool, Tell
  <2> QED BY <1>0, <1>4, <1>5, <1>9, <2>2, <2>3, <2>4 DEF HookShown
<1>10. CASE what \in {"stop", "failed", "end"} /\ HasEnded
  <2>1. UNCHANGED <<hook, told>> /\ ~hook.open
    BY <1>3, <1>10 DEF HandleHook, HasEnded
  <2> QED BY <1>0, <1>4, <1>6, <1>10, <2>1 DEF told, HookShown
<1>11. CASE what \in {"stop", "failed", "end"} /\ ~HasEnded
  <2>1. (OnStop \/ OnFailure) /\ (what = "stop" => OnStop)
    BY <1>3, <1>11 DEF HandleHook
  <2>2. ~hook'.open /\ shown'.status # "running" /\ finals \subseteq finals'
    BY <1>0, <2>1, EndEffect
  <2>3. what = "stop" => \A q \in Prompts : last.answer = q => AnswerTold(q)'
    BY <1>0, <2>1, EndEffect
  <2> QED BY <1>4, <1>5, <1>11, <2>2, <2>3
<1> QED BY <1>7, <1>8, <1>9, <1>10, <1>11 DEF Hooks, Lifecycle

\* A session that is settled stays so when a hook has its turn.
LEMMA HookSettles ==
  ASSUME line \in Seq(Waiting), InTurn, HookTypes, Settled, HandleHook,
         \A s \in Sends : send[s] \notin InLock
  PROVE  Settled'
<1>0. /\ line # <<>> /\ Head(line) \notin Sends /\ Release
      /\ UNCHANGED <<send, terminal, last, answers>>
  BY DEF HandleHook, managed, outside
<1>1. /\ Len(line) \in Nat \ {0} /\ Len(line') = Len(line) - 1 /\ Head(line) = line[1]
      /\ \A i \in 1 .. Len(line) - 1 : line'[i] = line[i + 1]
  BY <1>0, LeftLine
<1>2. /\ Head(line) \in PromptHooks => hook'.open
      /\ hook.open /\ Head(line) \notin EndHooks => hook'.open
      /\ hook'.open => Head(line) \in PromptHooks \/ (hook.open /\ Head(line) \notin EndHooks)
      /\ finals \subseteq finals'
      /\ \A p \in Prompts : Head(line) = <<"stop", p>> /\ hook.open /\ last.answer = p => AnswerTold(p)'
      /\ HookShown'
  BY HookEffect DEF HookShown
<1>3. \A k \in 1 .. Len(line) : OpenAt(k + 1) => OpenAt(k)'
  BY <1>0, <1>2, OpenLeft
<1>4. Alone'
  <2> SUFFICES ASSUME Unended
               PROVE  OpenAt(Len(line) + 1)' /\ \A s \in Sends : ~Under(s)
    BY <1>0 DEF Alone, Unended, Under
  <2>1. OpenAt(Len(line) + 1) /\ \A s \in Sends : ~Under(s)
    BY DEF Settled, Alone
  <2>2. PICK n : n = Len(line)
    OBVIOUS
  <2>3. n \in 1 .. Len(line) /\ Len(line') + 1 = n
    BY <1>1, <2>2
  <2>4. OpenAt(n)'
    BY <1>3, <2>1, <2>2, <2>3
  <2>5. OpenAt(Len(line) + 1)'
    BY <2>3, <2>4 DEF OpenAt
  <2> QED BY <2>1, <2>5
<1>5. ToolsOpen'
  <2> SUFFICES ASSUME NEW k \in 1 .. Len(line'), line'[k] \in ToolHooks
               PROVE  OpenAt(k)'
    BY DEF ToolsOpen
  <2>1. k \in 1 .. Len(line) /\ k + 1 \in 1 .. Len(line) /\ line[k + 1] \in ToolHooks
    BY <1>1
  <2> QED BY <1>3, <2>1 DEF Settled, ToolsOpen
<1>6. Settles'
  <2>0. \A j \in 1 .. Len(line) : NoDoing(j + 1) => NoDoing(j)'
    BY <1>1 DEF NoDoing
  <2>1. CASE Unended
    BY <1>0, <2>1 DEF Settles, Unended
  <2>2. CASE ~hook.open /\ NoDoing(1)
    <3>1. ~hook'.open /\ NoDoing(2)
      BY <1>1, <1>2, <2>2 DEF NoDoing
    <3> QED BY <1>1, <2>0, <3>1 DEF Settles
  <2>3. ASSUME NEW j \in 1 .. Len(line), line[j] \in EndHooks,
               \A i \in 1 .. j : line[i] \notin Sends, NoDoing(j + 1)
        PROVE  Settles'
    <3>1. CASE j = 1
      <4>1. ~hook'.open
        BY <1>1, <1>2, <2>3, <3>1, HookKinds
      <4> QED BY <2>0, <2>3, <3>1, <4>1 DEF Settles
    <3>2. CASE j # 1
      <4>1. PICK m \in 1 .. Len(line') : m = j - 1
        BY <1>1, <2>3, <3>2
      <4>2. line'[m] \in EndHooks /\ \A i \in 1 .. m : line'[i] \notin Sends
        BY <1>1, <2>3, <4>1
      <4>3. NoDoing(m + 1)'
        BY <1>1, <2>0, <2>3, <4>1
      <4> QED BY <4>2, <4>3 DEF Settles
    <3> QED BY <3>1, <3>2
  <2> QED BY <2>1, <2>2, <2>3 DEF Settled, Settles
<1>7. AnswersKept'
  <2> SUFFICES ASSUME NEW p \in answers
               PROVE  AnswerWaits(p)' \/ AnswerTold(p)'
    BY <1>0 DEF AnswersKept
  <2>1. CASE AnswerTold(p)
    BY <1>2, <2>1 DEF AnswerTold
  <2>2. ASSUME NEW k \in 1 .. Len(line), line[k] = <<"stop", p>>, last.answer = p, OpenAt(k),
               \A i \in 1 .. k : line[i] \notin Sends
        PROVE  AnswerWaits(p)' \/ AnswerTold(p)'
    <3>1. CASE k = 1
      BY <1>1, <1>2, <2>2, <3>1 DEF OpenAt, HookTypes
    <3>2. CASE k # 1
      <4>1. PICK m \in 1 .. Len(line') : m = k - 1
        BY <1>1, <2>2, <3>2
      <4>2. OpenAt(m)'
        BY <1>1, <1>3, <2>2, <4>1
      <4>3. m + 1 = k /\ m \in 1 .. Len(line) - 1
        BY <1>1, <4>1
      <4>4. line'[m] = line[k]
        BY <1>1, <4>3
      <4>5. \A i \in 1 .. m : line'[i] \notin Sends
        BY <1>1, <2>2, <4>3
      <4> QED BY <1>0, <2>2, <4>2, <4>4, <4>5 DEF AnswerWaits
    <3> QED BY <3>1, <3>2
  <2> QED BY <2>1, <2>2 DEF Settled, AnswersKept, AnswerWaits
<1> QED BY <1>2, <1>4, <1>5, <1>6, <1>7 DEF Settled

-----------------------------------------------------------------------------
(* The line's order, and the hook record's values.                         *)

LineStages == {"waiting"} \cup InLock

\* Who stands in line goes on with its send; who joins was not there, who leaves is gone.
LEMMA LineKeeps ==
  ASSUME line \in Seq(Waiting), InTurn,
         \/ UNCHANGED line
         \/ \E w \in Waiting : /\ Join(w)
                               /\ w \in Sends => send[w] \notin LineStages /\ send'[w] \in LineStages
                               /\ w \in PromptHooks => w[2] \in Prompts
         \/ line # <<>> /\ Release,
         \A t \in Sends : send[t] \in LineStages => send'[t] \in LineStages \/ (Release /\ Holds(t))
  PROVE  InTurn'
<1>0. /\ \A i \in 1 .. Len(line) : line[i] \in Sends => send[line[i]] \in LineStages
      /\ \A i, j \in 1 .. Len(line) : line[i] = line[j] /\ line[i] \in Sends => i = j
      /\ \A i \in 1 .. Len(line) : line[i] \in PromptHooks => line[i][2] \in Prompts
  BY DEF InTurn, LineStages
<1> SUFFICES /\ \A i \in 1 .. Len(line') : line'[i] \in Sends => send'[line'[i]] \in LineStages
             /\ \A i, j \in 1 .. Len(line') : line'[i] = line'[j] /\ line'[i] \in Sends => i = j
             /\ \A i \in 1 .. Len(line') : line'[i] \in PromptHooks => line'[i][2] \in Prompts
  BY DEF InTurn, LineStages
<1>1. CASE line # <<>> /\ Release
  <2>1. /\ Len(line) \in Nat \ {0} /\ Len(line') = Len(line) - 1 /\ Head(line) = line[1]
        /\ \A i \in 1 .. Len(line) - 1 : line'[i] = line[i + 1]
    BY <1>1, LeftLine
  <2>2. ASSUME NEW i \in 1 .. Len(line')
        PROVE  i + 1 \in 1 .. Len(line) /\ line'[i] = line[i + 1] /\ i + 1 # 1
    BY <2>1
  <2>3. ASSUME NEW i \in 1 .. Len(line'), line'[i] \in Sends
        PROVE  send'[line'[i]] \in LineStages
    <3>1. line[i + 1] \in Sends /\ line[i + 1] # line[1]
      BY <1>0, <2>1, <2>2, <2>3
    <3> QED BY <1>0, <2>1, <2>2, <3>1 DEF Holds
  <2>4. \A i, j \in 1 .. Len(line') : line'[i] = line'[j] /\ line'[i] \in Sends => i = j
    BY <1>0, <2>1, <2>2
  <2> QED BY <1>0, <2>2, <2>3, <2>4
<1>2. ASSUME NEW w \in Waiting, Join(w), w \in PromptHooks => w[2] \in Prompts,
             w \in Sends => send[w] \notin LineStages /\ send'[w] \in LineStages
      PROVE  /\ \A i \in 1 .. Len(line') : line'[i] \in Sends => send'[line'[i]] \in LineStages
             /\ \A i, j \in 1 .. Len(line') : line'[i] = line'[j] /\ line'[i] \in Sends => i = j
             /\ \A i \in 1 .. Len(line') : line'[i] \in PromptHooks => line'[i][2] \in Prompts
  <2>1. /\ Len(line) \in Nat /\ Len(line') = Len(line) + 1 /\ line'[Len(line) + 1] = w
        /\ \A i \in 1 .. Len(line) : line'[i] = line[i]
    BY <1>2, JoinedLine
  <2>2. ~Release \/ line = <<>>
    <3>1. line # <<>> /\ Release => Len(line') = Len(line) - 1
      BY LeftLine
    <3> QED BY <2>1, <3>1
  <2>3. \A t \in Sends : send[t] \in LineStages => send'[t] \in LineStages
    BY <2>2 DEF Holds
  <2>4. ASSUME NEW i \in 1 .. Len(line'), line'[i] \in Sends
        PROVE  send'[line'[i]] \in LineStages
    BY <1>0, <1>2, <2>1, <2>3, <2>4
  <2>5. ASSUME NEW i \in 1 .. Len(line'), NEW j \in 1 .. Len(line'),
               line'[i] = line'[j], line'[i] \in Sends
        PROVE  i = j
    <3>1. ASSUME NEW m \in 1 .. Len(line), line[m] \in Sends
          PROVE  line[m] # w
      BY <1>0, <1>2, <3>1
    <3> QED BY <1>0, <2>1, <2>5, <3>1
  <2>6. \A i \in 1 .. Len(line') : line'[i] \in PromptHooks => line'[i][2] \in Prompts
    BY <1>0, <1>2, <2>1
  <2> QED BY <2>4, <2>5, <2>6
<1>3. CASE UNCHANGED line
  <2>1. ASSUME NEW t \in Sends, Release, Holds(t)
        PROVE  FALSE
    <3>1. Len(line') = Len(line) - 1 /\ Len(line) \in Nat
      BY <2>1, LeftLine DEF Holds
    <3> QED BY <1>3, <3>1
  <2> QED BY <1>0, <1>3, <2>1
<1> QED BY <1>1, <1>2, <1>3

\* What the functions of a session's messages are functions of.
LEMMA SendFunctions ==
  ASSUME TurnsInv
  PROVE  /\ line \in Seq(Waiting)
         /\ send \in [Sends -> {"none", "checking", "waiting", "started", "reading", "read", "over"}]
         /\ result = [t \in Sends |-> result[t]]
         /\ active # NoTurn => active \in Sends /\ send[active] = "reading"
         /\ terminal.turn \in {0} \cup Prompts
         /\ terminal = [stage |-> terminal.stage, turn |-> terminal.turn, tools |-> terminal.tools]
<1>1. /\ line \in Seq(Waiting)
      /\ send \in [Sends -> {"none", "checking", "waiting", "started", "reading", "read", "over"}]
  BY DEF TurnsInv, TurnTypes
<1>2. ASSUME NEW S, result \in [Sends -> S]
      PROVE  result = [t \in Sends |-> result[t]]
  BY <1>2
<1>3. \E S : result \in [Sends -> S]
  BY Zenon DEF TurnsInv, TurnTypes
<1>4. active \in Sends \cup {NoTurn}
  BY Zenon DEF TurnsInv, TurnTypes
<1>5. terminal \in [stage : {"closed", "idle", "working", "tool", "left"},
                    turn : {0} \cup Prompts, tools : Nat]
  BY Zenon DEF TurnsInv, TurnTypes
<1> QED BY <1>1, <1>2, <1>3, <1>4, <1>5 DEF TurnsInv, Locked

-----------------------------------------------------------------------------
(* The steps, where the two take turns.                                    *)

\* That they take turns, once lost, stays lost.
LEMMA TurnsTaken ==
  ASSUME TurnsInv, [Next]_vars, TakesTurns'
  PROVE  TakesTurns
<1>1. connected' => connected
  BY DEF Next, SendStep, Process, Terminal, vars, managed, Called, Ready, NotReady, Begin, Spawn, SpawnFails,
         Reaped, Finish, Delta, Asks, Answered, Exits, Unreadable, Interrupt, Disconnect, Goes, Opens,
         Prompted, UsesTool, ToolDone, Stops, Leaves, Closes, HandleHook
<1>2. overlap => overlap'
  BY DEF Next, SendStep, Process, Terminal, vars, Called, Ready, NotReady, Begin, Spawn, SpawnFails,
         Reaped, Finish, Delta, Asks, Answered, Exits, Unreadable, Interrupt, Disconnect, Opens,
         Prompted, UsesTool, ToolDone, Stops, Leaves, Closes, HandleHook
<1>3. Whole' => Whole
  <2>0. /\ result = [t \in Sends |-> result[t]]
        /\ \A t \in Sends : result[t] = "raised" => send[t] = "over"
    BY SendFunctions DEF TurnsInv, Marked
  <2>1. CASE UNCHANGED result
    BY <2>1 DEF Whole
  <2>2. ASSUME NEW s \in Sends, NEW status, result' = [result EXCEPT ![s] = status], send[s] # "over"
        PROVE  Whole' => Whole
    BY <2>0, <2>2 DEF Whole
  <2>3. \/ UNCHANGED result
        \/ \E s \in Sends : \E status : result' = [result EXCEPT ![s] = status] /\ send[s] # "over"
    <3>1. ASSUME NEW s \in Sends, NotReady(s) \/ SpawnFails(s) \/ Finish(s) \/ Unreadable(s)
          PROVE  \E status : result' = [result EXCEPT ![s] = status] /\ send[s] # "over"
      BY <3>1 DEF NotReady, SpawnFails, Finish, Unreadable, End
    <3>2. ASSUME NEW s \in Sends, \/ Called(s) \/ Ready(s) \/ Begin(s) \/ Spawn(s) \/ Reaped(s) \/ Process(s)
          PROVE  UNCHANGED result
      BY <3>2 DEF Called, Ready, Begin, Spawn, Reaped, Process, Delta, Asks, Answered, Exits, managed
    <3>3. CASE Interrupt \/ Disconnect \/ Terminal \/ HandleHook \/ UNCHANGED vars
      BY <3>3 DEF Interrupt, Disconnect, Terminal, HandleHook, vars, managed, Goes, Opens, Prompted, UsesTool,
                  ToolDone, Stops, Leaves, Closes
    <3> QED BY <3>1, <3>2, <3>3 DEF Next, SendStep
  <2> QED BY <2>1, <2>2, <2>3
<1> QED BY <1>1, <1>2, <1>3 DEF TakesTurns

\* The terminal's hooks are relayed while no message is under way.
LEMMA Relayed ==
  ASSUME TurnsInv, TakesTurns, \A s \in Sends : ~Under(s), NEW what, Relay(what)
  PROVE  Join(<<what, terminal'.turn>>)
<1>1. active = NoTurn
  BY SendFunctions DEF Under
<1> QED BY <1>1 DEF Relay, TakesTurns

\* While few hooks wait, an answer that waits is the only one there.
LEMMA NoneWaits ==
  ASSUME Quiet <= 2, line \in Seq(Waiting), InTurn, HookTypes, Settled, Unended, Goes, NEW q \in answers
  PROVE  ~AnswerWaits(q)
<1> SUFFICES ASSUME NEW k \in 1 .. Len(line), line[k] = <<"stop", q>>
             PROVE  FALSE
  BY DEF AnswerWaits
<1>0. Quiet \in Nat /\ q \in Prompts /\ line[k] \in EndHooks
  BY ClaudeTurnsAssumption, HookKinds DEF HookTypes
<1>1. Len(line) \in Nat /\ DOMAIN line = 1 .. Len(line)
  BY LenProperties
<1>2. ASSUME NEW j \in 1 .. Len(line), line[j] \in PromptHooks
      PROVE  FALSE
  <2> DEFINE W == {i \in DOMAIN line : line[i] \notin Sends}
  <2>1. Cardinality(W) < Quiet /\ j # k /\ {j, k} \subseteq W
    BY <1>0, <1>1, <1>2, HookKinds DEF Goes
  <2>2. IsFiniteSet(W) /\ IsFiniteSet(1 .. Len(line))
    <3>1. IsFiniteSet(1 .. Len(line))
      BY <1>1, FS_Interval
    <3>2. W \subseteq 1 .. Len(line)
      BY <1>1
    <3> HIDE DEF W
    <3> QED BY <3>1, <3>2, FS_Subset
  <2> HIDE DEF W
  <2>3. Cardinality({j, k}) <= Cardinality(W) /\ Cardinality({j, k}) \in Nat /\ Cardinality(W) \in Nat
    BY <2>1, <2>2, FS_Subset, FS_CardinalityType
  <2>4. Cardinality({j, k}) = 2
    <3> DEFINE One  == {j}
               Both == {j, k}
    <3>1. Cardinality(One) = 1 /\ IsFiniteSet(One)
      BY FS_Singleton
    <3>2. Both = One \cup {k} /\ k \notin One
      BY <2>1
    <3> HIDE DEF One
    <3>3. Cardinality(One \cup {k}) = Cardinality(One) + 1
      BY <3>1, <3>2, FS_AddElement
    <3> HIDE DEF Both
    <3>4. Cardinality(Both) = 2
      BY <3>1, <3>2, <3>3
    <3> QED BY <3>4 DEF Both
  <2> QED BY <1>0, <2>1, <2>3, <2>4
<1>3. OpenAt(Len(line) + 1)
  BY DEF Settled, Alone
<1> QED BY <1>0, <1>1, <1>2, <1>3 DEF OpenAt

\* The terminal's steps keep the line's order and the record's values.
LEMMA TerminalOrder ==
  ASSUME TurnsInv, InTurn, HookTypes, Terminal
  PROVE  InTurn' /\ HookTypes'
<1>0. /\ line \in Seq(Waiting) /\ terminal.turn \in {0} \cup Prompts
      /\ terminal = [stage |-> terminal.stage, turn |-> terminal.turn, tools |-> terminal.tools]
  BY SendFunctions
<1>1. UNCHANGED <<send, hook, asked>>
  BY DEF Terminal, Goes, Opens, Prompted, UsesTool, ToolDone, Stops, Leaves, Closes, managed
<1>2. /\ UNCHANGED <<last, answers>> /\ terminal'.turn = terminal.turn /\ (Unended' => Unended)
      \/ \E p \in Prompts : /\ terminal'.turn = p /\ answers' \subseteq answers \cup {p}
                            /\ \/ last' = [last EXCEPT !.user = p]
                               \/ last' = [last EXCEPT !.answer = p]
                               \/ last' = last
  <2>1. ASSUME NEW p \in Prompts, Prompted(p)
        PROVE  terminal'.turn = p /\ answers' = answers /\ last' = [last EXCEPT !.user = p]
    BY <2>1 DEF Prompted
  <2>2. CASE Opens \/ Closes \/ Leaves \/ UsesTool \/ ToolDone
    BY <1>0, <2>2 DEF Opens, Closes, Leaves, UsesTool, ToolDone, Unended
  <2>3. CASE Stops
    BY <1>0, <2>3 DEF Stops, HookTypes, Unended
  <2> QED BY <2>1, <2>2, <2>3 DEF Terminal
<1>3. HookTypes'
  BY <1>1, <1>2 DEF HookTypes
<1>4. \/ UNCHANGED line
      \/ \E what \in Hooks : Join(<<what, terminal'.turn>>) /\ (what = "prompt" => terminal'.turn \in Prompts)
  BY DEF Terminal, Opens, Prompted, UsesTool, ToolDone, Stops, Leaves, Closes, Relay, Hooks, Lifecycle
<1>5. InTurn'
  <2>1. CASE UNCHANGED line
    BY <1>0, <1>1, <2>1, LineKeeps
  <2>2. ASSUME NEW what \in Hooks, Join(<<what, terminal'.turn>>), what = "prompt" => terminal'.turn \in Prompts
        PROVE  InTurn'
    <3>1. PICK w : w = <<what, terminal'.turn>>
      OBVIOUS
    <3>2. terminal'.turn \in {0} \cup Prompts
      BY <1>0, <1>2
    <3>3. w \in Waiting /\ w \notin Sends /\ w[2] = terminal'.turn /\ w[1] = what
      BY <3>1, <3>2, ClaudeTurnsAssumption DEF Waiting
    <3>4. w \in PromptHooks => what = "prompt"
      BY <3>3 DEF PromptHooks, HooksOf
    <3> QED BY <1>0, <1>1, <2>2, <3>1, <3>3, <3>4, LineKeeps
  <2> QED BY <1>4, <2>1, <2>2
<1> QED BY <1>3, <1>5

\* A settled session stays so at a step of the terminal's, where the two take turns.
LEMMA TerminalSettles ==
  ASSUME Quiet <= 2, ApartInv, Terminal, TakesTurns, TakesTurns', HookTypes'
  PROVE  Settled'
<1>0. /\ line \in Seq(Waiting) /\ TurnsInv /\ InTurn /\ HookTypes /\ Settled
      /\ terminal = [stage |-> terminal.stage, turn |-> terminal.turn, tools |-> terminal.tools]
      /\ last = [user |-> last.user, answer |-> last.answer]
  BY SendFunctions DEF ApartInv, HookTypes
<1>1. UNCHANGED <<send, hook, told>>
  BY DEF Terminal, Goes, Opens, Prompted, UsesTool, ToolDone, Stops, Leaves, Closes, managed
<1>2. Unended => \A s \in Sends : ~Under(s)
  BY <1>0 DEF Settled, Alone
<1>3. ASSUME NEW what, Unended, Relay(what)
      PROVE  Join(<<what, terminal'.turn>>)
  BY <1>0, <1>2, <1>3, Relayed
<1>4. ASSUME NEW what \in {"start", "end"}, ~Unended, ~Unended', Relay(what),
             UNCHANGED answers, last'.answer = last.answer, terminal'.turn \in {0} \cup Prompts
      PROVE  Settled'
  <2>1. PICK w : w = <<what, terminal'.turn>>
    OBVIOUS
  <2>2. w \in Waiting /\ w \notin PromptHooks \cup ToolHooks
    BY <1>4, <2>1 DEF Waiting, Hooks, Lifecycle, PromptHooks, ToolHooks, HooksOf
  <2>3. UNCHANGED line \/ Join(w)
    BY <1>4, <2>1 DEF Relay
  <2> QED BY <1>0, <1>1, <1>4, <2>2, <2>3, IdleStep
<1>5. terminal'.turn \in {0} \cup Prompts
  <2>1. terminal.turn \in {0} \cup Prompts
    BY <1>0, SendFunctions
  <2>2. ASSUME NEW p \in Prompts, Prompted(p)
        PROVE  terminal'.turn = p
    BY <2>2 DEF Prompted
  <2> QED BY <1>0, <2>1, <2>2 DEF Terminal, Opens, Closes, Leaves, Stops, UsesTool, ToolDone
<1>6. CASE Opens
  <2>1. ~Unended /\ ~Unended' /\ Relay("start") /\ UNCHANGED <<answers, last>>
    BY <1>0, <1>6 DEF Opens, Unended
  <2> QED BY <1>4, <1>5, <2>1
<1>7. ASSUME NEW p \in Prompts, Prompted(p)
      PROVE  Settled'
  <2>1. /\ \A s \in Sends : ~Under(s)
        /\ Relay("prompt") /\ UNCHANGED answers /\ last'.answer = last.answer /\ terminal'.turn = p
    BY <1>0, <1>7 DEF Prompted, TakesTurns
  <2>2. Unended'
    BY <1>7 DEF Prompted, Unended
  <2>3. Join(<<"prompt", p>>)
    BY <1>0, <2>1, Relayed
  <2>4. <<"prompt", p>> \in PromptHooks
    BY DEF PromptHooks, HooksOf
  <2> QED BY <1>0, <1>1, <2>1, <2>2, <2>3, <2>4, TurnBegins
<1>8. CASE UsesTool \/ ToolDone \/ Leaves
  <2>1. Unended /\ Unended' /\ UNCHANGED <<answers, last>>
    BY <1>0, <1>8 DEF UsesTool, ToolDone, Leaves, Unended
  <2>2. UNCHANGED line \/ \E what \in {"tool", "ask"} : Relay(what)
    BY <1>8 DEF UsesTool, ToolDone, Leaves
  <2>3. ASSUME NEW what \in {"tool", "ask"}, Relay(what)
        PROVE  \E w \in ToolHooks : Join(w)
    <3>1. Join(<<what, terminal'.turn>>)
      BY <1>3, <2>1, <2>3
    <3>2. <<what, terminal'.turn>> \in ToolHooks
      BY <1>5 DEF ToolHooks, HooksOf
    <3> QED BY <3>1, <3>2
  <2> QED BY <1>0, <1>1, <2>1, <2>2, <2>3, TurnGoesOn
<1>9. CASE Stops
  <2>1. Unended /\ ~Unended' /\ Goes /\ terminal'.turn = terminal.turn
    BY <1>0, <1>9 DEF Stops, Unended
  <2>2. PICK p \in Prompts : p = terminal'.turn
    BY <1>0, <2>1 DEF HookTypes
  <2>3. \A what \in {"stop", "failed"} : <<what, p>> \in EndHooks
    BY <2>2 DEF EndHooks, HooksOf
  <2>4. CASE UNCHANGED <<last, answers>> /\ \E what \in {"stop", "failed"} : Relay(what)
    <3>1. PICK what \in {"stop", "failed"} : Join(<<what, p>>)
      BY <1>3, <2>1, <2>2, <2>4
    <3> QED BY <1>0, <1>1, <2>1, <2>3, <2>4, <3>1, TurnEnds
  <2>5. CASE /\ last' = [last EXCEPT !.answer = p] /\ answers' = answers \cup {p}
             /\ Relay("stop")
    <3>1. Join(<<"stop", p>>)
      BY <1>3, <2>1, <2>2, <2>5
    <3>2. last'.answer = p
      BY <1>0, <2>5
    <3>3. \A q \in answers : ~AnswerWaits(q)
      BY <1>0, <2>1, NoneWaits
    <3> QED BY <1>0, <1>1, <2>1, <2>3, <2>5, <3>1, <3>2, <3>3, TurnEnds
  <2> QED BY <1>9, <2>1, <2>2, <2>4, <2>5 DEF Stops
<1>10. CASE Closes
  <2>1. ~Unended' /\ Relay("end") /\ UNCHANGED <<answers, last>>
    BY <1>0, <1>10 DEF Closes, Unended
  <2>2. CASE ~Unended
    BY <1>4, <1>5, <2>1, <2>2
  <2>3. CASE Unended
    <3>1. Join(<<"end", terminal'.turn>>)
      BY <1>3, <2>1, <2>3
    <3>2. <<"end", terminal'.turn>> \in EndHooks
      BY <1>5 DEF EndHooks, HooksOf
    <3>3. PICK w : w = <<"end", terminal'.turn>>
      OBVIOUS
    <3> QED BY <1>0, <1>1, <2>1, <2>3, <3>1, <3>2, <3>3, TurnEnds
  <2> QED BY <2>2, <2>3
<1> QED BY <1>6, <1>7, <1>8, <1>9, <1>10 DEF Terminal

\* The steps of a message, of its process and of whoever stops it keep the line's order.
LEMMA SendsOrder ==
  ASSUME TurnsInv, InTurn, HookTypes,
         \/ \E s \in Sends : Called(s) \/ SendStep(s) \/ Process(s) \/ Unreadable(s)
         \/ Interrupt \/ Disconnect
  PROVE  InTurn' /\ HookTypes'
<1>0. /\ line \in Seq(Waiting) /\ Locked
      /\ send \in [Sends -> {"none", "checking", "waiting", "started", "reading", "read", "over"}]
  BY SendFunctions DEF TurnsInv
<1>1. HookTypes'
  <2>1. UNCHANGED <<asked, answers, terminal>>
    BY DEF SendStep, Process, Called, Ready, NotReady, Begin, Spawn, SpawnFails, Reaped, Finish, Delta, Asks,
           Answered, Exits, Unreadable, Interrupt, Disconnect, outside
  <2>2. UNCHANGED hook \/ hook' = NoHooks
    BY DEF SendStep, Process, Called, Ready, NotReady, Begin, Spawn, SpawnFails, Reaped, Finish, Delta, Asks,
           Answered, Exits, Unreadable, Interrupt, Disconnect
  <2>3. \/ UNCHANGED last
        \/ \E s \in Sends : last' = [last EXCEPT !.user = s] \/ last' = [last EXCEPT !.answer = s]
    BY DEF SendStep, Process, Called, Ready, NotReady, Begin, Spawn, SpawnFails, Reaped, Finish, Delta, Asks,
           Answered, Exits, Unreadable, Interrupt, Disconnect, outside
  <2>4. last' \in [user : Sends \cup Prompts \cup {NoTurn}, answer : Sends \cup Prompts \cup {NoTurn}]
    BY <2>3 DEF HookTypes
  <2>5. hook' \in [turn : Turns \cup {NoTurn}, ended : Turns \cup {NoTurn},
                   open : BOOLEAN, prompt : Texts \cup {NoTurn}]
    <3>1. NoHooks \in [turn : Turns \cup {NoTurn}, ended : Turns \cup {NoTurn},
                       open : BOOLEAN, prompt : Texts \cup {NoTurn}]
      BY DEF NoHooks
    <3> QED BY <2>2, <3>1 DEF HookTypes
  <2> QED BY <2>1, <2>4, <2>5 DEF HookTypes, Unended
<1>2. InTurn'
  <2>1. ASSUME NEW s \in Sends, NEW stage, send' = [send EXCEPT ![s] = stage], UNCHANGED line,
               send[s] \in LineStages => stage \in LineStages
        PROVE  InTurn'
    BY <1>0, <2>1, LineKeeps
  <2>2. ASSUME NEW s \in Sends, Holds(s), send' = [send EXCEPT ![s] = "over"], Release
        PROVE  InTurn'
    BY <1>0, <2>2, LineKeeps DEF Holds
  <2>3. ASSUME NEW s \in Sends, Called(s) \/ NotReady(s) \/ Begin(s) \/ Spawn(s) \/ Reaped(s)
        PROVE  InTurn'
    <3>1. \E stage : /\ send' = [send EXCEPT ![s] = stage] /\ UNCHANGED line
                     /\ send[s] \in LineStages => stage \in LineStages
      BY <2>3 DEF Called, NotReady, Begin, Spawn, Reaped, LineStages, InLock
    <3> QED BY <2>1, <3>1
  <2>4. ASSUME NEW s \in Sends, SpawnFails(s) \/ Finish(s) \/ Unreadable(s)
        PROVE  InTurn'
    <3>1. send[s] \in InLock /\ send' = [send EXCEPT ![s] = "over"] /\ Release
      BY <2>4 DEF SpawnFails, Finish, Unreadable, End, InLock
    <3> QED BY <1>0, <2>2, <3>1 DEF Locked
  <2>5. ASSUME NEW s \in Sends, Ready(s)
        PROVE  InTurn'
    <3>1. /\ s \in Waiting /\ Join(s) /\ s \notin PromptHooks
          /\ send[s] = "checking" /\ send' = [send EXCEPT ![s] = "waiting"]
      BY <2>5, HookKinds DEF Ready, Waiting
    <3> QED BY <1>0, <3>1, LineKeeps DEF LineStages, InLock
  <2>6. CASE Interrupt \/ Disconnect \/ \E s \in Sends : Process(s)
    <3>1. UNCHANGED <<send, line>>
      BY <2>6 DEF Interrupt, Disconnect, Process, Delta, Asks, Answered, Exits, managed
    <3> QED BY <1>0, <3>1, LineKeeps
  <2> QED BY <2>3, <2>4, <2>5, <2>6 DEF SendStep
<1> QED BY <1>1, <1>2

\* The end of a send's turn leaves nothing running.
LEMMA SendEndsRunning ==
  ASSUME TurnsInv, NEW s \in Sends, SpawnFails(s) \/ Finish(s)
  PROVE  shown'.status # "running" /\ finals \subseteq finals'
<1>1. s # NoTurn /\ shown.turn = s
  BY ClaudeTurnsAssumption DEF TurnsInv, Locked, SpawnFails, Finish, InLock
<1>2. CASE Tell("failed", s)
  BY <1>1, <1>2, EndsRunning DEF Tell
<1>3. CASE TellAnswer(s, s)
  BY <1>1, <1>3, EndsRunning DEF TellAnswer
<1> QED BY <1>2, <1>3 DEF SpawnFails, Finish

\* A settled session stays so at the steps of a message, of its process and of whoever
\* stops it, where the two take turns.
LEMMA SendsSettle ==
  ASSUME ApartInv, TakesTurns, TakesTurns',
         \/ \E s \in Sends : Called(s) \/ SendStep(s) \/ Process(s) \/ Unreadable(s)
         \/ Interrupt \/ Disconnect
  PROVE  Settled'
<1>0. /\ line \in Seq(Waiting) /\ TurnsInv /\ InTurn /\ HookTypes /\ Settled
      /\ send \in [Sends -> {"none", "checking", "waiting", "started", "reading", "read", "over"}]
      /\ result = [t \in Sends |-> result[t]]
      /\ active # NoTurn => active \in Sends /\ send[active] = "reading"
  BY SendFunctions DEF ApartInv
<1>1. /\ \A s \in Sends : send[s] \in InLock => Holds(s)
      /\ \A s \in Sends : Alive(s) => send[s] = "reading"
  BY <1>0 DEF TurnsInv, Locked, Marked, TakesTurns
<1>2. ASSUME NEW s \in Sends, Called(s) \/ Ready(s) \/ NotReady(s)
      PROVE  Settled'
  <2>1. UNCHANGED <<hook, answers, told, last, terminal>>
    BY <1>2 DEF Called, Ready, NotReady, outside
  <2>2. ~Unended
    <3>1. CASE Called(s)
      BY <3>1 DEF Called, TakesTurns
    <3>2. CASE Ready(s) \/ NotReady(s)
      BY <1>0, <3>2 DEF Ready, NotReady, Settled, Alone, Under
    <3> QED BY <1>2, <3>1, <3>2
  <2>3. ~Unended'
    BY <2>1, <2>2 DEF Unended
  <2>4. \A t \in Sends : send[t] \in InLock => send'[t] \in InLock
    BY <1>0, <1>2 DEF Called, Ready, NotReady, InLock
  <2>5. UNCHANGED line \/ \E w \in Waiting : Join(w) /\ w \notin PromptHooks \cup ToolHooks
    BY <1>2, HookKinds DEF Called, Ready, NotReady, Waiting
  <2> QED BY <1>0, <2>1, <2>2, <2>3, <2>4, <2>5, IdleStep
<1>3. ASSUME NEW s \in Sends, Holds(s), UNCHANGED <<hook, terminal, answers>>, finals \subseteq finals',
             UNCHANGED line \/ Release,
             shown'.status = "running" => \E t \in Sends : send'[t] \in InLock
      PROVE  Settled'
  BY <1>0, <1>3, HolderStep
<1>4. ASSUME NEW s \in Sends, Begin(s) \/ Spawn(s) \/ Reaped(s)
      PROVE  Settled'
  <2>1. /\ Holds(s) /\ send'[s] \in InLock
        /\ UNCHANGED <<hook, terminal, answers, finals, line>>
    BY <1>0, <1>1, <1>4 DEF Begin, Spawn, Reaped, outside, told, Tell, InLock
  <2> QED BY <1>3, <2>1
<1>5. ASSUME NEW s \in Sends, SpawnFails(s) \/ Finish(s)
      PROVE  Settled'
  <2>1. /\ Holds(s) /\ Release /\ UNCHANGED <<hook, terminal, answers>>
    BY <1>1, <1>5 DEF SpawnFails, Finish, End, outside, InLock
  <2> QED BY <1>0, <1>3, <1>5, <2>1, SendEndsRunning
<1>6. ASSUME NEW s \in Sends, Process(s)
      PROVE  Settled'
  <2>1. /\ send[s] = "reading" /\ send' = send
        /\ UNCHANGED <<hook, terminal, answers, finals, line>>
    BY <1>1, <1>6 DEF Process, Delta, Asks, Answered, Exits, Alive, managed, outside, told, Tell
  <2> QED BY <1>1, <1>3, <2>1 DEF InLock
<1>7. ASSUME NEW s \in Sends, Unreadable(s)
      PROVE  FALSE
  <2>1. result'[s] = "raised"
    BY <1>0, <1>7 DEF Unreadable, End
  <2> QED BY <2>1 DEF TakesTurns, Whole
<1>8. CASE Interrupt
  <2>1. /\ active \in Sends /\ send[active] = "reading" /\ send' = send
        /\ UNCHANGED <<hook, terminal, answers, finals, shown, line>>
    BY <1>0, <1>8 DEF Interrupt, outside, told
  <2> QED BY <1>1, <1>3, <2>1 DEF InLock
<1>9. CASE Disconnect
  BY <1>9 DEF Disconnect, TakesTurns
<1> QED BY <1>2, <1>4, <1>5, <1>6, <1>7, <1>8, <1>9 DEF SendStep

\* A hook's turn keeps the line's order and the record's values.
LEMMA HookOrder ==
  ASSUME TurnsInv, InTurn, HookTypes, HandleHook
  PROVE  InTurn' /\ HookTypes'
<1>0. /\ line \in Seq(Waiting) /\ line # <<>> /\ Release /\ Head(line) \notin Sends
      /\ UNCHANGED <<send, asked, answers, terminal, last>>
  BY SendFunctions DEF HandleHook, managed, outside
<1>1. InTurn'
  BY <1>0, LineKeeps
<1>2. EndingTurn \in Turns /\ NoTurn \in Turns \cup {NoTurn}
  BY DEF EndingTurn, Turns, HookTypes
<1>3. \/ UNCHANGED hook \/ OnStop \/ OnFailure
      \/ \E what : OnTool(what)
      \/ Head(line)[1] = "prompt" /\ OnPrompt(Head(line)[2])
  <2>1. Head(line) \in Hooks \X ({0} \cup Prompts)
    BY <1>0, LeftLine DEF Waiting
  <2>2. Head(line)[1] \in Hooks
    BY <2>1
  <2> QED BY <2>2 DEF HandleHook, Hooks, Lifecycle
<1>4. hook' \in [turn : Turns \cup {NoTurn}, ended : Turns \cup {NoTurn},
                 open : BOOLEAN, prompt : Texts \cup {NoTurn}]
  <2>1. CASE UNCHANGED hook
    BY <2>1 DEF HookTypes
  <2>2. CASE OnStop \/ OnFailure
    BY <1>2, <2>2 DEF HookTypes, OnStop, OnFailure
  <2>3. ASSUME NEW what, OnTool(what)
        PROVE  hook' \in [turn : Turns \cup {NoTurn}, ended : Turns \cup {NoTurn},
                          open : BOOLEAN, prompt : Texts \cup {NoTurn}]
    BY <2>3 DEF HookTypes, OnTool
  <2>4. CASE Head(line)[1] = "prompt" /\ OnPrompt(Head(line)[2])
    <3>1. Head(line) = line[1] /\ Head(line) \in Waiting /\ 1 \in 1 .. Len(line)
      BY <1>0, LeftLine
    <3>2. Head(line) \in Hooks \X ({0} \cup Prompts)
      BY <1>0, <3>1 DEF Waiting
    <3>3. PICK h : h = Head(line)
      OBVIOUS
    <3>4. h \in PromptHooks
      <4>1. h = <<h[1], h[2]>> /\ h[2] \in {0} \cup Prompts
        BY <3>2, <3>3
      <4> QED BY <2>4, <3>3, <4>1 DEF PromptHooks, HooksOf
    <3>5. h[2] \in Prompts
      BY <3>1, <3>3, <3>4 DEF InTurn
    <3>6. OnPrompt(Head(line)[2]) /\ Head(line)[2] \in Prompts
      BY <2>4, <3>3, <3>5
    <3>7. PICK p \in Prompts : p = Head(line)[2]
      BY <3>6
    <3>8. UNCHANGED hook \/ hook' = [turn |-> p, ended |-> NoTurn, open |-> TRUE, prompt |-> asked[p]]
      BY <3>6, <3>7 DEF OnPrompt
    <3>9. p \in Turns /\ asked[p] \in Texts
      BY DEF HookTypes, Turns
    <3>10. [turn |-> p, ended |-> NoTurn, open |-> TRUE, prompt |-> asked[p]]
             \in [turn : Turns \cup {NoTurn}, ended : Turns \cup {NoTurn},
                  open : BOOLEAN, prompt : Texts \cup {NoTurn}]
      BY <3>9
    <3> QED BY <3>8, <3>10 DEF HookTypes
  <2> QED BY <1>3, <2>1, <2>2, <2>3, <2>4
<1>5. HookTypes'
  BY <1>0, <1>4 DEF HookTypes, Unended
<1> QED BY <1>1, <1>5

-----------------------------------------------------------------------------
\* Where the terminal and the adapter take turns, the end of every turn of the terminal
\* stands in line before any message, and an answer that is not told is still the
\* session file's last.  Up to two hooks of the terminal may wait: with three, a turn's
\* answer can be replaced in the file before its own hook has its turn.
THEOREM ApartInvariant ==
  ASSUME Quiet <= 2
  PROVE  Spec => []ApartInv
<1>1. Init => ApartInv
  <2> SUFFICES ASSUME Init
               PROVE  ApartInv
    OBVIOUS
  <2>0. line = <<>> /\ Len(line) = 0 /\ 1 .. Len(line) = {}
    <3>1. line = <<>>
      BY DEF Init
    <3> QED BY <3>1
  <2>1. TurnsInv
    BY InitTurns
  <2>2. InTurn
    BY <2>0 DEF InTurn
  <2>3. HookTypes
    BY DEF Init, HookTypes, NoHooks, Unended
  <2>4. ~hook.open /\ ~Unended /\ answers = {} /\ shown.status = "idle"
    BY DEF Init, NoHooks, Unended
  <2>5. Settled
    BY <2>0, <2>4 DEF Settled, Alone, ToolsOpen, Settles, NoDoing, HookShown, AnswersKept
  <2> QED BY <2>1, <2>2, <2>3, <2>5 DEF ApartInv
<1>2. ApartInv /\ [Next]_vars => ApartInv'
  <2> SUFFICES ASSUME ApartInv, [Next]_vars
               PROVE  ApartInv'
    OBVIOUS
  <2>0. TurnsInv /\ InTurn /\ HookTypes /\ TurnsInv'
    BY TurnsStep DEF ApartInv
  <2>1. TakesTurns' => TakesTurns
    BY <2>0, TurnsTaken
  <2>2. CASE UNCHANGED vars
    <3>1. InTurn'
      BY <2>0, <2>2 DEF InTurn, vars, managed
    <3>2. HookTypes'
      BY <2>0, <2>2 DEF HookTypes, Unended, vars, outside
    <3>3. TakesTurns' => Settled'
      BY <2>1, <2>2
      DEF ApartInv, Settled, Alone, ToolsOpen, Settles, NoDoing, HookShown, AnswersKept, AnswerWaits, AnswerTold,
          OpenAt, Unended, Under, vars, managed, outside, told
    <3> QED BY <2>0, <3>1, <3>2, <3>3 DEF ApartInv
  <2>3. CASE Terminal
    BY <2>0, <2>1, <2>3, TerminalOrder, TerminalSettles DEF ApartInv
  <2>4. CASE \/ \E s \in Sends : Called(s) \/ SendStep(s) \/ Process(s) \/ Unreadable(s)
             \/ Interrupt \/ Disconnect
    BY <2>0, <2>1, <2>4, SendsOrder, SendsSettle DEF ApartInv
  <2>5. CASE HandleHook
    <3>1. \A s \in Sends : send[s] \notin InLock
      BY <2>0, <2>5 DEF HandleHook, TurnsInv, Locked, Holds
    <3>2. line \in Seq(Waiting)
      BY <2>0, SendFunctions
    <3> QED BY <2>0, <2>1, <2>5, <3>1, <3>2, HookOrder, HookSettles DEF ApartInv
  <2> QED BY <2>2, <2>3, <2>4, <2>5 DEF Next
<1> QED BY <1>1, <1>2, PTL DEF Spec

\* At rest the session is not shown as running and every answer of the terminal's is
\* told, where the terminal and the adapter took turns (what _handle_claude_hook_payload
\* and the send's own end promise together).
THEOREM TerminalIsTold ==
  ASSUME Quiet <= 2
  PROVE  Spec => []TerminalToldApart
<1>1. ApartInv => TerminalToldApart
  <2> SUFFICES ASSUME ApartInv, ~overlap, Whole, AtRest
               PROVE  /\ shown.status # "running"
                      /\ \A p \in answers : \E t \in Turns : <<t, p>> \in finals
    BY DEF TerminalToldApart, TerminalTold
  <2>1. Settled
    BY DEF ApartInv, TakesTurns, AtRest
  <2>2. line = <<>> /\ Len(line) = 0 /\ 1 .. Len(line) = {}
    BY DEF AtRest
  <2>3. ~Unended
    BY DEF AtRest, Unended
  <2>4. ~hook.open
    BY <2>1, <2>2, <2>3 DEF Settled, Settles
  <2>5. \A s \in Sends : send[s] \notin InLock
    BY DEF AtRest, Under, InLock
  <2>6. \A p \in answers : ~AnswerWaits(p)
    BY <2>2 DEF AnswerWaits
  <2> QED BY <2>1, <2>4, <2>5, <2>6 DEF Settled, HookShown, AnswersKept, AnswerTold
<1> QED BY <1>1, ApartInvariant, PTL
=============================================================================
