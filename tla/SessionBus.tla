----------------------------- MODULE SessionBus -----------------------------
(***************************************************************************)
(* What one session shows: the in-process message bus with its dedupe      *)
(* memory, the delivery subscriber's run ledger that may veto an event,    *)
(* and the activity projection the task board and the update gate read.    *)
(*                                                                         *)
(* Publishing is synchronous: Publish(e) is one step of whoever calls it.  *)
(* An event carries the identity the bus dedupes it by; two sources of one *)
(* fact have one identity ("started") or one each ("completed").           *)
(***************************************************************************)
EXTENDS Naturals, FiniteSets

CONSTANT LastTurn  \* bound: the session's turns are 1..LastTurn

ASSUME LastTurnAssumption == LastTurn \in Nat

Turns  == 1 .. LastTurn
NoTurn == 0

VARIABLES
  activity,  \* SessionActivity and the projection's _turn_ids
  seen,      \* identities in _seen_dedupe_keys
  runs,      \* provider run ledger: the status of each turn's run
  current,   \* thread_current_runs: the turn of the current run
  active     \* the thread is in runtime.active_threads

busVars == <<activity, seen, runs, current, active>>

Kinds   == {"submitted", "started", "progress", "final", "completed"}
Origins == {"turn", "external", "app"}  \* whose request or item id the key holds

\* A streamed delta has no identity: its key is empty.
Event(kind, t, origin) == [kind |-> kind, turn |-> t, origin |-> origin]
Keyed(e) == e.kind # "progress"

BusTypeOK ==
  /\ activity \in [status   : {"idle", "running", "completed"},
                   delivery : {"", "submitted"},
                   turn     : Turns \cup {NoTurn},   \* active_turn_id
                   known    : Turns \cup {NoTurn}]   \* _turn_ids
  /\ seen \subseteq [kind : Kinds, turn : Turns, origin : Origins]
  /\ runs \in [Turns -> {"none", "started", "completed"}]
  /\ current \in Turns \cup {NoTurn}
  /\ active \in BOOLEAN

BusInit ==
  /\ activity = [status |-> "idle", delivery |-> "", turn |-> NoTurn, known |-> NoTurn]
  /\ seen = {}
  /\ runs = [t \in Turns |-> "none"]
  /\ current = NoTurn
  /\ active = FALSE

----------------------------------------------------------------------------
(* The projection.                                                         *)

TurnScoped == {"progress", "final", "completed"}

\* An event of another turn than the one known changes nothing.
Foreign(e) ==
  /\ e.kind \in TurnScoped
  /\ activity.known # NoTurn
  /\ e.turn # activity.known

Known(e) ==
  IF e.kind = "started" \/ activity.known = NoTurn THEN e.turn ELSE activity.known

\* A completed turn stays the active one.
EffectKeepsTurn(e) ==
  CASE e.kind = "submitted" -> [activity EXCEPT !.delivery = "submitted"]
    [] e.kind \in {"started", "progress"} ->
         [activity EXCEPT !.status = "running", !.turn = e.turn]
    [] e.kind \in {"final", "completed"} -> [activity EXCEPT !.status = "completed"]

Effect(e) ==
  CASE e.kind = "submitted" -> [activity EXCEPT !.delivery = "submitted"]
    [] e.kind \in {"started", "progress"} ->
         [activity EXCEPT !.status = "running", !.turn = e.turn]
    [] e.kind \in {"final", "completed"} ->
         [activity EXCEPT !.status = "completed", !.turn = NoTurn]

Update(e) == IF Foreign(e) THEN activity ELSE [Effect(e) EXCEPT !.known = Known(e)]

----------------------------------------------------------------------------
(* The run ledger of the delivery subscriber.                              *)

\* While a run is current, no other turn may start one.
VetoedStart(e) == current # NoTurn /\ e.turn # current

\* A turn that is over does not start again; while a run is current, only
\* a start may name another turn.
Vetoed(e) ==
  IF e.kind = "started" THEN runs[e.turn] = "completed"
                        ELSE current # NoTurn /\ e.turn # current

\* Only the first turn starts a run.
StartsRunOnce(e) == e.kind \in {"started", "progress", "final"} /\ current = NoTurn

StartsRun(e) ==
  \/ e.kind = "started" /\ current # e.turn
  \/ e.kind \in {"progress", "final"} /\ current = NoTurn

\* Records the kind of the event in place of the status.
RunStatusVerbatim(e) == IF e.kind = "submitted" THEN runs[e.turn] ELSE e.kind

RunStatus(e) ==
  CASE StartsRun(e) /\ e.kind # "final" -> "started"
    [] e.kind = "final"                 -> "completed"
    [] e.kind = "completed" /\ runs[e.turn] # "none" -> "completed"
    [] OTHER -> runs[e.turn]

Ledger(e) ==
  /\ runs' = [runs EXCEPT ![e.turn] = RunStatus(e)]
  /\ current' = IF StartsRun(e) THEN e.turn ELSE current
  /\ active' = CASE e.kind = "started"   -> TRUE
                 [] e.kind = "completed" -> FALSE
                 [] OTHER                -> active

Publish(e) ==
  IF (Keyed(e) /\ e \in seen) \/ Vetoed(e)
  THEN UNCHANGED busVars
  ELSE /\ activity' = Update(e)
       /\ seen' = IF Keyed(e) THEN seen \cup {e} ELSE seen
       /\ Ledger(e)

\* What refuses an app update in an activity of this session.
Busy ==
  \/ activity.status = "running"
  \/ activity.turn # NoTurn
  \/ activity.delivery = "submitted"
  \/ active
=============================================================================
