---------------------------- MODULE SessionList ----------------------------
(***************************************************************************)
(* The list of sessions the desktop asks the owner bridge for.  Codex says *)
(* what there is in two places, the rollouts and the rows of its database, *)
(* which are read one after the other while it goes on writing.  One load  *)
(* is shared by those that ask meanwhile, its result kept without expiry;  *)
(* a provider without a list of its own is read for each that asks.        *)
(***************************************************************************)
EXTENDS Naturals, FiniteSets

CONSTANTS
  Listed,   \* sessions
  Asks,     \* requests for the list
  MaxLoads, \* bound: loads
  MaxWrites \* bound: changes codex makes

VARIABLES
  rolled,  \* sessions whose rollout is among the sessions
  active,  \* sessions whose row is not archived
  writes,  \* changes so far
  loads,   \* each load: how far it is, the rollouts it read, what it made of them
  loading, \* the load of _list_sessions_tasks, 0 without one
  cache,   \* the list kept
  ask      \* each request: how it is made, its load, the sessions that were there, or
           \* were not, all the time since, and its answer

vars == <<rolled, active, writes, loads, loading, cache, ask>>

Marks   == {"none", "active", "archived"}
Lists   == [Listed -> Marks]
NoList  == <<>>
Loads   == 1..MaxLoads
NoLoad  == [at |-> "unused", files |-> {}, list |-> NoList]
Unasked == [how |-> "unasked", load |-> 0, there |-> {}, absent |-> {}, list |-> NoList]

TypeOK ==
  /\ {rolled, active} \subseteq SUBSET Listed /\ writes \in 0..MaxWrites
  /\ loads \in [Loads -> [at : {"unused", "rollouts", "rows", "done", "failed"},
                          files : SUBSET Listed, list : Lists \cup {NoList}]]
  /\ loading \in 0..MaxLoads /\ cache \in Lists \cup {NoList}
  /\ \A a \in Asks : ask[a].how \in {"unasked", "waits", "direct", "over"}

Init ==
  /\ rolled \in SUBSET Listed /\ active = rolled /\ writes = 0
  /\ loads = [l \in Loads |-> NoLoad] /\ loading = 0 /\ cache = NoList
  /\ ask = [a \in Asks |-> Unasked]

-----------------------------------------------------------------------------
(* Codex.  A session that comes or goes is neither there nor absent for    *)
(* those that ask meanwhile.                                               *)

Writes(s, files, rows) ==
  /\ writes < MaxWrites /\ writes' = writes + 1
  /\ rolled' = files /\ active' = rows
  /\ ask' = [a \in Asks |-> [ask[a] EXCEPT !.there = @ \ {s}, !.absent = @ \ {s}]]
  /\ UNCHANGED <<loads, loading, cache>>

Creates(s)      == s \notin rolled \cup active /\ Writes(s, rolled \cup {s}, active \cup {s})
ArchivesRow(s)  == s \in active /\ Writes(s, rolled, active \ {s})
ArchivesFile(s) == s \in rolled \ active /\ Writes(s, rolled \ {s}, active)

-----------------------------------------------------------------------------
(* Loading.                                                                *)

\* list_codex_sessions: a session with a rollout and no row is archived, unless there
\* are no rows at all, as when the database could not be read.
Listing(files, rows) ==
  [s \in Listed |-> IF s \notin files \cup rows THEN "none"
                    ELSE IF rows # {} /\ s \notin rows THEN "archived" ELSE "active"]

\* _query_codex_active_thread_rows_by_workspace
RowsRead == {active, {}}

\* _build_codex_session_index
LoadRollouts(l) ==
  /\ loads[l].at = "rollouts"
  /\ loads' = [loads EXCEPT ![l].at = "rows", ![l].files = rolled]
  /\ UNCHANGED <<rolled, active, writes, loading, cache, ask>>

\* The result is kept, even if a later load's is there already.
LoadRows(l) ==
  /\ loads[l].at = "rows"
  /\ \E rows \in RowsRead :
       LET list == Listing(loads[l].files, rows) IN
       /\ loads' = [loads EXCEPT ![l].at = "done", ![l].list = list]
       /\ cache' = list
  /\ UNCHANGED <<rolled, active, writes, loading, ask>>

\* Five seconds are over; the thread that reads goes on, and nobody looks at it.
LoadFails(l) ==
  /\ loads[l].at \in {"rollouts", "rows"}
  /\ loads' = [loads EXCEPT ![l].at = "failed"]
  /\ UNCHANGED <<rolled, active, writes, loading, cache, ask>>

-----------------------------------------------------------------------------
(* _handle_list_sessions                                                   *)

\* fresh: what it is answered must have been read since.
Asked(a, fresh, l) ==
  ask' = [ask EXCEPT ![a] = [Unasked EXCEPT !.how = "waits", !.load = l,
            !.there = IF fresh THEN rolled \cap active ELSE {},
            !.absent = IF fresh THEN Listed \ (rolled \cup active) ELSE {}]]

Over(a, list) == ask' = [ask EXCEPT ![a].how = "over", ![a].list = list]

Running(l) == l # 0 /\ loads[l].at \notin {"done", "failed"}

\* A bug: whoever asks joins the load that runs.
JoinsAny(forced) == Running(loading)

\* A forced request has a load of its own.
Joins(forced) == ~forced /\ Running(loading)

Ask(a, forced) ==
  /\ ask[a] = Unasked
  /\ IF ~forced /\ cache # NoList
     THEN /\ ask' = [ask EXCEPT ![a] = [Unasked EXCEPT !.how = "over", !.list = cache]]
          /\ UNCHANGED <<loads, loading>>
     ELSE IF Joins(forced)
     THEN Asked(a, forced, loading) /\ UNCHANGED <<loads, loading>>
     ELSE \E l \in Loads :
            /\ loads[l] = NoLoad /\ \A k \in 1..l - 1 : loads[k] # NoLoad
            /\ loads' = [loads EXCEPT ![l].at = "rollouts"] /\ loading' = l
            /\ Asked(a, TRUE, l)
  /\ UNCHANGED <<rolled, active, writes, cache>>

\* The load's result, or what is kept from before if it failed; or an error.
Answer(a) ==
  /\ ask[a].how = "waits" /\ ~Running(ask[a].load)
  /\ LET l == loads[ask[a].load] IN
     IF l.at = "done" THEN Over(a, l.list)
     ELSE ask' = [ask EXCEPT ![a] = [Unasked EXCEPT !.how = "over", !.list = cache]]
  /\ loading' = IF loading = ask[a].load THEN 0 ELSE loading
  /\ UNCHANGED <<rolled, active, writes, loads, cache>>

\* Without list_sessions: the active ids are asked for first (none, if the threads' list
\* is authoritative or nobody answers), then the threads.
AskDirect(a) ==
  /\ ask[a] = Unasked
  /\ \E rows \in RowsRead :
       ask' = [ask EXCEPT ![a] =
                 [Unasked EXCEPT !.how = "direct", !.list = Listing(rows, rows),
                    !.there = rolled \cap active, !.absent = Listed \ (rolled \cup active)]]
  /\ UNCHANGED <<rolled, active, writes, loads, loading, cache>>

AnswerDirect(a) ==
  /\ ask[a].how = "direct"
  /\ LET rows == {s \in Listed : ask[a].list[s] = "active"} IN
     Over(a, [s \in Listed |-> IF s \in rolled THEN Listing(rolled, rows)[s] ELSE "none"])
  /\ UNCHANGED <<rolled, active, writes, loads, loading, cache>>

Next ==
  \/ \E s \in Listed : Creates(s) \/ ArchivesRow(s) \/ ArchivesFile(s)
  \/ \E l \in Loads : LoadRollouts(l) \/ LoadRows(l) \/ LoadFails(l)
  \/ \E a \in Asks : Ask(a, TRUE) \/ Ask(a, FALSE) \/ Answer(a) \/ AskDirect(a) \/ AnswerDirect(a)

Spec == Init /\ [][Next]_vars

-----------------------------------------------------------------------------
\* The answer to a request whose list was read for it shows as active each session that
\* was there all the while, and none that was not there at any time; the answers to a
\* request that joined another's load, and those from what was kept, may be older.
AsksSee ==
  \A a \in Asks :
    ask[a].how = "over" =>
      /\ \A s \in ask[a].there : ask[a].list[s] = "active"
      /\ \A s \in ask[a].absent : ask[a].list[s] = "none"
=============================================================================
