----------------------------- MODULE TopicsProofs -----------------------------
(***************************************************************************)
(* Proofs about Topics, for any sessions, any number of topics and faults: *)
(* a target has one active topic at most, a topic that was archived or     *)
(* found gone is never made active again, and a session keeps one open     *)
(* topic, which the row and state.json remember as its own.                *)
(***************************************************************************)
EXTENDS Topics, FiniteSetTheorems, TLAPS

Keys == {LegacyKey, CanonicalKey}

\* Who has a topic in hand that is not bound yet: a press, a session's /new, or
\* the creation record of a session, in memory or on disk.
Pressed(t)   == callback.pc = "made" /\ callback.topic = t
Newly(s, t)  == creation[s].pc = "made" /\ creation[s].topic = t
Noted(s, t)  == t \in {mem.unbound[s], disk.unbound[s]}

InHand(t) == Pressed(t) \/ \E s \in Sessions : Newly(s, t) \/ Noted(s, t)

\* state.json names it, in memory or on disk.
Named(t) == \E x \in Targets : t \in {mem.topic[x], disk.topic[x]}

Fresh(t) == route[t].status \in {"none", "unknown"}

\* Of a topic in hand there is no row, nobody else has it, and state.json does
\* not name it.
Alone(t) ==
  /\ Fresh(t) /\ ~Named(t)
  /\ \A s \in Sessions : Newly(s, t) \/ Noted(s, t) => ~Pressed(t)
  /\ \A s, q \in Sessions :
       /\ Newly(s, t) => ~Noted(q, t)
       /\ Newly(s, t) /\ Newly(q, t) => s = q
       /\ Noted(s, t) /\ Noted(q, t) => s = q

\* A topic that Telegram has not made is nobody's.
Unmade(t) ==
  /\ tg[t] = "none" /\ route[t].status = "none"
  /\ ~InHand(t) /\ ~Named(t) /\ t \notin torn
  /\ \A s \in Sessions : archive[s].topic # t

HandsRight ==
  /\ \A t \in Topics : t > made => Unmade(t)
  /\ \A t \in Topics : t \in torn => ~Pressed(t) /\ \A s \in Sessions : ~Newly(s, t)
  /\ \A t \in Topics \ torn : InHand(t) => Alone(t)
  /\ callback.pc \in {"probe", "made"} => callback.topic \in 1 .. made
  /\ callback.pc = "probe" => callback.topic \in torn \/ ~InHand(callback.topic)
  /\ \A s \in Sessions : creation[s].pc = "made" => creation[s].topic \in 1 .. made

\* A target has one active topic at most.
OneEach(r) == \A x \in Targets, k \in Keys : \A t, u \in Active(r, x, k) : t = u

\* The types, in groups.
CallbackRecord == [pc : {"idle", "probe", "asked", "made"}, to : Targets, topic : 0 .. MaxTopics]
CreationRecord == [pc : {"none", "asked", "made"}, key : Keys, topic : 0 .. MaxTopics]
ArchiveRecord == [pc : {"none", "source", "desktop", "topic"}, topic : 0 .. MaxTopics]

StoreTypes ==
  route \in [Topics -> Rows] /\ mem \in Storages /\ disk \in Storages

HandTypes ==
  /\ callback \in CallbackRecord /\ creation \in [Sessions -> CreationRecord]
  /\ archive \in [Sessions -> ArchiveRecord] /\ torn \subseteq Topics /\ made \in 0 .. MaxTopics
  /\ \A s \in Sessions : archive[s].pc = "topic" => archive[s].topic # NoTopic

GroupTypes ==
  /\ tg \in [Topics -> {"none", "open", "closed", "deleted"}]
  /\ madeFor \in [Topics -> Targets]
  /\ source \subseteq Sessions /\ cleanup \subseteq Sessions \cup {Agent}
  /\ faults \in 0 .. MaxFaults /\ lost \subseteq Topics /\ raced \subseteq Sessions

TopicsInv == StoreTypes /\ HandTypes /\ GroupTypes /\ HandsRight /\ OneEach(route)

\* The bounds are numbers, and no topic is numbered zero.
LEMMA Bounds ==
  /\ MaxTopics \in Nat /\ MaxFaults \in Nat /\ NoTopic \notin Topics
  /\ Topics = 1 .. MaxTopics /\ NoTopic = 0
  /\ Workspace \in Targets /\ Agent \in Targets /\ Sessions \subseteq Targets
  /\ Workspace \notin Sessions /\ Agent \notin Sessions /\ Agent # Workspace
BY TopicsAssumption DEF Topics, NoTopic, Targets

-----------------------------------------------------------------------------
(* The route store.                                                        *)

\* Rows are closed, and none becomes active or is found fresh again.
Closes(q, r, t) ==
  /\ q[t] \in Rows /\ q[t].to = r[t].to /\ q[t].key = r[t].key
  /\ q[t].status = r[t].status \/ (r[t].status = "active" /\ q[t].status \in {"archived", "invalid"})

\* A row closed is in the store of nobody new.
LEMMA ClosesOne ==
  ASSUME NEW r \in [Topics -> Rows], NEW q \in [Topics -> Rows], OneEach(r),
         \A t \in Topics : Closes(q, r, t)
  PROVE  OneEach(q)
BY DEF OneEach, Active, Closes, Rows

\* A topic is bound.
LEMMA UpsertIs ==
  ASSUME NEW r \in [Topics -> Rows], NEW t \in Topics, NEW x \in Targets, NEW key \in Keys
  PROVE  /\ Upsert(r, t, x, key) \in [Topics -> Rows]
         /\ Upsert(r, t, x, key)[t] = [to |-> x, key |-> key, status |-> "active"]
         /\ \A u \in Topics \ {t} : Closes(Upsert(r, t, x, key), r, u)
         /\ OneEach(r) => OneEach(Upsert(r, t, x, key))
<1> DEFINE q == Upsert(r, t, x, key)
           row == [to |-> x, key |-> key, status |-> "active"]
<1>1. /\ row \in Rows /\ row.to = x /\ row.key = key /\ row.status = "active"
  BY DEF Rows, Keys
<1>2. \A u \in Topics : /\ [r[u] EXCEPT !.status = "invalid"] \in Rows
                        /\ [r[u] EXCEPT !.status = "invalid"].to = r[u].to
                        /\ [r[u] EXCEPT !.status = "invalid"].key = r[u].key
                        /\ [r[u] EXCEPT !.status = "invalid"].status = "invalid"
  BY DEF Rows
<1>3. /\ DOMAIN q = Topics /\ q[t] = row
      /\ \A u \in Topics \ {t} :
           q[u] = IF u \in Active(r, x, key) THEN [r[u] EXCEPT !.status = "invalid"] ELSE r[u]
  BY DEF Upsert
<1>4. q \in [Topics -> Rows]
  <2>1. \A u \in Topics : q[u] \in Rows
    BY <1>1, <1>2, <1>3
  <2> QED BY <1>3, <2>1 DEF Upsert
<1>5. \A u \in Topics \ {t} : Closes(q, r, u)
  <2> SUFFICES ASSUME NEW u \in Topics \ {t}
               PROVE  Closes(q, r, u)
    OBVIOUS
  <2>1. CASE u \in Active(r, x, key)
    <3>1. r[u].status = "active"
      BY <2>1 DEF Active
    <3> QED BY <1>2, <1>3, <2>1, <3>1 DEF Closes
  <2>2. CASE u \notin Active(r, x, key)
    <3>1. q[u] = r[u] /\ r[u] \in Rows
      BY <1>3, <2>2
    <3> QED BY <3>1 DEF Closes
  <2> QED BY <2>1, <2>2
<1> HIDE DEF q, row
<1>6. ASSUME OneEach(r), NEW y \in Targets, NEW k \in Keys,
             NEW u \in Active(q, y, k), NEW v \in Active(q, y, k)
      PROVE  u = v
  <2>1. ASSUME NEW w \in Active(q, y, k)
        PROVE  /\ w \in Topics
               /\ w # t => w \in Active(r, y, k) /\ ~(y = x /\ k = key)
               /\ w = t => y = x /\ k = key
    <3>1. /\ w \in Topics /\ q[w].to = y /\ q[w].key = k /\ q[w].status = "active"
      BY <2>1 DEF Active
    <3>2. CASE w = t
      BY <1>1, <1>3, <3>1, <3>2
    <3>3. CASE w # t
      <4>1. /\ r[w] \in Rows /\ r[w].to = y /\ r[w].key = k /\ r[w].status = "active"
            /\ q[w].status # "invalid"
        BY <1>5, <3>1, <3>3 DEF Closes
      <4>2. r[w] = [to |-> y, key |-> k, status |-> "active"]
        BY <4>1 DEF Rows
      <4>3. w \in Active(r, y, k)
        BY <3>1, <4>2 DEF Active
      <4>4. w \notin Active(r, x, key)
        BY <1>2, <1>3, <3>1, <3>3, <4>1
      <4> QED BY <3>1, <3>3, <4>3, <4>4
    <3> QED BY <3>2, <3>3
  <2>2. CASE u = t \/ v = t
    BY <2>1, <2>2
  <2>3. CASE u # t /\ v # t
    BY <1>6, <2>1, <2>3 DEF OneEach
  <2> QED BY <2>2, <2>3
<1>7. OneEach(r) => OneEach(q)
  BY <1>6 DEF OneEach
<1> QED BY <1>3, <1>4, <1>5, <1>7 DEF q, row

\* A topic is archived, or found gone.
LEMMA ArchivedIs ==
  ASSUME NEW r \in [Topics -> Rows], NEW t \in 0 .. MaxTopics
  PROVE  /\ Archived(r, t) \in [Topics -> Rows]
         /\ \A u \in Topics : Closes(Archived(r, t), r, u)
<1>1. \A u \in Topics : /\ [r[u] EXCEPT !.status = "archived"] \in Rows
                        /\ [r[u] EXCEPT !.status = "archived"].to = r[u].to
                        /\ [r[u] EXCEPT !.status = "archived"].key = r[u].key
                        /\ [r[u] EXCEPT !.status = "archived"].status = "archived"
  BY DEF Rows
<1>2. CASE t # NoTopic /\ r[t].status = "active"
  <2>1. t \in Topics
    BY <1>2, Bounds
  <2>2. Archived(r, t) = [r EXCEPT ![t] = [r[t] EXCEPT !.status = "archived"]]
    BY <1>2 DEF Archived
  <2>3. Archived(r, t) \in [Topics -> Rows]
    BY <1>1, <2>1, <2>2
  <2>4. \A u \in Topics : Closes(Archived(r, t), r, u)
    BY <1>1, <1>2, <2>1, <2>2 DEF Closes
  <2> QED BY <2>3, <2>4
<1>3. CASE ~(t # NoTopic /\ r[t].status = "active")
  <2>1. Archived(r, t) = r
    BY <1>3 DEF Archived
  <2> QED BY <2>1 DEF Closes
<1> QED BY <1>2, <1>3

\* A topic found gone has no row that is active or fresh.
LEMMA InvalidatedIs ==
  ASSUME NEW r \in [Topics -> Rows], NEW t \in Topics
  PROVE  /\ Invalidated(r, t) \in [Topics -> Rows]
         /\ Invalidated(r, t)[t].status = "invalid"
         /\ \A u \in Topics \ {t} : Invalidated(r, t)[u] = r[u]
         /\ OneEach(r) => OneEach(Invalidated(r, t))
<1>1. /\ [r[t] EXCEPT !.status = "invalid"] \in Rows
      /\ [r[t] EXCEPT !.status = "invalid"].status = "invalid"
  BY DEF Rows
<1>2. Invalidated(r, t) = [r EXCEPT ![t] = [r[t] EXCEPT !.status = "invalid"]]
  BY DEF Invalidated
<1>3. /\ Invalidated(r, t) \in [Topics -> Rows]
      /\ Invalidated(r, t)[t].status = "invalid"
      /\ \A u \in Topics \ {t} : Invalidated(r, t)[u] = r[u]
  BY <1>1, <1>2
<1>4. \A x \in Targets, k \in Keys : Active(Invalidated(r, t), x, k) \subseteq Active(r, x, k)
  BY <1>3 DEF Active
<1> QED BY <1>3, <1>4 DEF OneEach

\* The routes filled up from a storage: only a topic without a row, which the
\* storage names for a target without one, becomes active.
LEMMA MigratedIs ==
  ASSUME NEW r \in [Topics -> Rows], NEW store \in Storages
  PROVE  /\ Migrated(r, store) \in [Topics -> Rows]
         /\ \A t \in Topics :
              \/ Migrated(r, store)[t] = r[t]
              \/ /\ r[t].status \in {"none", "unknown"}
                 /\ Migrated(r, store)[t].status = "active"
                 /\ Migrated(r, store)[t].to \in Targets
                 /\ store.topic[Migrated(r, store)[t].to] = t
                 /\ Migrated(r, store)[t].key = store.key
                 /\ Migratable(r, t, Migrated(r, store)[t].to, store.key)
         /\ OneEach(r) => OneEach(Migrated(r, store))
<1> DEFINE q == Migrated(r, store)
<1>0. store.key \in Keys /\ store.topic \in [Targets -> 0 .. MaxTopics]
  BY DEF Storages, Keys
<1>1. /\ DOMAIN q = Topics
      /\ \A t \in Topics :
           \/ q[t] = r[t]
           \/ \E x \in Targets : /\ store.topic[x] = t /\ Migratable(r, t, x, store.key)
                                 /\ q[t] = [to |-> x, key |-> store.key, status |-> "active"]
  <2>1. DOMAIN q = Topics
    BY DEF Migrated
  <2>2. ASSUME NEW t \in Topics
        PROVE  \/ q[t] = r[t]
               \/ \E x \in Targets : /\ store.topic[x] = t /\ Migratable(r, t, x, store.key)
                                     /\ q[t] = [to |-> x, key |-> store.key, status |-> "active"]
    <3> DEFINE P(x) == store.topic[x] = t /\ Migratable(r, t, x, store.key)
    <3>1. q[t] = IF \E x \in Targets : P(x)
                 THEN [to |-> CHOOSE x \in Targets : P(x), key |-> store.key, status |-> "active"]
                 ELSE r[t]
      BY DEF Migrated
    <3>2. CASE \E x \in Targets : P(x)
      <4>1. PICK x : x = CHOOSE y \in Targets : P(y)
        OBVIOUS
      <4>2. x \in Targets /\ P(x)
        BY <3>2, <4>1
      <4>3. q[t] = [to |-> x, key |-> store.key, status |-> "active"]
        BY <3>1, <3>2, <4>1
      <4> QED BY <4>2, <4>3
    <3>3. CASE ~\E x \in Targets : P(x)
      BY <3>1, <3>3
    <3> QED BY <3>2, <3>3
  <2> QED BY <2>1, <2>2
<1> HIDE DEF q
<1>2. ASSUME NEW t \in Topics, q[t] # r[t]
      PROVE  /\ q[t] \in Rows /\ r[t].status \in {"none", "unknown"}
             /\ q[t].status = "active" /\ q[t].to \in Targets /\ store.topic[q[t].to] = t
             /\ q[t].key = store.key /\ Migratable(r, t, q[t].to, store.key)
  <2>1. PICK x \in Targets : /\ store.topic[x] = t /\ Migratable(r, t, x, store.key)
                             /\ q[t] = [to |-> x, key |-> store.key, status |-> "active"]
    BY <1>1, <1>2
  <2>2. r[t].status \in {"none", "unknown"}
    BY <2>1 DEF Migratable
  <2>3. q[t] \in Rows /\ q[t].to = x /\ q[t].key = store.key /\ q[t].status = "active"
    BY <1>0, <2>1 DEF Rows, Keys
  <2> QED BY <2>1, <2>2, <2>3
<1>3. q \in [Topics -> Rows]
  <2>1. \A t \in Topics : q[t] \in Rows
    BY <1>2
  <2>2. q = [t \in Topics |-> q[t]]
    BY <1>1 DEF q, Migrated
  <2> QED BY <2>1, <2>2
<1>4. ASSUME OneEach(r), NEW x \in Targets, NEW k \in Keys,
             NEW t \in Active(q, x, k), NEW u \in Active(q, x, k)
      PROVE  t = u
  <2>1. /\ t \in Topics /\ u \in Topics /\ q[t].to = x /\ q[u].to = x
        /\ q[t].key = k /\ q[u].key = k
        /\ q[t] = [to |-> x, key |-> k, status |-> "active"]
        /\ q[u] = [to |-> x, key |-> k, status |-> "active"]
    BY DEF Active
  <2>2. ASSUME NEW v \in Topics, NEW w \in Topics, q[v] # r[v], q[w] = r[w],
               q[v].to = x, q[v].key = k, q[w] = [to |-> x, key |-> k, status |-> "active"]
        PROVE  FALSE
    <3>1. Migratable(r, v, x, k) /\ r[w].to = x /\ r[w].key = k /\ r[w].status = "active"
      BY <1>2, <2>2
    <3> QED BY <3>1 DEF Migratable
  <2>3. CASE q[t] = r[t] /\ q[u] = r[u]
    BY <1>4, <2>1, <2>3 DEF OneEach, Active
  <2>4. CASE q[t] # r[t] /\ q[u] # r[u]
    BY <1>2, <2>1, <2>4
  <2> QED BY <2>1, <2>2, <2>3, <2>4
<1>5. OneEach(r) => OneEach(q)
  BY <1>4 DEF OneEach
<1> QED BY <1>2, <1>3, <1>5 DEF q

\* The topic of a target is the one that is active.
LEMMA TopicIs ==
  ASSUME StoreTypes, NEW x \in Targets
  PROVE  /\ TopicOf(x) \in 0 .. MaxTopics /\ KeyOf(x) \in Keys
         /\ TopicOf(x) # NoTopic => /\ TopicOf(x) \in Topics
                                    /\ route[TopicOf(x)].status = "active"
<1>1. KeyOf(x) \in Keys
  BY DEF StoreTypes, Storages, KeyOf, Keys
<1>2. CASE Active(route, x, KeyOf(x)) = {}
  BY <1>1, <1>2, Bounds DEF TopicOf
<1>3. CASE Active(route, x, KeyOf(x)) # {}
  <2>1. TopicOf(x) \in Active(route, x, KeyOf(x))
    BY <1>3 DEF TopicOf
  <2>2. TopicOf(x) \in Topics /\ route[TopicOf(x)].status = "active"
    BY <2>1 DEF Active
  <2> QED BY <1>1, <2>2, Bounds
<1> QED BY <1>2, <1>3

-----------------------------------------------------------------------------
(* The storage.                                                            *)

\* A storage that names nothing new but b and has nothing new in hand.
Follows(n, m, b) ==
  /\ n \in Storages
  /\ \A x \in Targets : n.topic[x] \in {m.topic[x], NoTopic, b}
  /\ \A s \in Sessions : n.unbound[s] \in {m.unbound[s], NoTopic}

\* What the steps do to a storage, field by field.
LEMMA StoreSet ==
  ASSUME NEW m \in Storages
  PROVE  /\ \A s \in Sessions, v \in {"unknown", "active", "inactive", "archived"} :
              /\ [m EXCEPT !.local[s] = v] \in Storages
              /\ [m EXCEPT !.local[s] = v].topic = m.topic
              /\ [m EXCEPT !.local[s] = v].unbound = m.unbound
         /\ \A x \in Targets, t \in 0 .. MaxTopics :
              /\ [m EXCEPT !.topic[x] = t] \in Storages
              /\ [m EXCEPT !.topic[x] = t].topic = [m.topic EXCEPT ![x] = t]
              /\ [m EXCEPT !.topic[x] = t].unbound = m.unbound
         /\ \A s \in Sessions, t \in 0 .. MaxTopics :
              /\ [m EXCEPT !.unbound[s] = t] \in Storages
              /\ [m EXCEPT !.unbound[s] = t].topic = m.topic
              /\ [m EXCEPT !.unbound[s] = t].unbound = [m.unbound EXCEPT ![s] = t]
         /\ /\ [m EXCEPT !.key = CanonicalKey] \in Storages
            /\ [m EXCEPT !.key = CanonicalKey].topic = m.topic
            /\ [m EXCEPT !.key = CanonicalKey].unbound = m.unbound
<1>1. \A s \in Sessions, v \in {"unknown", "active", "inactive", "archived"} :
        /\ [m EXCEPT !.local[s] = v] \in Storages
        /\ [m EXCEPT !.local[s] = v].topic = m.topic
        /\ [m EXCEPT !.local[s] = v].unbound = m.unbound
  BY DEF Storages
<1>2. \A x \in Targets, t \in 0 .. MaxTopics :
        /\ [m EXCEPT !.topic[x] = t] \in Storages
        /\ [m EXCEPT !.topic[x] = t].topic = [m.topic EXCEPT ![x] = t]
        /\ [m EXCEPT !.topic[x] = t].unbound = m.unbound
  BY DEF Storages
<1>3. \A s \in Sessions, t \in 0 .. MaxTopics :
        /\ [m EXCEPT !.unbound[s] = t] \in Storages
        /\ [m EXCEPT !.unbound[s] = t].topic = m.topic
        /\ [m EXCEPT !.unbound[s] = t].unbound = [m.unbound EXCEPT ![s] = t]
  BY DEF Storages
<1>4. /\ [m EXCEPT !.key = CanonicalKey] \in Storages
      /\ [m EXCEPT !.key = CanonicalKey].topic = m.topic
      /\ [m EXCEPT !.key = CanonicalKey].unbound = m.unbound
  BY DEF Storages
<1> QED BY <1>1, <1>2, <1>3, <1>4

\* A binding names the topic it binds.
LEMMA BindsIs ==
  ASSUME StoreTypes, NEW t \in Topics, NEW x \in Targets, NEW key \in Keys,
         NEW store \in Storages, Binds(t, x, key, store),
         store.topic = mem.topic, \A s \in Sessions : store.unbound[s] \in {mem.unbound[s], NoTopic}
  PROVE  /\ StoreTypes' /\ Follows(mem', mem, t) /\ disk' = mem' /\ mem'.unbound = store.unbound
         /\ route' = Upsert(route, t, x, key)
<1>1. route' = Upsert(route, t, x, key) /\ disk' = mem'
  BY DEF Binds
<1>2. /\ mem' \in Storages /\ mem'.unbound = store.unbound
      /\ \A y \in Targets : mem'.topic[y] \in {mem.topic[y], t}
  <2>1. t \in 0 .. MaxTopics /\ mem.topic \in [Targets -> 0 .. MaxTopics]
    BY Bounds DEF StoreTypes, Storages
  <2>2. CASE x = Agent
    BY <2>1, <2>2 DEF Binds
  <2>3. CASE x # Agent
    <3>1. mem' = [store EXCEPT !.topic[x] = t]
      BY <2>3 DEF Binds
    <3>2. mem' \in Storages /\ mem'.topic = [store.topic EXCEPT ![x] = t] /\ mem'.unbound = store.unbound
      <4>1. \A y \in Targets, u \in 0 .. MaxTopics :
              /\ [store EXCEPT !.topic[y] = u] \in Storages
              /\ [store EXCEPT !.topic[y] = u].topic = [store.topic EXCEPT ![y] = u]
              /\ [store EXCEPT !.topic[y] = u].unbound = store.unbound
        BY StoreSet
      <4> QED BY <2>1, <3>1, <4>1
    <3> QED BY <2>1, <3>2
  <2> QED BY <2>2, <2>3
<1>3. route' \in [Topics -> Rows]
  BY <1>1, UpsertIs DEF StoreTypes
<1> QED BY <1>1, <1>2, <1>3 DEF StoreTypes, Follows

-----------------------------------------------------------------------------
(* Topics in hand.                                                         *)

\* The general step: nothing is taken in hand, and at most one topic, which is in
\* nobody's hand afterwards, is named and gets a row.
LEMMA HandsKept ==
  ASSUME StoreTypes, HandTypes, HandsRight, made' = made,
         NEW b \in 0 .. made,
         mem' = disk \/ Follows(mem', mem, b), disk' = disk \/ disk' = mem',
         torn \subseteq torn', torn' \subseteq torn \cup {b},
         b \in Topics \ torn' => ~InHand(b)',
         b \in torn' \ torn => ~Pressed(b)' /\ \A s \in Sessions : ~Newly(s, b)',
         \A t \in Topics :
           /\ Pressed(t)' => Pressed(t)
           /\ \A s \in Sessions : Newly(s, t)' => Newly(s, t)
           /\ t > made => /\ tg'[t] = "none" /\ route'[t].status = "none"
                          /\ \A s \in Sessions : archive'[s].topic # t
           /\ Fresh(t) => Fresh(t)' \/ t = b \/ Named(t) \/ ~InHand(t) \/ t \in torn,
         \/ callback'.pc \in {"idle", "asked"} \/ callback' = callback
         \/ callback'.pc = "probe" /\ callback'.topic \in 1 .. made /\ ~Fresh(callback'.topic),
         \A s \in Sessions : creation'[s].pc = "made" => creation'[s] = creation[s]
  PROVE  HandsRight'
<1>0. /\ NoTopic \notin Topics /\ Topics = 1 .. MaxTopics /\ made \in 0 .. MaxTopics /\ MaxTopics \in Nat
      /\ \A t \in Topics : t > made => Unmade(t) /\ t # b
      /\ \A t \in Topics \ torn : InHand(t) => Alone(t)
  BY Bounds DEF HandTypes, HandsRight
<1>1. \A t \in Topics, s \in Sessions : Noted(s, t)' => Noted(s, t)
  <2> SUFFICES ASSUME NEW t \in Topics, NEW s \in Sessions, Noted(s, t)'
               PROVE  Noted(s, t)
    OBVIOUS
  <2>1. t # NoTopic /\ t \in {mem'.unbound[s], disk'.unbound[s]}
    BY <1>0 DEF Noted
  <2> QED BY <2>1 DEF Noted, Follows
<1>2. \A t \in Topics : Named(t)' => Named(t) \/ t = b
  <2> SUFFICES ASSUME NEW t \in Topics, Named(t)'
               PROVE  Named(t) \/ t = b
    OBVIOUS
  <2>1. PICK x \in Targets : t # NoTopic /\ t \in {mem'.topic[x], disk'.topic[x]}
    BY <1>0 DEF Named
  <2> QED BY <2>1 DEF Named, Follows
<1>3. \A t \in Topics : InHand(t)' => InHand(t)
  BY <1>1 DEF InHand
<1>4. ASSUME NEW t \in Topics, t > made'
      PROVE  Unmade(t)'
  BY <1>0, <1>2, <1>3, <1>4 DEF Unmade
<1>5. ASSUME NEW t \in Topics, t \in torn'
      PROVE  ~Pressed(t)' /\ \A s \in Sessions : ~Newly(s, t)'
  BY <1>5 DEF HandsRight
<1>6. ASSUME NEW t \in Topics, t \notin torn', InHand(t)'
      PROVE  Alone(t)'
  <2>1. t \notin torn /\ InHand(t) /\ t # b
    BY <1>3, <1>6
  <2>2. Alone(t)
    BY <1>0, <2>1
  <2>3. Fresh(t)' /\ ~Named(t)'
    BY <1>2, <2>1, <2>2 DEF Alone
  <2> QED BY <1>1, <2>2, <2>3 DEF Alone
<1>7. callback'.pc \in {"probe", "made"} => callback'.topic \in 1 .. made'
  BY DEF HandsRight
<1>8. (callback.pc = "probe" => callback.topic \in torn \/ ~InHand(callback.topic))'
  <2> SUFFICES ASSUME callback'.pc = "probe"
               PROVE  (callback.topic \in torn \/ ~InHand(callback.topic))'
    OBVIOUS
  <2>1. PICK t : t = callback'.topic
    OBVIOUS
  <2>2. t \in 1 .. made /\ t \in Topics
    BY <1>0, <1>7, <2>1
  <2>3. t \in torn \/ ~InHand(t)
    <3>1. CASE callback' = callback
      BY <2>1, <3>1 DEF HandsRight
    <3>2. CASE ~Fresh(callback'.topic)
      BY <1>0, <2>1, <2>2, <3>2 DEF Alone
    <3> QED BY <3>1, <3>2
  <2>4. t \in torn' \/ ~InHand(t)'
    BY <1>3, <2>2, <2>3
  <2> QED BY <2>1, <2>4 DEF InHand
<1>9. \A s \in Sessions : creation'[s].pc = "made" => creation'[s].topic \in 1 .. made'
  BY DEF HandsRight
<1> QED BY <1>4, <1>5, <1>6, <1>7, <1>8, <1>9 DEF HandsRight

-----------------------------------------------------------------------------
(* Steps that bind nothing.                                                *)

\* What was archived or found gone does not become active.
StaysClosed ==
  \A t \in Topics \ torn :
    route[t].status \in {"archived", "invalid"} => route'[t].status # "active"

\* The rows of a step that binds nothing.
RowsMove ==
  /\ route' \in [Topics -> Rows] /\ OneEach(route')
  /\ \A t \in Topics :
       /\ t > made => route'[t].status = "none"
       /\ Fresh(t) => Fresh(t)' \/ ~InHand(t) \/ t \in torn
       /\ route'[t].status = "active" => route[t].status = "active"

\* What a press or a probe leaves of the press that is handled.
CallbackMoves ==
  /\ callback' \in CallbackRecord
  /\ \/ callback'.pc \in {"idle", "asked"} \/ callback' = callback
     \/ callback'.pc = "probe" /\ callback'.topic \in 1 .. made /\ ~Fresh(callback'.topic)

\* Nobody's /new has a topic it did not have, and no topic that was not made is
\* archived.
CreationMoves ==
  /\ creation' \in [Sessions -> CreationRecord]
  /\ \A s \in Sessions : creation'[s].pc = "made" => creation'[s] = creation[s]

ArchiveMoves ==
  /\ archive' \in [Sessions -> ArchiveRecord]
  /\ \A s \in Sessions : /\ archive'[s].topic = archive[s].topic \/ archive'[s].topic <= made
                         /\ archive'[s].pc = "topic" => archive'[s].topic # NoTopic

HandsMove == CallbackMoves /\ CreationMoves /\ ArchiveMoves

\* The rows may stay, or be closed.
LEMMA RowsClose ==
  ASSUME TopicsInv,
         \/ route' = route
         \/ route' \in [Topics -> Rows] /\ \A t \in Topics : Closes(route', route, t)
  PROVE  RowsMove
<1>1. route \in [Topics -> Rows] /\ OneEach(route)
      /\ \A t \in Topics : t > made => route[t].status = "none"
  BY DEF TopicsInv, StoreTypes, HandsRight, Unmade
<1>2. CASE route' = route
  BY <1>1, <1>2 DEF RowsMove, Fresh
<1>3. CASE route' \in [Topics -> Rows] /\ \A t \in Topics : Closes(route', route, t)
  <2>1. OneEach(route')
    BY <1>1, <1>3, ClosesOne
  <2> QED BY <1>1, <1>3, <2>1 DEF RowsMove, Fresh, Closes
<1> QED BY <1>2, <1>3

\* Where the press, the commands and the archiving stay as they are.
LEMMA HandsStay ==
  ASSUME TopicsInv
  PROVE  /\ UNCHANGED callback => CallbackMoves
         /\ UNCHANGED creation => CreationMoves
         /\ UNCHANGED archive => ArchiveMoves
BY DEF TopicsInv, HandTypes, CallbackMoves, CreationMoves, ArchiveMoves

\* A step that binds nothing and makes nothing.
LEMMA Plain ==
  ASSUME TopicsInv, UNCHANGED <<made, torn>>, RowsMove, HandsMove, GroupTypes',
         Follows(mem', mem, NoTopic), disk' = disk \/ disk' = mem',
         \A t \in Topics : t > made => tg'[t] = "none"
  PROVE  TopicsInv' /\ StaysClosed
<1>1. NoTopic \in 0 .. made /\ NoTopic \notin Topics /\ made \in 0 .. MaxTopics /\ MaxTopics \in Nat
      /\ Topics = 1 .. MaxTopics /\ NoTopic = 0
  BY Bounds DEF TopicsInv, HandTypes
<1>2. \A t \in Topics : t > made => \A s \in Sessions : archive'[s].topic # t
  BY <1>1 DEF TopicsInv, HandsRight, Unmade, HandsMove, ArchiveMoves
<1>3. \A t \in Topics : /\ Pressed(t)' => Pressed(t)
                        /\ \A s \in Sessions : Newly(s, t)' => Newly(s, t)
  BY DEF HandsMove, CallbackMoves, CreationMoves, ArchiveMoves, Pressed, Newly
<1>4. HandsRight'
  BY <1>1, <1>2, <1>3, HandsKept DEF TopicsInv, RowsMove, HandsMove, CallbackMoves, CreationMoves, ArchiveMoves
<1>5. StoreTypes'
  BY DEF TopicsInv, StoreTypes, RowsMove, Follows
<1>6. HandTypes'
  BY DEF TopicsInv, HandTypes, HandsMove, CallbackMoves, CreationMoves, ArchiveMoves
<1>7. OneEach(route)'
  BY DEF RowsMove, OneEach, Active
<1>8. StaysClosed
  BY DEF StaysClosed, RowsMove
<1> QED BY <1>4, <1>5, <1>6, <1>7, <1>8 DEF TopicsInv

\* A topic that is active was made, and is in nobody's hand.
LEMMA ActiveIsMade ==
  ASSUME TopicsInv, NEW t \in Topics, ~Fresh(t)
  PROVE  t \in 1 .. made /\ (t \in torn \/ ~InHand(t))
<1>1. made \in 0 .. MaxTopics /\ Topics = 1 .. MaxTopics /\ MaxTopics \in Nat
  BY Bounds DEF TopicsInv, HandTypes
<1>2. t \in 1 .. made
  BY <1>1 DEF TopicsInv, HandsRight, Unmade, Fresh
<1>3. t \in torn \/ ~InHand(t)
  BY DEF TopicsInv, HandsRight, Alone
<1> QED BY <1>2, <1>3

\* A press starts with the topic that is active.
LEMMA PressIs == ASSUME TopicsInv, NEW x \in Targets, Presses(x) PROVE CallbackMoves
<1>1. /\ TopicOf(x) \in 0 .. MaxTopics
      /\ TopicOf(x) # NoTopic => TopicOf(x) \in 1 .. made /\ ~Fresh(TopicOf(x))
  BY TopicIs, ActiveIsMade DEF TopicsInv, Fresh
<1>2. CASE TopicOf(x) # NoTopic
  <2>1. callback' = [pc |-> "probe", to |-> x, topic |-> TopicOf(x)]
    BY <1>2 DEF Presses
  <2>2. /\ callback' \in CallbackRecord /\ callback'.pc = "probe" /\ callback'.topic = TopicOf(x)
    BY <1>1, <2>1 DEF CallbackRecord
  <2> QED BY <1>1, <1>2, <2>2 DEF CallbackMoves
<1>3. CASE TopicOf(x) = NoTopic
  <2>1. callback' = [pc |-> "asked", to |-> x, topic |-> NoTopic]
    BY <1>3 DEF Presses
  <2>2. /\ callback' \in CallbackRecord /\ callback'.pc = "asked"
    BY <2>1, Bounds DEF CallbackRecord
  <2> QED BY <2>2 DEF CallbackMoves
<1> QED BY <1>2, <1>3

\* What a step that binds nothing may do to the storage.
LEMMA StoreMoves ==
  ASSUME TopicsInv
  PROVE  /\ Follows(mem, mem, NoTopic)
         /\ \A s \in Sessions, v \in {"unknown", "active", "inactive", "archived"} :
              Follows([mem EXCEPT !.local[s] = v], mem, NoTopic)
         /\ \A x \in Targets : Follows([mem EXCEPT !.topic[x] = NoTopic], mem, NoTopic)
         /\ \A s \in Sessions : Follows([mem EXCEPT !.unbound[s] = NoTopic], mem, NoTopic)
<1>1. mem \in Storages /\ NoTopic \in 0 .. MaxTopics
  BY Bounds DEF TopicsInv, StoreTypes
<1>2. mem.topic \in [Targets -> 0 .. MaxTopics] /\ mem.unbound \in [Sessions -> 0 .. MaxTopics]
  BY <1>1 DEF Storages
<1>3. /\ \A s \in Sessions, v \in {"unknown", "active", "inactive", "archived"} :
           /\ [mem EXCEPT !.local[s] = v] \in Storages
           /\ [mem EXCEPT !.local[s] = v].topic = mem.topic
           /\ [mem EXCEPT !.local[s] = v].unbound = mem.unbound
      /\ \A x \in Targets :
           /\ [mem EXCEPT !.topic[x] = NoTopic] \in Storages
           /\ [mem EXCEPT !.topic[x] = NoTopic].topic = [mem.topic EXCEPT ![x] = NoTopic]
           /\ [mem EXCEPT !.topic[x] = NoTopic].unbound = mem.unbound
      /\ \A s \in Sessions :
           /\ [mem EXCEPT !.unbound[s] = NoTopic] \in Storages
           /\ [mem EXCEPT !.unbound[s] = NoTopic].topic = mem.topic
           /\ [mem EXCEPT !.unbound[s] = NoTopic].unbound = [mem.unbound EXCEPT ![s] = NoTopic]
  <2>1. \A s \in Sessions, v \in {"unknown", "active", "inactive", "archived"} :
          /\ [mem EXCEPT !.local[s] = v] \in Storages
          /\ [mem EXCEPT !.local[s] = v].topic = mem.topic
          /\ [mem EXCEPT !.local[s] = v].unbound = mem.unbound
    BY <1>1, StoreSet
  <2>2. \A x \in Targets, t \in 0 .. MaxTopics :
          /\ [mem EXCEPT !.topic[x] = t] \in Storages
          /\ [mem EXCEPT !.topic[x] = t].topic = [mem.topic EXCEPT ![x] = t]
          /\ [mem EXCEPT !.topic[x] = t].unbound = mem.unbound
    BY <1>1, StoreSet
  <2>3. \A s \in Sessions, t \in 0 .. MaxTopics :
          /\ [mem EXCEPT !.unbound[s] = t] \in Storages
          /\ [mem EXCEPT !.unbound[s] = t].topic = mem.topic
          /\ [mem EXCEPT !.unbound[s] = t].unbound = [mem.unbound EXCEPT ![s] = t]
    BY <1>1, StoreSet
  <2> QED BY <1>1, <2>1, <2>2, <2>3
<1>4. Follows(mem, mem, NoTopic)
  BY <1>1 DEF Follows
<1>5. \A s \in Sessions, v \in {"unknown", "active", "inactive", "archived"} :
        Follows([mem EXCEPT !.local[s] = v], mem, NoTopic)
  BY <1>3 DEF Follows
<1>6. \A x \in Targets : Follows([mem EXCEPT !.topic[x] = NoTopic], mem, NoTopic)
  BY <1>2, <1>3 DEF Follows
<1>7. \A s \in Sessions : Follows([mem EXCEPT !.unbound[s] = NoTopic], mem, NoTopic)
  BY <1>2, <1>3 DEF Follows
<1> QED BY <1>4, <1>5, <1>6, <1>7

\* The topic of a target may be archived.
LEMMA RowsArchive ==
  ASSUME TopicsInv, NEW t \in 0 .. MaxTopics, route' = Archived(route, t)
  PROVE  RowsMove
<1>1. route' \in [Topics -> Rows] /\ \A u \in Topics : Closes(route', route, u)
  BY ArchivedIs DEF TopicsInv, StoreTypes
<1> QED BY <1>1, RowsClose

\* A topic that is active was made.
LEMMA TopicMade ==
  ASSUME TopicsInv, NEW x \in Targets
  PROVE  /\ TopicOf(x) \in 0 .. MaxTopics /\ TopicOf(x) <= made
         /\ TopicOf(x) # NoTopic => ~Fresh(TopicOf(x)) /\ TopicOf(x) \in Topics
<1>1. TopicOf(x) \in 0 .. MaxTopics /\ made \in 0 .. MaxTopics /\ MaxTopics \in Nat /\ NoTopic = 0
  BY TopicIs, Bounds DEF TopicsInv, HandTypes
<1>2. TopicOf(x) # NoTopic => ~Fresh(TopicOf(x)) /\ TopicOf(x) \in Topics
  BY TopicIs DEF TopicsInv, Fresh
<1>3. TopicOf(x) # NoTopic => TopicOf(x) \in 1 .. made
  BY <1>2, ActiveIsMade
<1> QED BY <1>1, <1>2, <1>3

-----------------------------------------------------------------------------
(* The steps that bind nothing, one by one.                                *)

\* A topic that is not made is none in the group.
LEMMA TgStays == ASSUME TopicsInv PROVE \A t \in Topics : t > made => tg[t] = "none"
BY DEF TopicsInv, HandsRight, Unmade

\* The archiving of a session comes to its topic, or to its end.
LEMMA ArchivingIs ==
  ASSUME TopicsInv, NEW s \in Sessions,
         \/ /\ TopicOf(s) # NoTopic
            /\ archive' = [archive EXCEPT ![s] = [pc |-> "topic", topic |-> TopicOf(s)]]
         \/ archive' = [archive EXCEPT ![s] = Done]
  PROVE  ArchiveMoves
<1>1. /\ TopicOf(s) \in 0 .. MaxTopics /\ TopicOf(s) <= made
      /\ made \in 0 .. MaxTopics /\ MaxTopics \in Nat /\ NoTopic = 0
  BY TopicMade, Bounds DEF TopicsInv, HandTypes
<1>2. PICK row \in ArchiveRecord :
        /\ archive' = [archive EXCEPT ![s] = row] /\ row.topic <= made
        /\ row.pc = "topic" => row.topic # NoTopic
  <2>1. CASE archive' = [archive EXCEPT ![s] = Done]
    <3>1. Done \in ArchiveRecord /\ Done.pc = "none" /\ Done.topic = 0
      BY <1>1 DEF Done, ArchiveRecord
    <3>2. Done.topic <= made /\ (Done.pc = "topic" => Done.topic # NoTopic)
      BY <1>1, <3>1
    <3> QED BY <2>1, <3>1, <3>2
  <2>2. CASE /\ TopicOf(s) # NoTopic
             /\ archive' = [archive EXCEPT ![s] = [pc |-> "topic", topic |-> TopicOf(s)]]
    <3>1. PICK row : row = [pc |-> "topic", topic |-> TopicOf(s)]
      OBVIOUS
    <3>2. row \in ArchiveRecord /\ row.topic = TopicOf(s)
      BY <1>1, <3>1 DEF ArchiveRecord
    <3> QED BY <1>1, <2>2, <3>1, <3>2
  <2> QED BY <2>1, <2>2
<1>3. /\ archive \in [Sessions -> ArchiveRecord]
      /\ \A q \in Sessions : archive[q].pc = "topic" => archive[q].topic # NoTopic
  BY DEF TopicsInv, HandTypes
<1> QED BY <1>2, <1>3 DEF ArchiveMoves

\* Startup looks at a session.
LEMMA LooksKeeps ==
  ASSUME TopicsInv, NEW s \in Sessions, Looks(s) PROVE TopicsInv' /\ StaysClosed
<1>1. UNCHANGED <<made, torn, tg, madeFor, source, callback, creation, faults, lost, raced>>
  BY DEF Looks, noted
<1>2. s \in Targets /\ TopicOf(s) \in 0 .. MaxTopics /\ TopicOf(s) <= made
  BY TopicMade, Bounds
<1>3. RowsMove /\ ArchiveMoves /\ Follows(mem', mem, NoTopic) /\ (disk' = disk \/ disk' = mem')
      /\ cleanup' \subseteq Sessions \cup {Agent}
  <2>1. CASE mem.local[s] # "archived" /\ s \in source /\ TopicOf(s) # NoTopic
    <3>1. /\ mem' = [mem EXCEPT !.local[s] = "archived"] /\ disk' = mem'
          /\ route' = Archived(route, TopicOf(s))
          /\ archive' = [archive EXCEPT ![s] = [pc |-> "topic", topic |-> TopicOf(s)]]
          /\ cleanup' = cleanup
      BY <2>1 DEF Looks
    <3>2. Follows(mem', mem, NoTopic)
      BY <3>1, StoreMoves
    <3>3. RowsMove
      BY <1>2, <3>1, RowsArchive
    <3>4. ArchiveMoves
      BY <2>1, <3>1, ArchivingIs
    <3> QED BY <3>1, <3>2, <3>3, <3>4 DEF TopicsInv, GroupTypes
  <2>2. CASE ~(mem.local[s] # "archived" /\ s \in source /\ TopicOf(s) # NoTopic)
    <3>1. /\ mem' = IF mem.local[s] = "archived" THEN mem
                    ELSE [mem EXCEPT !.local[s] = IF s \in source THEN "inactive" ELSE "active"]
          /\ cleanup' = cleanup \ {s} /\ disk' = disk /\ route' = route /\ archive' = archive
      BY <2>2 DEF Looks
    <3>2. Follows(mem', mem, NoTopic)
      BY <3>1, StoreMoves
    <3> QED BY <3>1, <3>2, RowsClose, HandsStay DEF TopicsInv, GroupTypes
  <2> QED BY <2>1, <2>2
<1>4. HandsMove
  BY <1>1, <1>3, HandsStay DEF HandsMove
<1>5. GroupTypes'
  BY <1>1, <1>3 DEF TopicsInv, GroupTypes
<1> QED BY <1>1, <1>3, <1>4, <1>5, TgStays, Plain

\* What a /new that asks for its topic is.
LEMMA AskedIs ==
  ASSUME TopicsInv, NEW s \in Sessions
  PROVE  Asked(s) \in CreationRecord /\ Asked(s).pc = "asked"
<1>1. mem.key \in Keys /\ CanonicalKey \in Keys
  BY DEF TopicsInv, StoreTypes, Storages, Keys
<1>2. NoTopic \in 0 .. MaxTopics
  BY Bounds
<1>3. None \in CreationRecord
  BY <1>1, <1>2 DEF None, CreationRecord
<1> QED BY <1>1, <1>3 DEF Asked, CreationRecord

\* /new registers the session.
LEMMA NewKeeps ==
  ASSUME TopicsInv, NEW s \in Sessions, New(s) PROVE TopicsInv' /\ StaysClosed
<1>1. UNCHANGED <<tg, madeFor, made, route, source, callback, archive, cleanup, faults, lost,
                  raced, torn>>
  BY DEF New, noted
<1>2. Follows(mem', mem, NoTopic) /\ disk' = mem'
  BY StoreMoves DEF New
<1>3. CreationMoves
  <2>1. creation' = [creation EXCEPT ![s] = Asked(s)]
    BY DEF New
  <2>2. Asked(s) \in CreationRecord /\ Asked(s).pc = "asked"
    BY AskedIs
  <2> QED BY <2>1, <2>2 DEF CreationMoves, TopicsInv, HandTypes
<1>4. HandsMove
  BY <1>1, <1>3, HandsStay DEF HandsMove
<1> QED BY <1>1, <1>2, <1>4, RowsClose, TgStays, Plain DEF TopicsInv, GroupTypes

\* --resume of a session that has its topic, or for which one is asked for.
LEMMA ResumeKeeps ==
  ASSUME TopicsInv, NEW s \in Sessions, Resume(s), ~Rebinds(s)
  PROVE  TopicsInv' /\ StaysClosed
<1>1. UNCHANGED <<tg, madeFor, made, source, callback, archive, cleanup, faults, torn>>
  BY DEF Resume
<1>2. /\ route' = route /\ Follows(mem', mem, NoTopic) /\ (disk' = disk \/ disk' = mem')
      /\ CreationMoves /\ lost' \subseteq Topics /\ raced' \subseteq Sessions
  <2>1. CASE TopicOf(s) # NoTopic
    <3>1. /\ mem' = [mem EXCEPT !.unbound[s] = NoTopic]
          /\ lost' = lost \cup ({mem.unbound[s]} \ {NoTopic, TopicOf(s)})
          /\ UNCHANGED <<route, disk, creation, raced>>
      BY <2>1 DEF Resume
    <3>2. mem.unbound[s] \in 0 .. MaxTopics
      BY DEF TopicsInv, StoreTypes, Storages
    <3>3. lost' \subseteq Topics /\ raced' \subseteq Sessions
      BY <3>1, <3>2, Bounds DEF TopicsInv, GroupTypes
    <3>4. Follows(mem', mem, NoTopic)
      BY <3>1, StoreMoves
    <3> QED BY <3>1, <3>3, <3>4, HandsStay
  <2>2. CASE TopicOf(s) = NoTopic
    <3>1. /\ creation' = [creation EXCEPT ![s] = Asked(s)]
          /\ raced' = IF Opening(s) THEN raced \cup {s} ELSE raced
          /\ UNCHANGED <<route, mem, disk, lost>>
      BY <2>2 DEF Resume, Rebinds
    <3>2. CreationMoves
      BY <3>1, AskedIs DEF CreationMoves, TopicsInv, HandTypes
    <3>3. Follows(mem', mem, NoTopic)
      BY <3>1, StoreMoves
    <3> QED BY <3>1, <3>2, <3>3 DEF TopicsInv, GroupTypes
  <2> QED BY <2>1, <2>2
<1>3. HandsMove
  BY <1>1, <1>2, HandsStay DEF HandsMove
<1>4. GroupTypes'
  BY <1>1, <1>2 DEF TopicsInv, GroupTypes
<1> QED BY <1>1, <1>2, <1>3, <1>4, RowsClose, TgStays, Plain

\* A step that leaves rows, storage and the group as they are.
LEMMA Still ==
  ASSUME TopicsInv, UNCHANGED <<tg, madeFor, made, route, mem, disk, torn>>, HandsMove,
         source' \subseteq Sessions, cleanup' \subseteq Sessions \cup {Agent},
         faults' \in 0 .. MaxFaults, lost' \subseteq Topics, raced' \subseteq Sessions
  PROVE  TopicsInv' /\ StaysClosed
<1>1. Follows(mem', mem, NoTopic)
  BY StoreMoves
<1>2. GroupTypes'
  BY DEF TopicsInv, GroupTypes
<1> QED BY <1>1, <1>2, RowsClose, TgStays, Plain

\* A fault is counted.
LEMMA FaultIs == ASSUME TopicsInv, Fault PROVE faults' \in 0 .. MaxFaults
BY Bounds DEF TopicsInv, GroupTypes, Fault

\* A press of a button.
LEMMA PressKeeps ==
  ASSUME TopicsInv,
         OpenAgent \/ LooksForAgent \/ \E s \in Sessions : OpenThread(s)
  PROVE  TopicsInv' /\ StaysClosed
<1>1. /\ UNCHANGED <<tg, madeFor, made, route, mem, disk, source, creation, archive, cleanup,
                     faults, lost, torn>>
      /\ raced' \subseteq Sessions
  BY DEF OpenAgent, LooksForAgent, OpenThread, noted, TopicsInv, GroupTypes
<1>2. CallbackMoves
  <2>1. CASE OpenAgent
    <3>1. callback' = [pc |-> "asked", to |-> Agent, topic |-> NoTopic]
      BY <2>1 DEF OpenAgent
    <3> QED BY <3>1, Bounds DEF CallbackMoves, CallbackRecord
  <2>2. CASE LooksForAgent \/ \E s \in Sessions : OpenThread(s)
    BY <2>2, PressIs, Bounds DEF LooksForAgent, OpenThread
  <2> QED BY <2>1, <2>2
<1>3. HandsMove
  BY <1>1, <1>2, HandsStay DEF HandsMove
<1> QED BY <1>1, <1>3, Still DEF TopicsInv, GroupTypes

\* The press is over.
LEMMA EndsIs ==
  ASSUME TopicsInv, Ends PROVE CallbackMoves /\ cleanup' \subseteq Sessions \cup {Agent}
<1>1. callback' = Idle /\ cleanup' = cleanup \ {callback.to}
  BY DEF Ends
<1>2. Idle \in CallbackRecord /\ Idle.pc = "idle"
  BY Bounds DEF Idle, CallbackRecord
<1> QED BY <1>1, <1>2 DEF CallbackMoves, TopicsInv, GroupTypes

\* The topic is there; or it is not made, or not bound.
LEMMA PressEnds ==
  ASSUME TopicsInv, ProbeFound \/ PressFails PROVE TopicsInv' /\ StaysClosed
<1>1. /\ Ends
      /\ UNCHANGED <<tg, madeFor, made, route, mem, disk, source, creation, archive, torn, raced>>
      /\ faults' \in 0 .. MaxFaults
  BY FaultIs DEF ProbeFound, PressFails, noted, TopicsInv, GroupTypes
<1>2. lost' \subseteq Topics
  <2>1. callback.topic \in 0 .. MaxTopics
    BY DEF TopicsInv, HandTypes, CallbackRecord
  <2>2. lost' = lost \/ lost' = lost \cup ({callback.topic} \ {NoTopic})
    BY DEF ProbeFound, PressFails
  <2>3. callback.topic \in Topics \cup {NoTopic} /\ lost \subseteq Topics
    BY <2>1, Bounds DEF TopicsInv, GroupTypes
  <2> QED BY <2>2, <2>3
<1>3. HandsMove
  BY <1>1, EndsIs, HandsStay DEF HandsMove
<1> QED BY <1>1, <1>2, <1>3, EndsIs, Still DEF TopicsInv, GroupTypes

\* A probe that finds the topic gone.
LEMMA ProbeMissingKeeps ==
  ASSUME TopicsInv, ProbeMissing PROVE TopicsInv' /\ StaysClosed
<1>1. /\ callback.pc = "probe" /\ route' = Invalidated(route, callback.topic)
      /\ UNCHANGED <<tg, madeFor, made, source, creation, archive, faults, lost, raced, torn>>
  BY DEF ProbeMissing, noted
<1>2. PICK t : t = callback.topic
  OBVIOUS
<1>3. t \in Topics /\ t <= made /\ (t \in torn \/ ~InHand(t))
  BY <1>1, <1>2, Bounds DEF TopicsInv, HandTypes, HandsRight
<1>4. RowsMove
  <2>1. route' = Invalidated(route, t) /\ route \in [Topics -> Rows] /\ OneEach(route)
        /\ made \in Nat /\ Topics \subseteq Nat
    BY <1>1, <1>2, Bounds DEF TopicsInv, StoreTypes, HandTypes
  <2>2. /\ route' \in [Topics -> Rows] /\ route'[t].status = "invalid" /\ OneEach(route')
        /\ \A u \in Topics \ {t} : route'[u] = route[u]
    BY <1>3, <2>1, InvalidatedIs
  <2>3. \A u \in Topics : u > made => route[u].status = "none" /\ u # t
    BY <1>3, <2>1 DEF TopicsInv, HandsRight, Unmade
  <2> QED BY <1>3, <2>2, <2>3 DEF RowsMove, Fresh
<1>5. /\ CallbackMoves /\ cleanup' \subseteq Sessions \cup {Agent}
      /\ Follows(mem', mem, NoTopic) /\ (disk' = disk \/ disk' = mem')
  <2>1. CASE /\ callback.to \in Sessions /\ TopicOf(Workspace) # NoTopic
             /\ tg[TopicOf(Workspace)] = "deleted"
    <3>1. Ends /\ UNCHANGED <<mem, disk>>
      BY <2>1 DEF ProbeMissing
    <3> QED BY <3>1, EndsIs, StoreMoves
  <2>2. CASE ~(/\ callback.to \in Sessions /\ TopicOf(Workspace) # NoTopic
               /\ tg[TopicOf(Workspace)] = "deleted")
    <3>1. /\ callback' = [callback EXCEPT !.pc = "asked", !.topic = NoTopic]
          /\ mem' = IF callback.to \in Sessions THEN [mem EXCEPT !.topic[callback.to] = NoTopic]
                    ELSE mem
          /\ disk' = IF callback.to \in Sessions THEN mem' ELSE disk
          /\ UNCHANGED cleanup
      BY <2>2 DEF ProbeMissing
    <3>2. callback' \in CallbackRecord /\ callback'.pc = "asked"
      <4>1. callback \in CallbackRecord /\ NoTopic \in 0 .. MaxTopics
        BY Bounds DEF TopicsInv, HandTypes
      <4> QED BY <3>1, <4>1 DEF CallbackRecord
    <3>3. Follows(mem', mem, NoTopic)
      BY <3>1, StoreMoves, Bounds
    <3> QED BY <3>1, <3>2, <3>3 DEF CallbackMoves, TopicsInv, GroupTypes
  <2> QED BY <2>1, <2>2
<1>6. HandsMove
  BY <1>1, <1>5, HandsStay DEF HandsMove
<1>7. GroupTypes'
  BY <1>1, <1>5 DEF TopicsInv, GroupTypes
<1> QED BY <1>1, <1>4, <1>5, <1>6, <1>7, TgStays, Plain

\* /archive, or the desktop's, begins, and the provider archives.
LEMMA ArchiveKeeps ==
  ASSUME TopicsInv, NEW s \in Sessions,
         Archive(s, "source") \/ Archive(s, "desktop") \/ SourceArchives(s)
  PROVE  TopicsInv' /\ StaysClosed
<1>1. /\ UNCHANGED <<tg, madeFor, made, route, mem, disk, callback, creation, cleanup, faults,
                     lost, raced, torn>>
      /\ source' \subseteq Sessions
  BY DEF Archive, SourceArchives, noted, TopicsInv, GroupTypes
<1>2. ArchiveMoves
  <2>1. archive \in [Sessions -> ArchiveRecord]
        /\ \A q \in Sessions : archive[q].pc = "topic" => archive[q].topic # NoTopic
    BY DEF TopicsInv, HandTypes
  <2>2. ASSUME NEW who \in {"source", "desktop"}, archive' = [archive EXCEPT ![s].pc = who]
        PROVE  ArchiveMoves
    BY <2>1, <2>2 DEF ArchiveMoves, ArchiveRecord
  <2> QED BY <2>2, HandsStay DEF Archive, SourceArchives
<1>3. HandsMove
  BY <1>1, <1>2, HandsStay DEF HandsMove
<1> QED BY <1>1, <1>3, Still DEF TopicsInv, GroupTypes

\* The session is archived, and its topic goes next.
LEMMA CommitKeeps ==
  ASSUME TopicsInv, NEW s \in Sessions, Commit(s) PROVE TopicsInv' /\ StaysClosed
<1>1. /\ UNCHANGED <<tg, madeFor, made, source, callback, creation, cleanup, faults, lost,
                     raced, torn>>
      /\ mem' = [mem EXCEPT !.local[s] = "archived"] /\ disk' = mem'
  BY DEF Commit, noted
<1>2. Follows(mem', mem, NoTopic)
  BY <1>1, StoreMoves
<1>3. RowsMove /\ ArchiveMoves
  <2>1. CASE archive[s].pc = "source" /\ TopicOf(s) # NoTopic
    <3>1. /\ route' = Archived(route, TopicOf(s))
          /\ archive' = [archive EXCEPT ![s] = [pc |-> "topic", topic |-> TopicOf(s)]]
      BY <2>1 DEF Commit
    <3> QED BY <2>1, <3>1, TopicMade, RowsArchive, ArchivingIs, Bounds
  <2>2. CASE ~(archive[s].pc = "source" /\ TopicOf(s) # NoTopic)
    <3>1. archive' = [archive EXCEPT ![s] = Done] /\ UNCHANGED route
      BY <2>2 DEF Commit
    <3> QED BY <3>1, RowsClose, ArchivingIs
  <2> QED BY <2>1, <2>2
<1>4. HandsMove
  BY <1>1, <1>3, HandsStay DEF HandsMove
<1>5. GroupTypes'
  BY <1>1 DEF TopicsInv, GroupTypes
<1> QED BY <1>1, <1>2, <1>3, <1>4, <1>5, TgStays, Plain

\* The topic of an archived session goes, or Telegram refuses.
LEMMA TopicLeaves ==
  ASSUME TopicsInv, NEW s \in Sessions, TopicGoes(s) \/ TopicStays(s)
  PROVE  TopicsInv' /\ StaysClosed
<1>1. /\ UNCHANGED <<madeFor, made, source, callback, creation, raced, torn>> /\ Leaves(s)
  BY DEF TopicGoes, TopicStays, noted
<1>2. PICK t : t = archive[s].topic
  OBVIOUS
<1>3. t \in Topics /\ t <= made /\ made \in Nat /\ Topics \subseteq Nat
  <2>1. archive[s].pc = "topic"
    BY DEF TopicGoes, TopicStays
  <2>2. t \in 0 .. MaxTopics /\ t # NoTopic
    BY <1>2, <2>1 DEF TopicsInv, HandTypes, ArchiveRecord
  <2>3. t \in Topics /\ made \in Nat /\ Topics \subseteq Nat
    BY <2>2, Bounds DEF TopicsInv, HandTypes
  <2>4. ~(t > made)
    BY <1>2, <2>3 DEF TopicsInv, HandsRight, Unmade
  <2> QED BY <2>3, <2>4
<1>4. ArchiveMoves /\ cleanup' \subseteq Sessions \cup {Agent} /\ (disk' = disk \/ disk' = mem')
  BY <1>1, ArchivingIs DEF Leaves, TopicsInv, GroupTypes
<1>5. /\ RowsMove /\ Follows(mem', mem, NoTopic) /\ faults' \in 0 .. MaxFaults
      /\ lost' \subseteq Topics /\ tg' \in [Topics -> {"none", "open", "closed", "deleted"}]
      /\ \A u \in Topics : u > made => tg'[u] = "none"
  <2>1. CASE TopicGoes(s)
    <3>1. PICK way \in Ways :
            /\ tg' = [tg EXCEPT ![t] = way]
            /\ mem' = IF way = "deleted" THEN [mem EXCEPT !.topic[s] = NoTopic] ELSE mem
      BY <1>2, <2>1 DEF TopicGoes
    <3>2. way \in {"closed", "deleted"}
      BY TopicsAssumption
    <3>3. Follows(mem', mem, NoTopic)
      BY <3>1, StoreMoves, Bounds
    <3>4. tg' \in [Topics -> {"none", "open", "closed", "deleted"}]
      BY <3>1, <3>2 DEF TopicsInv, GroupTypes
    <3>5. \A u \in Topics : u > made => tg'[u] = "none"
      BY <1>3, <3>1, TgStays DEF TopicsInv, GroupTypes
    <3>6. route' = Archived(route, t) /\ t \in 0 .. MaxTopics /\ UNCHANGED <<faults, lost>>
      BY <1>2, <1>3, <2>1, Bounds DEF TopicGoes
    <3> QED BY <3>3, <3>4, <3>5, <3>6, RowsArchive DEF TopicsInv, GroupTypes
  <2>2. CASE TopicStays(s)
    <3>1. UNCHANGED <<tg, mem, route>> /\ lost' = lost \cup {t} /\ (UNCHANGED faults \/ Fault)
      BY <1>2, <2>2 DEF TopicStays
    <3> QED BY <1>3, <3>1, FaultIs, RowsClose, StoreMoves, TgStays DEF TopicsInv, GroupTypes
  <2> QED BY <2>1, <2>2
<1>6. HandsMove
  BY <1>1, <1>4, HandsStay DEF HandsMove
<1>7. GroupTypes'
  BY <1>1, <1>4, <1>5 DEF TopicsInv, GroupTypes
<1> QED BY <1>1, <1>4, <1>5, <1>6, <1>7, Plain

\* A user deletes a topic, or writes in one without a row.
LEMMA GroupKeeps ==
  ASSUME TopicsInv, NEW t \in Topics, UserDeletes(t) \/ Observes(t)
  PROVE  TopicsInv' /\ StaysClosed
<1>1. UNCHANGED <<madeFor, made, mem, disk, source, callback, creation, archive, cleanup, lost,
                  raced, torn>>
  BY DEF UserDeletes, Observes, noted
<1>2. tg[t] = "open" /\ ~(t > made)
  BY DEF UserDeletes, Observes, TopicsInv, HandsRight, Unmade
<1>3. /\ tg' \in [Topics -> {"none", "open", "closed", "deleted"}]
      /\ \A u \in Topics : u > made => tg'[u] = "none"
      /\ faults' \in 0 .. MaxFaults
  BY <1>2, FaultIs, TgStays DEF UserDeletes, Observes, TopicsInv, GroupTypes
<1>4. RowsMove
  <2>1. CASE UserDeletes(t)
    BY <2>1, RowsClose DEF UserDeletes
  <2>2. CASE Observes(t)
    <3>1. PICK row : row = [NoRow EXCEPT !.status = "unknown"]
      OBVIOUS
    <3>2. row \in Rows /\ row.status = "unknown"
      BY <3>1, Bounds DEF NoRow, Rows
    <3>3. route' = [route EXCEPT ![t] = row] /\ route[t].status = "none"
      BY <2>2, <3>1 DEF Observes
    <3>4. route \in [Topics -> Rows] /\ OneEach(route)
          /\ \A u \in Topics : u > made => route[u].status = "none"
      BY DEF TopicsInv, StoreTypes, HandsRight, Unmade
    <3>5. /\ route' \in [Topics -> Rows] /\ route'[t].status = "unknown"
          /\ \A u \in Topics \ {t} : route'[u] = route[u]
      BY <3>2, <3>3, <3>4
    <3>6. OneEach(route')
      <4>1. \A x \in Targets, k \in Keys : Active(route', x, k) \subseteq Active(route, x, k)
        BY <3>5 DEF Active
      <4> QED BY <3>4, <4>1 DEF OneEach
    <3> QED BY <1>2, <3>3, <3>4, <3>5, <3>6 DEF RowsMove, Fresh
  <2> QED BY <2>1, <2>2
<1>5. HandsMove
  BY <1>1, HandsStay DEF HandsMove
<1>6. GroupTypes'
  BY <1>1, <1>3 DEF TopicsInv, GroupTypes
<1> QED BY <1>1, <1>3, <1>4, <1>5, <1>6, StoreMoves, Plain

-----------------------------------------------------------------------------
(* Steps that take a topic in hand.                                        *)

\* One topic is taken in hand, or goes from one hand to another.
LEMMA HandsTaken ==
  ASSUME HandTypes, HandsRight, NEW t \in Topics, t \notin torn, Alone(t)',
         made' = made \/ made' = made + 1, t <= made', t = made + 1 \/ InHand(t),
         UNCHANGED <<route, torn, archive>>,
         \A u \in Topics : u > made' => tg'[u] = "none",
         \A u \in Topics : Named(u)' => Named(u),
         \A u \in Topics \ {t} :
           /\ Pressed(u)' => Pressed(u)
           /\ \A s \in Sessions : (Newly(s, u)' => Newly(s, u)) /\ (Noted(s, u)' => Noted(s, u)),
         callback' = callback \/ (callback'.pc = "made" /\ callback'.topic = t),
         \A s \in Sessions :
           \/ creation'[s] = creation[s] \/ creation'[s].pc = "none"
           \/ creation'[s].pc = "made" /\ creation'[s].topic = t
  PROVE  HandsRight'
<1>0. /\ Topics = 1 .. MaxTopics /\ made \in Nat /\ MaxTopics \in Nat
      /\ \A u \in Topics : u > made => Unmade(u)
      /\ \A u \in Topics \ torn : InHand(u) => Alone(u)
  BY Bounds DEF HandTypes, HandsRight
<1>1. \A u \in Topics \ {t} : InHand(u)' => InHand(u)
  BY DEF InHand
<1>2. ASSUME NEW u \in Topics, u > made'
      PROVE  Unmade(u)'
  <2>1. u # t /\ u > made
    BY <1>0, <1>2
  <2> QED BY <1>0, <1>1, <1>2, <2>1 DEF Unmade
<1>3. ASSUME NEW u \in Topics, u \in torn'
      PROVE  ~Pressed(u)' /\ \A s \in Sessions : ~Newly(s, u)'
  BY <1>3 DEF HandsRight
<1>4. ASSUME NEW u \in Topics, u \notin torn', InHand(u)'
      PROVE  Alone(u)'
  <2>1. CASE u # t
    <3>1. Alone(u)
      BY <1>0, <1>1, <1>4, <2>1
    <3>2. Fresh(u)' /\ ~Named(u)'
      BY <3>1 DEF Alone, Fresh
    <3> QED BY <2>1, <3>1, <3>2 DEF Alone
  <2> QED BY <2>1
<1>5. callback'.pc \in {"probe", "made"} => callback'.topic \in 1 .. made'
  <2>1. callback.pc \in {"probe", "made"} => callback.topic \in 1 .. made'
    BY <1>0 DEF HandsRight
  <2> QED BY <1>0, <2>1
<1>6. (callback.pc = "probe" => callback.topic \in torn \/ ~InHand(callback.topic))'
  <2> SUFFICES ASSUME callback'.pc = "probe"
               PROVE  (callback.topic \in torn \/ ~InHand(callback.topic))'
    OBVIOUS
  <2>1. PICK u : u = callback'.topic
    OBVIOUS
  <2>2. callback' = callback /\ u \in 1 .. made /\ u \in Topics /\ (u \in torn \/ ~InHand(u))
    BY <1>0, <2>1 DEF HandsRight, HandTypes
  <2>3. u # t \/ u \in torn
    BY <1>0, <2>2
  <2>4. u \in torn' \/ ~InHand(u)'
    BY <1>1, <2>2, <2>3
  <2> QED BY <2>1, <2>4 DEF InHand
<1>7. \A s \in Sessions : creation'[s].pc = "made" => creation'[s].topic \in 1 .. made'
  <2>1. \A s \in Sessions : creation[s].pc = "made" => creation[s].topic \in 1 .. made'
    BY <1>0 DEF HandsRight
  <2> QED BY <1>0, <2>1
<1> QED BY <1>2, <1>3, <1>4, <1>5, <1>6, <1>7 DEF HandsRight

\* The topic to be made next is nobody's yet.
LEMMA NextIsNobodys ==
  ASSUME TopicsInv, made < MaxTopics, NEW t, t = made + 1
  PROVE  /\ t \in Topics /\ t \in 0 .. MaxTopics /\ t > made /\ made \in Nat
         /\ Unmade(t) /\ Fresh(t) /\ ~Pressed(t) /\ t \notin torn
         /\ \A s \in Sessions : ~Newly(s, t) /\ ~Noted(s, t)
<1>1. t \in Topics /\ t \in 0 .. MaxTopics /\ t > made /\ made \in Nat
  BY Bounds DEF TopicsInv, HandTypes
<1>2. Unmade(t)
  BY <1>1 DEF TopicsInv, HandsRight
<1> QED BY <1>1, <1>2 DEF Unmade, InHand, Fresh

\* Telegram makes a topic.
LEMMA MakesIs ==
  ASSUME TopicsInv, NEW x \in Targets, Makes(x), NEW t, t = made + 1
  PROVE  /\ tg' \in [Topics -> {"none", "open", "closed", "deleted"}]
         /\ madeFor' \in [Topics -> Targets] /\ made' \in 0 .. MaxTopics /\ made' = t
         /\ \A u \in Topics : u > made' => tg'[u] = "none"
<1>1. /\ made < MaxTopics /\ made' = made + 1
      /\ tg' = [tg EXCEPT ![t] = "open"] /\ madeFor' = [madeFor EXCEPT ![t] = x]
  BY DEF Makes
<1>2. made \in 0 .. MaxTopics /\ MaxTopics \in Nat /\ Topics = 1 .. MaxTopics
  BY Bounds DEF TopicsInv, HandTypes
<1>3. \A u \in Topics : u > made' => u # t /\ tg[u] = "none"
  BY <1>1, <1>2, TgStays
<1> QED BY <1>1, <1>2, <1>3 DEF TopicsInv, GroupTypes

\* A /new has its topic made.
LEMMA NewMakesKeeps ==
  ASSUME TopicsInv, NEW s \in Sessions, NewMakes(s) PROVE TopicsInv' /\ StaysClosed
<1>1. PICK t : t = made + 1
  OBVIOUS
<1>2. /\ Makes(s) /\ creation' = [creation EXCEPT ![s].pc = "made", ![s].topic = t]
      /\ UNCHANGED <<route, mem, disk, source, callback, archive, cleanup, faults, lost, raced,
                     torn>>
  BY <1>1 DEF NewMakes, noted
<1>3. /\ t \in Topics /\ t \in 0 .. MaxTopics /\ t > made /\ made \in Nat
      /\ Unmade(t) /\ Fresh(t) /\ ~Pressed(t) /\ t \notin torn
      /\ \A q \in Sessions : ~Newly(q, t) /\ ~Noted(q, t)
  BY <1>1, <1>2, NextIsNobodys DEF Makes
<1>4. /\ tg' \in [Topics -> {"none", "open", "closed", "deleted"}]
      /\ madeFor' \in [Topics -> Targets] /\ made' \in 0 .. MaxTopics /\ made' = t
      /\ \A u \in Topics : u > made' => tg'[u] = "none"
  BY <1>1, <1>2, MakesIs, Bounds
<1>5. /\ creation' \in [Sessions -> CreationRecord]
      /\ creation'[s].pc = "made" /\ creation'[s].topic = t
      /\ \A q \in Sessions \ {s} : creation'[q] = creation[q]
  BY <1>2, <1>3 DEF TopicsInv, HandTypes, CreationRecord
<1>6. \A u \in Topics : /\ Pressed(u)' = Pressed(u) /\ Named(u)' = Named(u) /\ Fresh(u)' = Fresh(u)
                        /\ \A q \in Sessions : /\ Noted(q, u)' = Noted(q, u)
                                               /\ q # s => Newly(q, u)' = Newly(q, u)
                                               /\ u # t => ~Newly(s, u)'
  BY <1>2, <1>5 DEF Pressed, Named, Noted, Newly, Fresh
<1>7. Alone(t)'
  BY <1>3, <1>6 DEF Alone, Unmade
<1>8. HandsRight'
  <2>1. /\ \A u \in Topics : Named(u)' => Named(u)
        /\ \A u \in Topics \ {t} :
             /\ Pressed(u)' => Pressed(u)
             /\ \A q \in Sessions : (Newly(q, u)' => Newly(q, u)) /\ (Noted(q, u)' => Noted(q, u))
    BY <1>6
  <2>2. /\ callback' = callback
        /\ \A q \in Sessions :
             \/ creation'[q] = creation[q] \/ creation'[q].pc = "none"
             \/ creation'[q].pc = "made" /\ creation'[q].topic = t
    BY <1>2, <1>5
  <2>3. /\ made' = made + 1 /\ t <= made' /\ t = made + 1
    BY <1>1, <1>3, <1>4
  <2> QED BY <1>2, <1>3, <1>4, <1>7, <2>1, <2>2, <2>3, HandsTaken DEF TopicsInv
<1>9. HandTypes' /\ GroupTypes' /\ StoreTypes' /\ OneEach(route)'
  BY <1>2, <1>4, <1>5 DEF TopicsInv, HandTypes, GroupTypes, StoreTypes, OneEach, Active
<1> QED BY <1>2, <1>8, <1>9 DEF TopicsInv, StaysClosed

\* A press has its topic made.
LEMMA PressMakesKeeps ==
  ASSUME TopicsInv, PressMakes PROVE TopicsInv' /\ StaysClosed
<1>1. PICK t : t = made + 1
  OBVIOUS
<1>2. /\ Makes(callback.to) /\ callback' = [callback EXCEPT !.pc = "made", !.topic = t]
      /\ UNCHANGED <<route, mem, disk, source, creation, archive, cleanup, faults, lost, raced,
                     torn>>
  BY <1>1 DEF PressMakes, noted
<1>3. /\ t \in Topics /\ t \in 0 .. MaxTopics /\ t > made /\ made \in Nat
      /\ Unmade(t) /\ Fresh(t) /\ ~Pressed(t) /\ t \notin torn
      /\ \A q \in Sessions : ~Newly(q, t) /\ ~Noted(q, t)
  BY <1>1, <1>2, NextIsNobodys DEF Makes
<1>4. callback.to \in Targets
  BY DEF TopicsInv, HandTypes, CallbackRecord
<1>5. /\ tg' \in [Topics -> {"none", "open", "closed", "deleted"}]
      /\ madeFor' \in [Topics -> Targets] /\ made' \in 0 .. MaxTopics /\ made' = t
      /\ \A u \in Topics : u > made' => tg'[u] = "none"
  BY <1>1, <1>2, <1>4, MakesIs
<1>6. callback' \in CallbackRecord /\ callback'.pc = "made" /\ callback'.topic = t
  BY <1>2, <1>3 DEF TopicsInv, HandTypes, CallbackRecord
<1>7. \A u \in Topics : /\ Named(u)' = Named(u) /\ Fresh(u)' = Fresh(u)
                        /\ u # t => ~Pressed(u)'
                        /\ \A q \in Sessions : /\ Noted(q, u)' = Noted(q, u)
                                               /\ Newly(q, u)' = Newly(q, u)
  BY <1>2, <1>6 DEF Pressed, Named, Noted, Newly, Fresh
<1>8. Alone(t)'
  BY <1>3, <1>7 DEF Alone, Unmade
<1>9. HandsRight'
  BY <1>1, <1>2, <1>3, <1>5, <1>6, <1>7, <1>8, HandsTaken DEF TopicsInv
<1>10. HandTypes' /\ GroupTypes' /\ StoreTypes' /\ OneEach(route)'
  BY <1>2, <1>5, <1>6 DEF TopicsInv, HandTypes, GroupTypes, StoreTypes, OneEach, Active
<1> QED BY <1>2, <1>9, <1>10 DEF TopicsInv, StaysClosed

\* A /new fails: its topic is lost, or kept for --resume.
LEMMA NewFailsKeeps ==
  ASSUME TopicsInv, NEW s \in Sessions, NewFails(s) PROVE TopicsInv' /\ StaysClosed
<1>1. /\ creation' = [creation EXCEPT ![s] = None] /\ faults' \in 0 .. MaxFaults
      /\ UNCHANGED <<tg, madeFor, made, route, source, callback, archive, cleanup, raced, torn>>
  BY FaultIs DEF NewFails, noted
<1>2. /\ creation' \in [Sessions -> CreationRecord] /\ creation'[s].pc = "none"
      /\ \A q \in Sessions \ {s} : creation'[q] = creation[q]
  <2>1. None \in CreationRecord /\ None.pc = "none"
    BY Bounds DEF None, CreationRecord, Keys
  <2> QED BY <1>1, <2>1 DEF TopicsInv, HandTypes
<1>3. PICK t : t = creation[s].topic
  OBVIOUS
<1>4. t \in 0 .. MaxTopics /\ t \in Topics \cup {NoTopic}
  BY <1>3, Bounds DEF TopicsInv, HandTypes, CreationRecord
<1>5. CASE lost' = lost \cup ({t} \ {NoTopic}) /\ UNCHANGED <<mem, disk>>
  <2>1. CreationMoves
    BY <1>2 DEF CreationMoves
  <2>2. HandsMove
    BY <1>1, <2>1, HandsStay DEF HandsMove
  <2>3. lost' \subseteq Topics
    BY <1>4, <1>5 DEF TopicsInv, GroupTypes
  <2> QED BY <1>1, <1>5, <2>2, <2>3, Still DEF TopicsInv, GroupTypes
<1>6. CASE /\ creation[s].pc = "made" /\ UNCHANGED lost
           /\ mem' = [mem EXCEPT !.unbound[s] = t] /\ disk' = mem'
  <2>1. Newly(s, t) /\ t \in Topics /\ t <= made /\ t \notin torn /\ Alone(t) /\ InHand(t)
    <3>1. Newly(s, t) /\ InHand(t)
      BY <1>3, <1>6 DEF Newly, InHand
    <3>2. t \in 1 .. made /\ made \in 0 .. MaxTopics /\ MaxTopics \in Nat /\ Topics = 1 .. MaxTopics
      BY <1>3, <1>6, Bounds DEF TopicsInv, HandTypes, HandsRight
    <3> QED BY <3>1, <3>2 DEF TopicsInv, HandsRight
  <2>2. /\ mem' \in Storages /\ mem'.topic = mem.topic
        /\ mem'.unbound = [mem.unbound EXCEPT ![s] = t]
    <3>1. \A q \in Sessions, u \in 0 .. MaxTopics :
            /\ [mem EXCEPT !.unbound[q] = u] \in Storages
            /\ [mem EXCEPT !.unbound[q] = u].topic = mem.topic
            /\ [mem EXCEPT !.unbound[q] = u].unbound = [mem.unbound EXCEPT ![q] = u]
      BY StoreSet DEF TopicsInv, StoreTypes
    <3> QED BY <1>4, <1>6, <3>1
  <2>3. \A u \in Topics :
          /\ Pressed(u)' = Pressed(u) /\ (Named(u)' => Named(u)) /\ Fresh(u)' = Fresh(u)
          /\ \A q \in Sessions : /\ Newly(q, u)' => Newly(q, u) /\ q # s
                                 /\ q # s \/ u # t => (Noted(q, u)' => Noted(q, u))
    <3>1. mem.unbound \in [Sessions -> 0 .. MaxTopics]
      BY DEF TopicsInv, StoreTypes, Storages
    <3> QED BY <1>1, <1>2, <1>6, <2>2, <3>1 DEF Pressed, Named, Noted, Newly, Fresh
  <2>4. Alone(t)'
    BY <2>1, <2>3 DEF Alone
  <2>5. HandsRight'
    <3>1. /\ \A u \in Topics : Named(u)' => Named(u)
          /\ \A u \in Topics \ {t} :
               /\ Pressed(u)' => Pressed(u)
               /\ \A q \in Sessions : (Newly(q, u)' => Newly(q, u)) /\ (Noted(q, u)' => Noted(q, u))
      BY <2>3
    <3>2. /\ callback' = callback
          /\ \A q \in Sessions :
               \/ creation'[q] = creation[q] \/ creation'[q].pc = "none"
               \/ creation'[q].pc = "made" /\ creation'[q].topic = t
      BY <1>1, <1>2
    <3>3. \A u \in Topics : u > made' => tg'[u] = "none"
      BY <1>1, TgStays
    <3>4. UNCHANGED <<made, route, torn, archive>> /\ t <= made'
      BY <1>1, <2>1
    <3> QED BY <2>1, <2>4, <3>1, <3>2, <3>3, <3>4, HandsTaken DEF TopicsInv
  <2>6. HandTypes' /\ GroupTypes' /\ StoreTypes' /\ OneEach(route)'
    BY <1>1, <1>2, <1>6, <2>2 DEF TopicsInv, HandTypes, GroupTypes, StoreTypes, OneEach, Active
  <2> QED BY <1>1, <2>5, <2>6 DEF TopicsInv, StaysClosed
<1> QED BY <1>3, <1>5, <1>6 DEF NewFails

-----------------------------------------------------------------------------
(* Steps that bind a topic.                                                *)

\* A topic that is in one hand and no other, or active, is bound, and is in
\* nobody's hand then.
LEMMA BindKeeps ==
  ASSUME TopicsInv, NEW b \in Topics, b <= made, NEW x \in Targets, NEW key \in Keys,
         NEW store \in Storages, store.topic = mem.topic,
         \A s \in Sessions : store.unbound[s] \in {mem.unbound[s], NoTopic},
         Binds(b, x, key, store), HandsMove, GroupTypes',
         UNCHANGED <<made, tg, archive, torn>>,
         b \in torn \/ (~InHand(b)' /\ route[b].status \notin {"archived", "invalid"})
  PROVE  TopicsInv' /\ StaysClosed
<1>1. /\ StoreTypes' /\ Follows(mem', mem, b) /\ disk' = mem'
      /\ route' = Upsert(route, b, x, key)
  BY BindsIs DEF TopicsInv
<1>2. /\ \A t \in Topics \ {b} : Closes(route', route, t)
      /\ OneEach(route')
  BY <1>1, UpsertIs DEF TopicsInv, StoreTypes
<1>3. b \in 0 .. made /\ made \in 0 .. MaxTopics /\ MaxTopics \in Nat /\ Topics = 1 .. MaxTopics
  BY Bounds DEF TopicsInv, HandTypes
<1>4. \A t \in Topics :
        /\ Pressed(t)' => Pressed(t)
        /\ \A s \in Sessions : Newly(s, t)' => Newly(s, t)
        /\ t > made => /\ tg'[t] = "none" /\ route'[t].status = "none"
                       /\ \A s \in Sessions : archive'[s].topic # t
        /\ Fresh(t) => Fresh(t)' \/ t = b \/ Named(t) \/ ~InHand(t) \/ t \in torn
  <2>1. \A t \in Topics : /\ Pressed(t)' => Pressed(t)
                          /\ \A s \in Sessions : Newly(s, t)' => Newly(s, t)
    BY DEF HandsMove, CallbackMoves, CreationMoves, Pressed, Newly
  <2>2. \A t \in Topics : t > made => /\ t # b /\ tg[t] = "none" /\ route[t].status = "none"
                                      /\ \A s \in Sessions : archive[s].topic # t
    BY <1>3 DEF TopicsInv, HandsRight, Unmade
  <2>3. \A t \in Topics \ {b} : route[t].status # "active" => route'[t].status = route[t].status
    BY <1>2 DEF Closes
  <2> QED BY <2>1, <2>2, <2>3 DEF Fresh
<1>5. HandsRight'
  <2>1. b \in Topics \ torn' => ~InHand(b)'
    OBVIOUS
  <2>2. /\ \/ callback'.pc \in {"idle", "asked"} \/ callback' = callback
           \/ callback'.pc = "probe" /\ callback'.topic \in 1 .. made /\ ~Fresh(callback'.topic)
        /\ \A s \in Sessions : creation'[s].pc = "made" => creation'[s] = creation[s]
    BY DEF HandsMove, CallbackMoves, CreationMoves
  <2>3. StoreTypes /\ HandTypes /\ HandsRight
    BY DEF TopicsInv
  <2>4. torn \subseteq torn' /\ torn' \subseteq torn \cup {b} /\ made' = made
    OBVIOUS
  <2> QED BY <1>1, <1>3, <1>4, <2>1, <2>2, <2>3, <2>4, HandsKept
<1>6. HandTypes'
  BY DEF TopicsInv, HandTypes, HandsMove, CallbackMoves, CreationMoves, ArchiveMoves
<1>7. OneEach(route)'
  BY <1>2 DEF OneEach, Active
<1>8. StaysClosed
  BY <1>2 DEF StaysClosed, Closes
<1> QED BY <1>1, <1>5, <1>6, <1>7, <1>8 DEF TopicsInv

\* The press binds its topic.
LEMMA PressBindsKeeps ==
  ASSUME TopicsInv, PressBinds PROVE TopicsInv' /\ StaysClosed
<1>1. PICK b, x, key, store :
        /\ b = callback.topic /\ x = callback.to /\ key = KeyFor(callback.to)
        /\ store = IF callback.to = Workspace THEN [mem EXCEPT !.key = CanonicalKey] ELSE mem
  OBVIOUS
<1>2. /\ callback.pc = "made" /\ Binds(b, x, key, store) /\ Ends
      /\ UNCHANGED <<tg, madeFor, made, source, creation, archive, faults, lost, raced, torn>>
  BY <1>1 DEF PressBinds, noted
<1>3. /\ b \in Topics /\ b <= made /\ Pressed(b) /\ b \notin torn /\ Alone(b)
  <2>1. b \in 1 .. made /\ made \in 0 .. MaxTopics /\ MaxTopics \in Nat /\ Topics = 1 .. MaxTopics
    BY <1>1, <1>2, Bounds DEF TopicsInv, HandTypes, HandsRight
  <2>2. Pressed(b)
    BY <1>1, <1>2 DEF Pressed
  <2> QED BY <2>1, <2>2 DEF TopicsInv, HandsRight, InHand
<1>4. x \in Targets /\ key \in Keys
  <2>1. x \in Targets
    BY <1>1 DEF TopicsInv, HandTypes, CallbackRecord
  <2>2. KeyOf(x) \in Keys
    BY <2>1, TopicIs DEF TopicsInv
  <2> QED BY <1>1, <2>1, <2>2 DEF KeyFor, Keys
<1>5. store \in Storages /\ store.topic = mem.topic /\ store.unbound = mem.unbound
  BY <1>1, StoreSet DEF TopicsInv, StoreTypes
<1>6. HandsMove /\ GroupTypes'
  BY <1>2, EndsIs, HandsStay DEF HandsMove, TopicsInv, GroupTypes
<1>7. ~InHand(b)'
  <2>1. mem'.unbound = mem.unbound /\ disk' = mem'
    BY <1>2, <1>3, <1>4, <1>5, BindsIs DEF TopicsInv
  <2>2. callback'.pc = "idle" /\ creation' = creation
    BY <1>2 DEF Ends, Idle
  <2>3. \A s \in Sessions : ~Newly(s, b) /\ ~Noted(s, b)
    BY <1>3 DEF Alone
  <2> QED BY <2>1, <2>2, <2>3 DEF InHand, Pressed, Newly, Noted
<1>8. route[b].status \notin {"archived", "invalid"}
  BY <1>3 DEF Alone, Fresh
<1> QED BY <1>2, <1>3, <1>4, <1>5, <1>6, <1>7, <1>8, BindKeeps

\* A /new binds its topic.
LEMMA NewBindsKeeps ==
  ASSUME TopicsInv, NEW s \in Sessions, NewBinds(s) PROVE TopicsInv' /\ StaysClosed
<1>1. PICK b, key : b = creation[s].topic /\ key = creation[s].key
  OBVIOUS
<1>2. /\ creation[s].pc = "made" /\ Binds(b, s, key, mem)
      /\ creation' = [creation EXCEPT ![s] = None]
      /\ UNCHANGED <<tg, madeFor, made, source, callback, archive, cleanup, faults, lost, raced,
                     torn>>
  BY <1>1 DEF NewBinds, noted
<1>3. /\ b \in Topics /\ b <= made /\ Newly(s, b) /\ b \notin torn /\ Alone(b)
  <2>1. b \in 1 .. made /\ made \in 0 .. MaxTopics /\ MaxTopics \in Nat /\ Topics = 1 .. MaxTopics
    BY <1>1, <1>2, Bounds DEF TopicsInv, HandTypes, HandsRight
  <2>2. Newly(s, b)
    BY <1>1, <1>2 DEF Newly
  <2> QED BY <2>1, <2>2 DEF TopicsInv, HandsRight, InHand
<1>4. s \in Targets /\ key \in Keys /\ mem \in Storages
  BY <1>1, Bounds DEF TopicsInv, HandTypes, StoreTypes, CreationRecord
<1>5. /\ creation' \in [Sessions -> CreationRecord] /\ creation'[s].pc = "none"
      /\ \A q \in Sessions \ {s} : creation'[q] = creation[q]
  <2>1. None \in CreationRecord /\ None.pc = "none"
    BY Bounds DEF None, CreationRecord, Keys
  <2> QED BY <1>2, <2>1 DEF TopicsInv, HandTypes
<1>6. HandsMove /\ GroupTypes'
  BY <1>2, <1>5, HandsStay DEF HandsMove, CreationMoves, TopicsInv, GroupTypes
<1>7. ~InHand(b)'
  <2>1. mem'.unbound = mem.unbound /\ disk' = mem'
    BY <1>2, <1>3, <1>4, BindsIs DEF TopicsInv
  <2>2. ~Pressed(b) /\ \A q \in Sessions : (q # s => ~Newly(q, b)) /\ ~Noted(q, b)
    BY <1>3 DEF Alone
  <2> QED BY <1>2, <1>5, <2>1, <2>2 DEF InHand, Pressed, Newly, Noted
<1>8. route[b].status \notin {"archived", "invalid"}
  BY <1>3 DEF Alone, Fresh
<1> QED BY <1>2, <1>3, <1>4, <1>6, <1>7, <1>8, BindKeeps

\* --resume binds the topic that its /new had kept.
LEMMA RebindsKeeps ==
  ASSUME TopicsInv, NEW s \in Sessions, Resume(s), Rebinds(s)
  PROVE  TopicsInv' /\ StaysClosed
<1>1. PICK b, store : b = mem.unbound[s] /\ store = [mem EXCEPT !.unbound[s] = NoTopic]
  OBVIOUS
<1>2. /\ Binds(b, s, mem.key, store)
      /\ UNCHANGED <<tg, madeFor, made, source, callback, creation, archive, cleanup, faults, lost,
                     torn>>
      /\ raced' \subseteq Sessions
  BY <1>1 DEF Resume, Rebinds, TopicsInv, GroupTypes
<1>3. b \in Topics /\ b <= made /\ Noted(s, b) /\ InHand(b)
  <2>1. b \in 0 .. MaxTopics /\ b # NoTopic
    BY <1>1 DEF Rebinds, TopicsInv, StoreTypes, Storages
  <2>2. Noted(s, b) /\ InHand(b)
    BY <1>1 DEF Noted, InHand
  <2>3. b \in Topics /\ made \in 0 .. MaxTopics /\ MaxTopics \in Nat /\ Topics = 1 .. MaxTopics
    BY <2>1, Bounds DEF TopicsInv, HandTypes
  <2> QED BY <2>2, <2>3 DEF TopicsInv, HandsRight, Unmade
<1>4. s \in Targets /\ mem.key \in Keys
  BY Bounds DEF TopicsInv, StoreTypes, Storages, Keys
<1>5. /\ store \in Storages /\ store.topic = mem.topic
      /\ store.unbound = [mem.unbound EXCEPT ![s] = NoTopic]
      /\ mem.unbound \in [Sessions -> 0 .. MaxTopics]
  <2>1. \A q \in Sessions, u \in 0 .. MaxTopics :
          /\ [mem EXCEPT !.unbound[q] = u] \in Storages
          /\ [mem EXCEPT !.unbound[q] = u].topic = mem.topic
          /\ [mem EXCEPT !.unbound[q] = u].unbound = [mem.unbound EXCEPT ![q] = u]
    BY StoreSet DEF TopicsInv, StoreTypes
  <2>2. NoTopic \in 0 .. MaxTopics
    BY Bounds
  <2>3. mem.unbound \in [Sessions -> 0 .. MaxTopics]
    BY DEF TopicsInv, StoreTypes, Storages
  <2> QED BY <1>1, <2>1, <2>2, <2>3
<1>6. \A q \in Sessions : store.unbound[q] \in {mem.unbound[q], NoTopic}
  BY <1>5
<1>7. HandsMove /\ GroupTypes'
  BY <1>2, HandsStay DEF HandsMove, TopicsInv, GroupTypes
<1>8. b \in torn \/ (~InHand(b)' /\ route[b].status \notin {"archived", "invalid"})
  <2> SUFFICES ASSUME b \notin torn
               PROVE  ~InHand(b)' /\ route[b].status \notin {"archived", "invalid"}
    OBVIOUS
  <2>1. Alone(b)
    BY <1>3 DEF TopicsInv, HandsRight
  <2>2. mem'.unbound = store.unbound /\ disk' = mem'
    BY <1>2, <1>3, <1>4, <1>5, <1>6, BindsIs DEF TopicsInv
  <2>3. ~Pressed(b) /\ \A q \in Sessions : ~Newly(q, b) /\ (q # s => ~Noted(q, b))
    BY <1>3, <2>1 DEF Alone
  <2>4. b # NoTopic
    BY <1>3, Bounds
  <2>5. \A q \in Sessions : mem'.unbound[q] # b
    BY <1>5, <2>2, <2>3, <2>4 DEF Noted
  <2> QED BY <1>2, <2>1, <2>2, <2>3, <2>5 DEF InHand, Pressed, Newly, Noted, Alone, Fresh
<1> QED BY <1>2, <1>3, <1>4, <1>5, <1>6, <1>7, <1>8, BindKeeps

\* A press on the workspace's button moves it to its canonical key.
LEMMA OpenWorkspaceKeeps ==
  ASSUME TopicsInv, OpenWorkspace PROVE TopicsInv' /\ StaysClosed
<1>1. UNCHANGED <<tg, madeFor, made, source, creation, archive, cleanup, faults, lost, raced, torn>>
  BY DEF OpenWorkspace, noted
<1>2. CallbackMoves
  BY PressIs, Bounds DEF OpenWorkspace
<1>3. HandsMove /\ GroupTypes'
  BY <1>1, <1>2, HandsStay DEF HandsMove, TopicsInv, GroupTypes
<1>4. CASE TopicOf(Workspace) # NoTopic /\ mem.key # CanonicalKey
  <2>1. PICK b, store : b = TopicOf(Workspace) /\ store = [mem EXCEPT !.key = CanonicalKey]
    OBVIOUS
  <2>2. Binds(b, Workspace, CanonicalKey, store)
    BY <1>4, <2>1 DEF OpenWorkspace
  <2>3. b \in Topics /\ ~Fresh(b) /\ route[b].status = "active"
    BY <1>4, <2>1, TopicIs, Bounds DEF TopicsInv, Fresh
  <2>4. b <= made /\ (b \in torn \/ ~InHand(b))
    BY <2>3, ActiveIsMade, Bounds DEF TopicsInv, HandTypes
  <2>5. store \in Storages /\ store.topic = mem.topic /\ store.unbound = mem.unbound
    BY <2>1, StoreSet DEF TopicsInv, StoreTypes
  <2>6. CanonicalKey \in Keys /\ Workspace \in Targets
    BY Bounds DEF Keys
  <2>7. ~InHand(b) => ~InHand(b)'
    <3>1. mem'.unbound = mem.unbound /\ disk' = mem'
      BY <2>2, <2>3, <2>5, <2>6, BindsIs DEF TopicsInv
    <3>2. Pressed(b)' => Pressed(b)
      BY <1>2 DEF CallbackMoves, Pressed
    <3> QED BY <1>1, <3>1, <3>2 DEF InHand, Newly, Noted
  <2> QED BY <1>1, <1>3, <2>2, <2>3, <2>4, <2>5, <2>6, <2>7, BindKeeps
<1>5. CASE ~(TopicOf(Workspace) # NoTopic /\ mem.key # CanonicalKey)
  <2>1. UNCHANGED <<route, mem, disk>>
    BY <1>5 DEF OpenWorkspace
  <2> QED BY <1>1, <1>3, <2>1, Still DEF TopicsInv, GroupTypes
<1> QED BY <1>4, <1>5

\* The process starts again, with a topic bound in the routes only perhaps.
LEMMA RestartKeeps ==
  ASSUME TopicsInv, NEW r \in [Topics -> Rows], OneEach(r), NEW b \in 0 .. made, Restarted(r),
         faults' \in 0 .. MaxFaults, torn \subseteq torn', torn' \subseteq Topics \cap (torn \cup {b}),
         \A t \in Topics \ {b} : Closes(r, route, t),
         b \in Topics \ torn' => ~InHand(b)',
         b \in Topics \ torn => Fresh(b)
  PROVE  TopicsInv' /\ StaysClosed
<1>1. /\ mem' = disk /\ disk' = disk /\ route' = Migrated(r, disk)
      /\ callback' = Idle /\ creation' = [s \in Sessions |-> None]
      /\ archive' = [s \in Sessions |-> Done]
      /\ cleanup' = {Agent} \cup {s \in Sessions : disk.local[s] # "unknown"}
      /\ UNCHANGED <<tg, madeFor, made, source, raced>>
  BY DEF Restarted
<1>2. lost' \subseteq Topics
  BY DEF Restarted, TopicsInv, GroupTypes
<1>3. disk \in Storages /\ made \in 0 .. MaxTopics /\ MaxTopics \in Nat /\ Topics = 1 .. MaxTopics
      /\ NoTopic = 0
  BY Bounds DEF TopicsInv, StoreTypes, HandTypes
<1>4. /\ route' \in [Topics -> Rows] /\ OneEach(route')
      /\ \A t \in Topics :
           \/ route'[t] = r[t]
           \/ /\ r[t].status \in {"none", "unknown"} /\ Named(t)
  <2>1. /\ route' \in [Topics -> Rows] /\ OneEach(route')
        /\ \A t \in Topics :
             \/ route'[t] = r[t]
             \/ /\ r[t].status \in {"none", "unknown"}
                /\ route'[t].to \in Targets /\ disk.topic[route'[t].to] = t
    BY <1>1, <1>3, MigratedIs
  <2> QED BY <2>1 DEF Named
<1>5. /\ Idle \in CallbackRecord /\ Idle.pc = "idle"
      /\ None \in CreationRecord /\ None.pc = "none"
      /\ Done \in ArchiveRecord /\ Done.pc = "none" /\ Done.topic = 0
  BY Bounds DEF Idle, None, Done, CallbackRecord, CreationRecord, ArchiveRecord, Keys
<1>6. \A t \in Topics :
        /\ t > made => /\ tg'[t] = "none" /\ route'[t].status = "none"
                       /\ \A s \in Sessions : archive'[s].topic # t
        /\ Fresh(t) => Fresh(t)' \/ t = b \/ Named(t) \/ ~InHand(t) \/ t \in torn
  <2>1. \A t \in Topics : t > made => /\ t # b /\ tg[t] = "none" /\ route[t].status = "none"
                                      /\ ~Named(t) /\ t # 0
    BY <1>3 DEF TopicsInv, HandsRight, Unmade
  <2>2. \A t \in Topics \ {b} : route[t].status # "active" => r[t].status = route[t].status
    BY DEF Closes
  <2> QED BY <1>1, <1>4, <1>5, <2>1, <2>2 DEF Fresh
<1>7. HandsRight'
  <2>1. \A t \in Topics : ~Pressed(t)' /\ \A s \in Sessions : ~Newly(s, t)'
    BY <1>1, <1>5 DEF Pressed, Newly
  <2>2. callback'.pc \in {"idle", "asked"} /\ \A s \in Sessions : creation'[s].pc # "made"
    BY <1>1, <1>5
  <2>3. b \in torn' \ torn => ~Pressed(b)' /\ \A s \in Sessions : ~Newly(s, b)'
    BY <1>1, <1>5 DEF Pressed, Newly
  <2>4. StoreTypes /\ HandTypes /\ HandsRight
    BY DEF TopicsInv
  <2> QED BY <1>1, <1>6, <2>1, <2>2, <2>3, <2>4, HandsKept
<1>8. StoreTypes'
  BY <1>1, <1>3, <1>4 DEF StoreTypes
<1>9. HandTypes'
  BY <1>1, <1>3, <1>5 DEF TopicsInv, HandTypes
<1>10. GroupTypes'
  BY <1>1, <1>2 DEF TopicsInv, GroupTypes
<1>11. OneEach(route)'
  BY <1>4 DEF OneEach, Active
<1>12. StaysClosed
  <2>1. \A t \in Topics \ torn : route[t].status \in {"archived", "invalid"} =>
          r[t].status = route[t].status
    BY DEF Closes, Fresh
  <2> QED BY <1>4, <2>1 DEF StaysClosed
<1> QED BY <1>7, <1>8, <1>9, <1>10, <1>11, <1>12 DEF TopicsInv

\* A crash, between two steps or between a topic's row and the save.
LEMMA CrashKeeps ==
  ASSUME TopicsInv, Crash \/ DiesBinding PROVE TopicsInv' /\ StaysClosed
<1>1. /\ route \in [Topics -> Rows] /\ OneEach(route) /\ torn \subseteq Topics
      /\ made \in 0 .. MaxTopics /\ MaxTopics \in Nat /\ Topics = 1 .. MaxTopics /\ NoTopic = 0
  BY Bounds DEF TopicsInv, StoreTypes, HandTypes
<1>2. CASE Crash
  <2>1. Restarted(route) /\ torn' = torn /\ faults' \in 0 .. MaxFaults
    BY <1>2, FaultIs DEF Crash
  <2>2. \A t \in Topics : Closes(route, route, t)
    BY <1>1 DEF Closes
  <2>3. 0 \in 0 .. made /\ 0 \notin Topics
    BY <1>1
  <2> QED BY <1>1, <2>1, <2>2, <2>3, RestartKeeps
<1>3. ASSUME NEW b \in Topics, b <= made, NEW x \in Targets, NEW key \in Keys,
             Restarted(Upsert(route, b, x, key)), Fault, torn \subseteq torn',
             torn' \subseteq Topics \cap (torn \cup {b}),
             b \in torn' \/ (~InHand(b)' /\ Fresh(b)), b \in torn \/ Fresh(b)
      PROVE  TopicsInv' /\ StaysClosed
  <2>1. PICK r : r = Upsert(route, b, x, key)
    OBVIOUS
  <2>2. r \in [Topics -> Rows] /\ OneEach(r) /\ \A t \in Topics \ {b} : Closes(r, route, t)
    BY <1>1, <2>1, UpsertIs
  <2>3. Restarted(r) /\ faults' \in 0 .. MaxFaults
    BY <1>3, <2>1, FaultIs
  <2>4. b \in 0 .. made
    BY <1>1, <1>3
  <2> QED BY <1>3, <2>2, <2>3, <2>4, RestartKeeps
<1>4. disk.unbound \in [Sessions -> 0 .. MaxTopics] /\ mem.unbound \in [Sessions -> 0 .. MaxTopics]
  BY DEF TopicsInv, StoreTypes, Storages
<1>5. ASSUME NEW r, Restarted(r)
      PROVE  \A t \in Topics : InHand(t)' => \E s \in Sessions : Noted(s, t)
  <2>1. /\ callback'.pc = "idle" /\ \A s \in Sessions : creation'[s].pc = "none"
        /\ mem' = disk /\ disk' = disk
    BY <1>5 DEF Restarted, Idle, None
  <2> QED BY <2>1 DEF InHand, Pressed, Newly, Noted
<1>6. CASE /\ Fault /\ callback.pc = "made" /\ UNCHANGED torn
           /\ Restarted(Upsert(route, callback.topic, callback.to, KeyFor(callback.to)))
  <2>1. PICK b, x, key : b = callback.topic /\ x = callback.to /\ key = KeyFor(callback.to)
    OBVIOUS
  <2>2. b \in Topics /\ b <= made /\ Pressed(b) /\ b \notin torn /\ Alone(b)
    <3>1. b \in 1 .. made /\ b \in Topics
      BY <1>1, <1>6, <2>1 DEF TopicsInv, HandsRight
    <3>2. Pressed(b)
      BY <1>6, <2>1 DEF Pressed
    <3> QED BY <1>1, <3>1, <3>2 DEF TopicsInv, HandsRight, InHand
  <2>3. x \in Targets /\ key \in Keys
    <3>1. x \in Targets
      BY <2>1 DEF TopicsInv, HandTypes, CallbackRecord
    <3>2. KeyOf(x) \in Keys
      BY <3>1, TopicIs DEF TopicsInv
    <3> QED BY <2>1, <3>1, <3>2 DEF KeyFor, Keys
  <2>4. Restarted(Upsert(route, b, x, key))
    BY <1>6, <2>1
  <2>5. ~InHand(b)' /\ Fresh(b)
    BY <1>5, <2>2, <2>4 DEF Alone
  <2> QED BY <1>1, <1>3, <1>6, <2>2, <2>3, <2>4, <2>5
<1>7. ASSUME NEW s \in Sessions, Fault, creation[s].pc = "made", UNCHANGED torn,
             Restarted(Upsert(route, creation[s].topic, s, creation[s].key))
      PROVE  TopicsInv' /\ StaysClosed
  <2>1. PICK b, key : b = creation[s].topic /\ key = creation[s].key
    OBVIOUS
  <2>2. b \in Topics /\ b <= made /\ Newly(s, b) /\ b \notin torn /\ Alone(b)
    <3>1. b \in 1 .. made /\ b \in Topics
      BY <1>1, <1>7, <2>1 DEF TopicsInv, HandsRight
    <3>2. Newly(s, b)
      BY <1>7, <2>1 DEF Newly
    <3> QED BY <1>1, <3>1, <3>2 DEF TopicsInv, HandsRight, InHand
  <2>3. s \in Targets /\ key \in Keys
    BY <2>1, Bounds DEF TopicsInv, HandTypes, CreationRecord
  <2>4. Restarted(Upsert(route, b, s, key))
    BY <1>7, <2>1
  <2>5. ~InHand(b)' /\ Fresh(b)
    BY <1>5, <2>2, <2>4 DEF Alone
  <2> QED BY <1>1, <1>3, <1>7, <2>2, <2>3, <2>4, <2>5
<1>8. ASSUME NEW s \in Sessions, Fault, Rebinds(s), torn' = torn \cup {mem.unbound[s]},
             Restarted(Upsert(route, mem.unbound[s], s, mem.key))
      PROVE  TopicsInv' /\ StaysClosed
  <2>1. PICK b, key : b = mem.unbound[s] /\ key = mem.key
    OBVIOUS
  <2>2. b \in Topics /\ b <= made /\ InHand(b)
    <3>1. b \in 0 .. MaxTopics /\ b # NoTopic
      BY <1>4, <1>8, <2>1 DEF Rebinds
    <3>2. InHand(b)
      BY <2>1 DEF Noted, InHand
    <3> QED BY <1>1, <3>1, <3>2 DEF TopicsInv, HandsRight, Unmade
  <2>3. s \in Targets /\ key \in Keys
    BY <2>1, Bounds DEF TopicsInv, StoreTypes, Storages, Keys
  <2>4. Restarted(Upsert(route, b, s, key)) /\ torn' = torn \cup {b}
    BY <1>8, <2>1
  <2>5. b \in torn \/ Fresh(b)
    BY <2>2 DEF TopicsInv, HandsRight, Alone
  <2> QED BY <1>1, <1>3, <1>8, <2>2, <2>3, <2>4, <2>5
<1> QED BY <1>2, <1>6, <1>7, <1>8 DEF DiesBinding

-----------------------------------------------------------------------------
(* The theorems.                                                           *)

\* At first nothing is bound and nothing in hand.
LEMMA InitTopics == Init => TopicsInv
<1> SUFFICES ASSUME Init
             PROVE  TopicsInv
  OBVIOUS
<1>1. /\ NoTopic \in 0 .. MaxTopics /\ NoTopic \notin Topics /\ Topics = 1 .. MaxTopics
      /\ MaxTopics \in Nat /\ MaxFaults \in Nat /\ NoTopic = 0
  BY Bounds
<1>2. NoRow \in Rows /\ NoRow.status = "none"
  BY Bounds DEF NoRow, Rows
<1>3. /\ mem \in Storages /\ disk = mem
      /\ \A x \in Targets : mem.topic[x] = NoTopic
      /\ \A s \in Sessions : mem.unbound[s] = NoTopic
  BY <1>1 DEF Init, Storages
<1>4. /\ Idle \in CallbackRecord /\ Idle.pc = "idle"
      /\ None \in CreationRecord /\ None.pc = "none"
      /\ Done \in ArchiveRecord /\ Done.pc = "none" /\ Done.topic = 0
  BY <1>1, Bounds DEF Idle, None, Done, CallbackRecord, CreationRecord, ArchiveRecord, Keys
<1>5. /\ route = [t \in Topics |-> NoRow] /\ tg = [t \in Topics |-> "none"] /\ torn = {} /\ made = 0
      /\ callback = Idle /\ creation = [s \in Sessions |-> None]
      /\ archive = [s \in Sessions |-> Done]
  BY DEF Init
<1>6. StoreTypes
  BY <1>2, <1>3, <1>5 DEF StoreTypes
<1>7. HandTypes
  BY <1>1, <1>4, <1>5 DEF HandTypes
<1>8. GroupTypes
  BY <1>1, Bounds DEF Init, GroupTypes
<1>9. \A t \in Topics : ~InHand(t) /\ ~Named(t)
  <2>1. \A t \in Topics : ~Pressed(t) /\ \A s \in Sessions : ~Newly(s, t)
    BY <1>4, <1>5 DEF Pressed, Newly
  <2>2. \A t \in Topics, s \in Sessions : ~Noted(s, t)
    BY <1>1, <1>3 DEF Noted
  <2>3. \A t \in Topics : ~Named(t)
    BY <1>1, <1>3 DEF Named
  <2> QED BY <2>1, <2>2, <2>3 DEF InHand
<1>10. HandsRight
  <2>1. \A t \in Topics : Unmade(t)
    BY <1>1, <1>2, <1>4, <1>5, <1>9 DEF Unmade
  <2> QED BY <1>4, <1>5, <1>9, <2>1 DEF HandsRight
<1>11. OneEach(route)
  BY <1>2, <1>5 DEF OneEach, Active
<1> QED BY <1>6, <1>7, <1>8, <1>10, <1>11 DEF TopicsInv

\* Every step keeps the invariant, and leaves closed what was closed.
LEMMA NextTopics == ASSUME TopicsInv, Next PROVE TopicsInv' /\ StaysClosed
<1>1. CASE Crash \/ DiesBinding
  BY <1>1, CrashKeeps
<1>2. CASE OpenWorkspace
  BY <1>2, OpenWorkspaceKeeps
<1>3. CASE OpenAgent \/ LooksForAgent
  BY <1>3, PressKeeps
<1>4. CASE ProbeFound \/ PressFails
  BY <1>4, PressEnds
<1>5. CASE ProbeMissing
  BY <1>5, ProbeMissingKeeps
<1>6. CASE PressMakes
  BY <1>6, PressMakesKeeps
<1>7. CASE PressBinds
  BY <1>7, PressBindsKeeps
<1>8. ASSUME NEW s \in Sessions, SessionStep(s)
      PROVE  TopicsInv' /\ StaysClosed
  <2>1. CASE Looks(s)
    BY <2>1, LooksKeeps
  <2>2. CASE New(s)
    BY <2>2, NewKeeps
  <2>3. CASE Resume(s)
    BY <2>3, ResumeKeeps, RebindsKeeps
  <2>4. CASE NewMakes(s)
    BY <2>4, NewMakesKeeps
  <2>5. CASE NewBinds(s)
    BY <2>5, NewBindsKeeps
  <2>6. CASE NewFails(s)
    BY <2>6, NewFailsKeeps
  <2>7. CASE OpenThread(s)
    BY <2>7, PressKeeps
  <2>8. CASE Archive(s, "source") \/ Archive(s, "desktop") \/ SourceArchives(s)
    BY <2>8, ArchiveKeeps
  <2>9. CASE Commit(s)
    BY <2>9, CommitKeeps
  <2>10. CASE TopicGoes(s) \/ TopicStays(s)
    BY <2>10, TopicLeaves
  <2> QED BY <1>8, <2>1, <2>2, <2>3, <2>4, <2>5, <2>6, <2>7, <2>8, <2>9, <2>10 DEF SessionStep
<1>9. ASSUME NEW t \in Topics, UserDeletes(t) \/ Observes(t)
      PROVE  TopicsInv' /\ StaysClosed
  BY <1>9, GroupKeeps
<1> QED BY <1>1, <1>2, <1>3, <1>4, <1>5, <1>6, <1>7, <1>8, <1>9 DEF Next

\* A step in which nothing happens.
LEMMA StillTopics == ASSUME TopicsInv, UNCHANGED vars PROVE TopicsInv'
<1>1. /\ route' = route /\ mem' = mem /\ disk' = disk /\ callback' = callback
      /\ creation' = creation /\ archive' = archive /\ torn' = torn /\ made' = made /\ tg' = tg
      /\ madeFor' = madeFor /\ source' = source /\ cleanup' = cleanup /\ faults' = faults
      /\ lost' = lost /\ raced' = raced
  BY DEF vars
<1> QED BY <1>1 DEF TopicsInv, StoreTypes, HandTypes, GroupTypes, HandsRight, OneEach, Active,
                  Unmade, Alone, InHand, Pressed, Newly, Noted, Named, Fresh

\* The inductive invariant: the stores' and the hands' types; that a topic which
\* was made and not bound yet is in one hand only, a press's, a /new's or the
\* creation record's, has no row and no place in state.json; and that a target
\* has one active topic at most in the routes.
THEOREM TopicsInvariant == Spec => []TopicsInv
<1>1. Init => TopicsInv
  BY InitTopics
<1>2. TopicsInv /\ [Next]_vars => TopicsInv'
  BY NextTopics, StillTopics
<1> QED BY <1>1, <1>2, PTL DEF Spec

\* What was archived or found gone never becomes a session's topic again, not by
\* a restart that reads of it in state.json nor under another key, but for what
\* --resume had bound when the process died.
THEOREM ClosedForGood == Spec => NeverRevived
<1>1. TopicsInv /\ [Next]_vars =>
        [\A t \in Topics \ torn :
           route[t].status \in {"archived", "invalid"} => route'[t].status # "active"]_vars
  BY NextTopics DEF StaysClosed
<1> QED BY <1>1, TopicsInvariant, PTL DEF Spec, NeverRevived

\* Type correctness; and a topic in a press's hand is not bound yet.
THEOREM TopicsTypes == Spec => []TypeOK
<1>1. ASSUME TopicsInv
      PROVE  TypeOK
  <2>1. callback.pc = "made" => route[callback.topic].status \in {"none", "unknown"}
    <3> SUFFICES ASSUME callback.pc = "made"
                 PROVE  route[callback.topic].status \in {"none", "unknown"}
      OBVIOUS
    <3>1. PICK t : t = callback.topic
      OBVIOUS
    <3>2. t \in Topics /\ Pressed(t)
      BY <1>1, <3>1, Bounds DEF TopicsInv, HandTypes, HandsRight, Pressed
    <3>3. Alone(t)
      BY <1>1, <3>2 DEF TopicsInv, HandsRight, InHand
    <3> QED BY <3>1, <3>3 DEF Alone, Fresh
  <2>2. /\ route \in [Topics -> Rows] /\ mem \in Storages /\ disk \in Storages
        /\ callback \in CallbackRecord /\ creation \in [Sessions -> CreationRecord]
        /\ archive \in [Sessions -> ArchiveRecord] /\ torn \subseteq Topics /\ made \in 0 .. MaxTopics
    BY <1>1 DEF TopicsInv, StoreTypes, HandTypes
  <2>3. GroupTypes
    BY <1>1 DEF TopicsInv
  <2> QED BY <2>1, <2>2, <2>3 DEF TypeOK, GroupTypes, CallbackRecord, CreationRecord, ArchiveRecord, Keys
<1> QED BY <1>1, TopicsInvariant, PTL

\* The cardinalities follow: the active topics of a target under a key are none
\* or one.
LEMMA FewActive == ASSUME TopicsInv PROVE OneActive
<1> SUFFICES ASSUME NEW x \in Targets, NEW k \in Keys
             PROVE  Cardinality(Active(route, x, k)) <= 1
  BY DEF OneActive, Keys
<1>1. \A t, u \in Active(route, x, k) : t = u
  BY DEF TopicsInv, OneEach
<1>2. CASE Active(route, x, k) = {}
  BY <1>2, FS_EmptySet
<1>3. CASE Active(route, x, k) # {}
  <2>1. PICK t : t \in Active(route, x, k)
    BY <1>3
  <2>2. Active(route, x, k) = {t}
    BY <1>1, <2>1
  <2>3. Cardinality({t}) = 1
    BY FS_Singleton
  <2> QED BY <2>2, <2>3
<1> QED BY <1>2, <1>3

\* However /new, presses, cleanup and restarts interleave, a target has one active
\* topic at most.
THEOREM OneTopicActive == Spec => []OneActive
<1>1. TopicsInv => OneActive
  BY FewActive
<1> QED BY <1>1, TopicsInvariant, PTL


-----------------------------------------------------------------------------
(* The one topic of a session: what is known of its topics.                *)

Live(t) == route[t].status = "active"

\* A row, a hand and state.json have a topic as the one of whom it was made for; a
\* press probes a topic of its target.
Whose ==
  /\ \A t \in Topics :
       /\ ~Fresh(t) => route[t].to = madeFor[t]
       /\ Pressed(t) => madeFor[t] = callback.to
       /\ \A s \in Sessions : Newly(s, t) \/ Noted(s, t) => madeFor[t] = s
       /\ \A x \in Targets : t \in {mem.topic[x], disk.topic[x]} => madeFor[t] = x /\ ~Fresh(t)
  /\ callback.pc = "probe" => /\ callback.topic \in Topics /\ ~Fresh(callback.topic)
                              /\ madeFor[callback.topic] = callback.to

\* A session's topic is active under the key its workspace has, or had at first.
KeysKnown ==
  /\ disk.key = mem.key
  /\ \A t \in Topics : Live(t) /\ madeFor[t] \in Sessions => route[t].key \in {mem.key, LegacyKey}
  /\ \A s \in Sessions : creation[s].pc # "none" => creation[s].key \in {mem.key, LegacyKey}

BothArchived(s) == mem.local[s] = "archived" /\ disk.local[s] = "archived"

\* A session that is not registered has nothing; a topic that is not bound is on
\* disk as well, and none is asked for meanwhile; what is archived is so on disk.
Known(s) ==
  /\ mem.local[s] = "unknown" <=> disk.local[s] = "unknown"
  /\ mem.local[s] = "unknown" =>
       /\ s \notin cleanup /\ creation[s].pc = "none" /\ ~Opening(s) /\ disk.unbound[s] = NoTopic
       /\ \A t \in Topics : madeFor[t] # s
  /\ mem.unbound[s] \in {NoTopic, disk.unbound[s]}
  /\ creation[s].pc # "none" => mem.unbound[s] = NoTopic
  /\ archive[s].pc = "topic" => BothArchived(s) /\ madeFor[archive[s].topic] = s
  /\ archive[s].pc # "topic" => archive[s].topic = NoTopic
  /\ \A t \in Topics : madeFor[t] = s /\ route[t].status = "archived" => BothArchived(s)

NoneLive(s, k) == \A t \in Topics : Live(t) /\ madeFor[t] = s => route[t].key # k

\* Only a session without an active topic is given one, by its /new or by a press.
Busy(s) ==
  /\ creation[s].pc # "none" =>
       NoneLive(s, creation[s].key) /\ NoneLive(s, mem.key) /\ ~Opening(s)
  /\ Opening(s) /\ callback.pc # "probe" => NoneLive(s, mem.key)
  /\ Opening(s) /\ callback.pc = "probe" =>
       \A t \in Topics : Live(t) /\ madeFor[t] = s /\ route[t].key = mem.key => t = callback.topic

\* The open topics of a session that OneTopic counts, and whose hand one may be in.
Seen(s, t) ==
  /\ madeFor[t] = s /\ tg[t] = "open"
  /\ t \notin lost /\ t # mem.unbound[s] /\ t # archive[s].topic

Held(s, t) == Pressed(t) \/ Newly(s, t)

\* They are in hand or active; so is what state.json remembers.
Accounted(s) == \A t \in Topics : Seen(s, t) => Held(s, t) \/ Live(t)

NamedLive(s) ==
  /\ mem.topic[s] # NoTopic /\ tg[mem.topic[s]] = "open" /\ mem.local[s] # "archived" =>
       Live(mem.topic[s])
  /\ disk.topic[s] # NoTopic /\ tg[disk.topic[s]] = "open" /\ disk.local[s] # "archived" =>
       Live(disk.topic[s])

KeptInv ==
  /\ Whose /\ KeysKnown /\ \A s \in Sessions : Known(s)
  /\ \A s \in Sessions \ raced : Busy(s) /\ Accounted(s) /\ NamedLive(s)

-----------------------------------------------------------------------------
(* What a step that makes no topic may do: b is the topic it binds, to x.  *)

\* A row stays as it is, or is closed.
Stands(t) ==
  \/ Fresh(t) /\ Fresh(t)'
  \/ /\ ~Fresh(t) /\ ~Fresh(t)' /\ route'[t].to = route[t].to /\ route'[t].key = route[t].key
     /\ Live(t)' => Live(t)

\* A row is closed if the topic is not open any more, or is being archived.
RowStep(b, x) ==
  /\ \A t \in Topics : t # b => Stands(t)
  /\ b \in Topics => /\ madeFor[b] = x /\ route'[b].to = x /\ Live(b)'
                     /\ x \in Sessions => route'[b].key \in {mem.key, LegacyKey}
  /\ \A s \in Sessions, t \in Topics :
       /\ madeFor[t] = s /\ Live(t) /\ ~Live(t)' =>
            s \in raced' \/ tg'[t] # "open" \/ (archive'[s].topic = t /\ BothArchived(s)')
       /\ madeFor[t] = s /\ route'[t].status = "archived" =>
            route[t].status = "archived" \/ BothArchived(s)'

\* A storage names what another named, and knows of what was archived there.
From(n, m, y, b, x) ==
  \/ n.topic[y] = NoTopic
  \/ y = x /\ n.topic[y] = b
  \/ n.topic[y] = m.topic[y] /\ (y \in Sessions /\ m.local[y] = "archived" => n.local[y] = "archived")

NameStep(b, x) ==
  /\ mem'.key = disk'.key /\ mem'.key \in {mem.key, CanonicalKey}
  /\ \A y \in Targets : /\ From(mem', mem, y, b, x) \/ From(mem', disk, y, b, x)
                        /\ From(disk', mem, y, b, x) \/ From(disk', disk, y, b, x)

\* No topic is taken in hand or found again, and none that is counted is let go of.
HandStep ==
  /\ \A t \in Topics :
       /\ tg'[t] = "open" => tg[t] = "open"
       /\ Pressed(t)' => Pressed(t) /\ callback'.to = callback.to
  /\ callback'.pc = "probe" => /\ callback'.topic \in Topics /\ ~Fresh(callback'.topic)
                               /\ madeFor[callback'.topic] = callback'.to
  /\ \A s \in Sessions, t \in Topics :
       /\ Newly(s, t)' => Newly(s, t)
       /\ Noted(s, t)' => Noted(s, t) \/ Newly(s, t)
       /\ Seen(s, t)' /\ ~Live(t)' => Seen(s, t) /\ (Held(s, t) => Held(s, t)')

KnownStep(s) ==
  /\ mem'.local[s] = "unknown" <=> disk'.local[s] = "unknown"
  /\ mem'.local[s] = "unknown" =>
       /\ mem.local[s] = "unknown" /\ s \notin cleanup' /\ creation'[s].pc = "none"
       /\ ~Opening(s)' /\ disk'.unbound[s] = NoTopic
  /\ mem'.unbound[s] \in {NoTopic, disk'.unbound[s]}
  /\ creation'[s].pc # "none" => /\ mem'.unbound[s] = NoTopic
                                 /\ creation'[s].key \in {mem.key, LegacyKey}
  /\ archive'[s].pc = "topic" => BothArchived(s)' /\ madeFor[archive'[s].topic] = s
  /\ archive'[s].pc # "topic" => archive'[s].topic = NoTopic
  /\ BothArchived(s) => BothArchived(s)'

BusyStep(s, b, x) ==
  /\ creation'[s].pc # "none" =>
       /\ ~(b \in Topics /\ x = s) /\ ~Opening(s)'
       /\ \/ creation[s].pc # "none" /\ creation'[s].key = creation[s].key
          \/ creation'[s].key = mem.key /\ NoneLive(s, mem.key)
  /\ Opening(s)' => ~(b \in Topics /\ x = s)
  /\ Opening(s)' /\ callback'.pc # "probe" =>
       (Opening(s) /\ callback.pc # "probe") \/ NoneLive(s, mem.key) \/ NoneLive(s, mem.key)'
  /\ Opening(s)' /\ callback'.pc = "probe" =>
       \A t \in Topics : Live(t) /\ madeFor[t] = s /\ route[t].key = mem.key => t = callback'.topic

\* No active topic stays none, under the key the workspace has then too.
LEMMA NoneStays ==
  ASSUME TopicsInv, KeptInv, NEW b \in 0 .. MaxTopics, NEW x \in Targets, madeFor' = madeFor,
         RowStep(b, x), NameStep(b, x), NEW s \in Sessions, ~(b \in Topics /\ x = s)
  PROVE  /\ \A k \in Keys : NoneLive(s, k) => NoneLive(s, k)'
         /\ NoneLive(s, mem.key) => NoneLive(s, mem.key)'
         /\ \A t \in Topics : Live(t)' /\ madeFor'[t] = s /\ route'[t].key = mem'.key =>
              Live(t) /\ madeFor[t] = s /\ route[t].key = mem.key
<1>1. \A t \in Topics : Live(t)' /\ madeFor'[t] = s => Live(t) /\ route'[t].key = route[t].key
  BY DEF RowStep, Stands, Live, Fresh
<1>2. \A t \in Topics : Live(t) /\ madeFor[t] = s => route[t].key \in {mem.key, LegacyKey}
  BY DEF KeptInv, KeysKnown
<1>3. mem'.key \in {mem.key, CanonicalKey} /\ mem.key \in {LegacyKey, CanonicalKey}
  BY DEF NameStep, TopicsInv, StoreTypes, Storages
<1>4. \A k \in Keys : NoneLive(s, k) => NoneLive(s, k)'
  BY <1>1 DEF NoneLive
<1>5. \A t \in Topics : Live(t)' /\ madeFor'[t] = s /\ route'[t].key = mem'.key =>
        Live(t) /\ madeFor[t] = s /\ route[t].key = mem.key
  BY <1>1, <1>2, <1>3
<1>6. NoneLive(s, mem.key) => NoneLive(s, mem.key)'
  BY <1>5 DEF NoneLive
<1> QED BY <1>4, <1>5, <1>6

\* A step that makes no topic and does what the parts above say keeps all of it.
LEMMA KeptStep ==
  ASSUME TopicsInv, TopicsInv', KeptInv, NEW b \in 0 .. MaxTopics, NEW x \in Targets,
         madeFor' = madeFor, raced \subseteq raced',
         RowStep(b, x), NameStep(b, x), HandStep,
         \A s \in Sessions : KnownStep(s),
         \A s \in Sessions \ raced' : BusyStep(s, b, x)
  PROVE  KeptInv'
<1>0. NoTopic \notin Topics /\ Sessions \subseteq Targets /\ mem.key \in Keys
  BY Bounds DEF TopicsInv, StoreTypes, Storages, Keys
<1>1. Whose'
  <2>1. \A t \in Topics : /\ ~Fresh(t)' => route'[t].to = madeFor'[t]
                          /\ ~Fresh(t) => ~Fresh(t)'
                          /\ t = b => madeFor[t] = x /\ ~Fresh(t)'
    BY DEF KeptInv, Whose, RowStep, Stands, Live, Fresh
  <2>2. \A t \in Topics : Pressed(t)' => madeFor'[t] = callback'.to
    BY DEF KeptInv, Whose, HandStep
  <2>3. \A t \in Topics, s \in Sessions : Newly(s, t)' \/ Noted(s, t)' => madeFor'[t] = s
    BY DEF KeptInv, Whose, HandStep
  <2>4. \A t \in Topics, y \in Targets :
          t \in {mem'.topic[y], disk'.topic[y]} => madeFor'[t] = y /\ ~Fresh(t)'
    BY <1>0, <2>1 DEF KeptInv, Whose, NameStep, From
  <2>5. callback'.pc = "probe" => /\ callback'.topic \in Topics /\ ~Fresh(callback'.topic)
                                  /\ madeFor'[callback'.topic] = callback'.to
    BY DEF HandStep
  <2>6. callback'.pc = "probe" => ~Fresh(callback.topic)'
    BY <2>1, <2>5 DEF Fresh
  <2> QED BY <2>1, <2>2, <2>3, <2>4, <2>5, <2>6 DEF Whose
<1>2. KeysKnown'
  <2>1. disk'.key = mem'.key /\ mem'.key \in {mem.key, CanonicalKey}
    BY DEF NameStep
  <2>2. ASSUME NEW t \in Topics, Live(t)', madeFor'[t] \in Sessions
        PROVE  route'[t].key \in {mem'.key, LegacyKey}
    <3>1. route'[t] \in Rows => route'[t].key \in {LegacyKey, CanonicalKey}
      BY DEF Rows
    <3>2. route'[t].key \in {mem.key, LegacyKey}
      BY <2>2 DEF KeptInv, KeysKnown, RowStep, Stands, Live, Fresh
    <3> QED BY <1>0, <2>1, <3>2 DEF Keys
  <2>3. ASSUME NEW s \in Sessions, creation'[s].pc # "none"
        PROVE  creation'[s].key \in {mem'.key, LegacyKey}
    BY <1>0, <2>1, <2>3 DEF KnownStep, Keys
  <2> QED BY <2>1, <2>2, <2>3 DEF KeysKnown
<1>3. ASSUME NEW s \in Sessions
      PROVE  Known(s)'
  <2>1. KnownStep(s) /\ Known(s)
    BY DEF KeptInv
  <2>2. \A t \in Topics : madeFor'[t] = s /\ route'[t].status = "archived" => BothArchived(s)'
    BY <2>1 DEF RowStep, Known, KnownStep
  <2>3. mem'.local[s] = "unknown" => \A t \in Topics : madeFor'[t] # s
    BY <2>1 DEF Known, KnownStep
  <2> QED BY <2>1, <2>2, <2>3 DEF Known, KnownStep
<1>4. ASSUME NEW s \in Sessions, s \notin raced'
      PROVE  Busy(s)' /\ Accounted(s)' /\ NamedLive(s)'
  <2>1. Busy(s) /\ Accounted(s) /\ NamedLive(s) /\ BusyStep(s, b, x)
    BY <1>4 DEF KeptInv
  <2>2. Accounted(s)'
    <3> SUFFICES ASSUME NEW t \in Topics, Seen(s, t)', ~Live(t)'
                 PROVE  Held(s, t)'
      BY DEF Accounted
    <3>1. Seen(s, t) /\ (Held(s, t) => Held(s, t)')
      BY DEF HandStep
    <3>2. ~Live(t)
      <4>1. madeFor[t] = s /\ tg'[t] = "open" /\ archive'[s].topic # t
        BY DEF Seen
      <4> QED BY <1>4, <4>1 DEF RowStep
    <3> QED BY <2>1, <3>1, <3>2 DEF Accounted
  <2>3. NamedLive(s)'
    <3>1. ASSUME NEW n, NEW m, m \in {mem, disk}, From(n, m, s, b, x),
                 n.topic[s] \in 0 .. MaxTopics, n.topic[s] # NoTopic, n.local[s] # "archived",
                 tg'[n.topic[s]] = "open", n.local[s] = "archived" \/ ~BothArchived(s)'
          PROVE  route'[n.topic[s]].status = "active"
      <4>1. PICK t : t = n.topic[s]
        OBVIOUS
      <4>2. t \in Topics
        BY <3>1, <4>1, Bounds
      <4>3. CASE s = x /\ t = b
        BY <4>2, <4>3, <4>1 DEF RowStep, Live
      <4>4. CASE t = m.topic[s] /\ m.local[s] # "archived"
        <5>1. tg[t] = "open"
          BY <3>1, <4>1, <4>2 DEF HandStep
        <5>2. madeFor[t] = s
          BY <1>0, <3>1, <4>2, <4>4 DEF KeptInv, Whose
        <5>3. Live(t)
          BY <1>0, <2>1, <3>1, <4>2, <4>4, <5>1 DEF NamedLive
        <5>4. Live(t)'
          BY <1>4, <3>1, <4>1, <4>2, <5>2, <5>3 DEF RowStep
        <5> QED BY <4>1, <5>4 DEF Live
      <4> QED BY <3>1, <4>1, <4>3, <4>4 DEF From
    <3>2. mem'.topic[s] \in 0 .. MaxTopics /\ disk'.topic[s] \in 0 .. MaxTopics
      <4>1. mem' \in Storages /\ disk' \in Storages
        BY DEF TopicsInv, StoreTypes
      <4> QED BY <1>0, <4>1 DEF Storages
    <3>3. ASSUME NEW n, n \in {mem', disk'}
          PROVE  \E m \in {mem, disk} : From(n, m, s, b, x)
      BY <1>0, <3>3 DEF NameStep
    <3>4. ASSUME NEW n, n \in {mem', disk'}, n.topic[s] # NoTopic, tg'[n.topic[s]] = "open",
                 n.local[s] # "archived"
          PROVE  route'[n.topic[s]].status = "active"
      <4>1. PICK m \in {mem, disk} : From(n, m, s, b, x)
        BY <3>3, <3>4
      <4>2. ~BothArchived(s)'
        BY <3>4 DEF BothArchived
      <4> QED BY <3>1, <3>2, <3>4, <4>1, <4>2
    <3> QED BY <3>4 DEF NamedLive, Live
  <2>4. Busy(s)'
    <3>1. creation'[s].pc # "none" =>
            NoneLive(s, creation[s].key)' /\ NoneLive(s, mem.key)' /\ ~Opening(s)'
      <4> SUFFICES ASSUME creation'[s].pc # "none"
                   PROVE  NoneLive(s, creation[s].key)' /\ NoneLive(s, mem.key)' /\ ~Opening(s)'
        OBVIOUS
      <4>1. PICK k : k = creation'[s].key
        OBVIOUS
      <4>2. k \in Keys /\ NoneLive(s, k) /\ NoneLive(s, mem.key)
        BY <1>0, <2>1, <4>1 DEF Busy, BusyStep, KnownStep, Keys
      <4>3. NoneLive(s, k)' /\ NoneLive(s, mem.key)' /\ ~Opening(s)'
        BY <2>1, <4>2, NoneStays DEF BusyStep
      <4> QED BY <4>1, <4>3 DEF NoneLive
    <3>2. Opening(s)' /\ callback'.pc # "probe" => NoneLive(s, mem.key)'
      BY <2>1, NoneStays DEF Busy, BusyStep
    <3>3. Opening(s)' /\ callback'.pc = "probe" =>
            \A t \in Topics : Live(t)' /\ madeFor'[t] = s /\ route'[t].key = mem'.key => t = callback'.topic
      BY <2>1, NoneStays DEF BusyStep
    <3> QED BY <3>1, <3>2, <3>3 DEF Busy
  <2> QED BY <2>2, <2>3, <2>4
<1> QED BY <1>1, <1>2, <1>3, <1>4 DEF KeptInv

-----------------------------------------------------------------------------
(* The parts of a step, for what the steps do.                             *)

\* The topic of a target is live, was made for it, and is the only one.
LEMMA TopicIsIts ==
  ASSUME TopicsInv, KeptInv, NEW x \in Targets
  PROVE  /\ TopicOf(x) \in 0 .. MaxTopics
         /\ TopicOf(x) # NoTopic =>
              /\ TopicOf(x) \in Topics /\ Live(TopicOf(x)) /\ madeFor[TopicOf(x)] = x
              /\ x # Agent => route[TopicOf(x)].key = mem.key
              /\ x # Agent => \A t \in Topics : Live(t) /\ madeFor[t] = x /\ route[t].key = mem.key =>
                                t = TopicOf(x)
         /\ TopicOf(x) = NoTopic /\ x # Agent => NoneLive(x, mem.key)
<1>1. KeyOf(x) \in Keys /\ (x # Agent => KeyOf(x) = mem.key) /\ TopicOf(x) \in 0 .. MaxTopics
  BY TopicIs DEF TopicsInv, KeyOf
<1>2. \A t \in Topics : route[t] \in Rows /\ (Live(t) => route[t].to = madeFor[t])
  BY DEF KeptInv, Whose, TopicsInv, StoreTypes, Live, Fresh
<1>3. ASSUME NEW t \in Topics
      PROVE  t \in Active(route, x, KeyOf(x)) <=> Live(t) /\ madeFor[t] = x /\ route[t].key = KeyOf(x)
  <2>1. PICK row \in Rows : row = route[t]
    BY <1>2
  <2>2. PICK k : k = KeyOf(x)
    OBVIOUS
  <2>3. row = [to |-> x, key |-> k, status |-> "active"] <=>
          row.to = x /\ row.key = k /\ row.status = "active"
    BY DEF Rows
  <2>4. t \in Active(route, x, k) <=> row = [to |-> x, key |-> k, status |-> "active"]
    BY <2>1 DEF Active
  <2> QED BY <1>2, <2>1, <2>2, <2>3, <2>4 DEF Live
<1>4. \A t, u \in Active(route, x, KeyOf(x)) : t = u
  BY <1>1 DEF TopicsInv, OneEach
<1>5. Active(route, x, KeyOf(x)) \subseteq Topics
  BY DEF Active
<1>6. CASE Active(route, x, KeyOf(x)) = {}
  <2>1. TopicOf(x) = NoTopic
    BY <1>6 DEF TopicOf
  <2> QED BY <1>1, <1>3, <1>6, <2>1 DEF NoneLive
<1>7. CASE Active(route, x, KeyOf(x)) # {}
  <2>1. TopicOf(x) \in Active(route, x, KeyOf(x))
    BY <1>7 DEF TopicOf
  <2> QED BY <1>1, <1>3, <1>4, <1>5, <2>1, Bounds
<1> QED BY <1>6, <1>7

\* Fields of a storage that is changed.
LEMMA FieldsSet ==
  ASSUME NEW m \in Storages
  PROVE  /\ \A s \in Sessions, v \in {"unknown", "active", "inactive", "archived"} :
              /\ [m EXCEPT !.local[s] = v].key = m.key
              /\ [m EXCEPT !.local[s] = v].local = [m.local EXCEPT ![s] = v]
         /\ \A x \in Targets, t \in 0 .. MaxTopics :
              /\ [m EXCEPT !.topic[x] = t].key = m.key
              /\ [m EXCEPT !.topic[x] = t].local = m.local
         /\ \A s \in Sessions, t \in 0 .. MaxTopics :
              /\ [m EXCEPT !.unbound[s] = t].key = m.key
              /\ [m EXCEPT !.unbound[s] = t].local = m.local
         /\ /\ [m EXCEPT !.key = CanonicalKey].key = CanonicalKey
            /\ [m EXCEPT !.key = CanonicalKey].local = m.local
BY DEF Storages

\* A storage that is changed in one place.
LEMMA StoreIs ==
  ASSUME TopicsInv
  PROVE  /\ mem.topic \in [Targets -> 0 .. MaxTopics] /\ mem.unbound \in [Sessions -> 0 .. MaxTopics]
         /\ mem.local \in [Sessions -> {"unknown", "active", "inactive", "archived"}]
         /\ mem.key \in Keys
         /\ \A s \in Sessions, v \in {"unknown", "active", "inactive", "archived"} :
              mem' = [mem EXCEPT !.local[s] = v] =>
                /\ mem'.key = mem.key /\ mem'.topic = mem.topic /\ mem'.unbound = mem.unbound
                /\ mem'.local[s] = v /\ \A q \in Sessions \ {s} : mem'.local[q] = mem.local[q]
         /\ \A y \in Targets, t \in 0 .. MaxTopics :
              mem' = [mem EXCEPT !.topic[y] = t] =>
                /\ mem'.key = mem.key /\ mem'.unbound = mem.unbound /\ mem'.local = mem.local
                /\ mem'.topic[y] = t /\ \A z \in Targets \ {y} : mem'.topic[z] = mem.topic[z]
         /\ \A s \in Sessions, t \in 0 .. MaxTopics :
              mem' = [mem EXCEPT !.unbound[s] = t] =>
                /\ mem'.key = mem.key /\ mem'.topic = mem.topic /\ mem'.local = mem.local
                /\ mem'.unbound[s] = t /\ \A q \in Sessions \ {s} : mem'.unbound[q] = mem.unbound[q]
<1>1. mem \in Storages
  BY DEF TopicsInv, StoreTypes
<1>2. /\ mem.topic \in [Targets -> 0 .. MaxTopics] /\ mem.unbound \in [Sessions -> 0 .. MaxTopics]
      /\ mem.local \in [Sessions -> {"unknown", "active", "inactive", "archived"}]
      /\ mem.key \in Keys
  BY <1>1 DEF Storages, Keys
<1>3. ASSUME NEW s \in Sessions, NEW v \in {"unknown", "active", "inactive", "archived"},
             mem' = [mem EXCEPT !.local[s] = v]
      PROVE  /\ mem'.key = mem.key /\ mem'.topic = mem.topic /\ mem'.unbound = mem.unbound
             /\ mem'.local[s] = v /\ \A q \in Sessions \ {s} : mem'.local[q] = mem.local[q]
  BY <1>1, <1>2, <1>3, StoreSet, FieldsSet
<1>4. ASSUME NEW y \in Targets, NEW t \in 0 .. MaxTopics, mem' = [mem EXCEPT !.topic[y] = t]
      PROVE  /\ mem'.key = mem.key /\ mem'.unbound = mem.unbound /\ mem'.local = mem.local
             /\ mem'.topic[y] = t /\ \A z \in Targets \ {y} : mem'.topic[z] = mem.topic[z]
  BY <1>1, <1>2, <1>4, StoreSet, FieldsSet
<1>5. ASSUME NEW s \in Sessions, NEW t \in 0 .. MaxTopics, mem' = [mem EXCEPT !.unbound[s] = t]
      PROVE  /\ mem'.key = mem.key /\ mem'.topic = mem.topic /\ mem'.local = mem.local
             /\ mem'.unbound[s] = t /\ \A q \in Sessions \ {s} : mem'.unbound[q] = mem.unbound[q]
  BY <1>1, <1>2, <1>5, StoreSet, FieldsSet
<1> QED BY <1>2, <1>3, <1>4, <1>5

\* Nothing is asked of a session the step does not touch.
LEMMA KnownSame ==
  ASSUME KeptInv, NEW s \in Sessions, creation'[s] = creation[s], archive'[s] = archive[s],
         mem'.local[s] = mem.local[s], mem'.unbound[s] = mem.unbound[s],
         disk' = disk \/ disk' = mem',
         cleanup' \subseteq cleanup, Opening(s)' => Opening(s) \/ mem.local[s] # "unknown"
  PROVE  KnownStep(s)
<1>1. Known(s) /\ (creation[s].pc # "none" => creation[s].key \in {mem.key, LegacyKey})
  BY DEF KeptInv, KeysKnown
<1>2. (BothArchived(s) => BothArchived(s)') /\ (mem'.local[s] = "unknown" <=> disk'.local[s] = "unknown")
  BY <1>1 DEF Known, BothArchived
<1>3. mem'.unbound[s] \in {NoTopic, disk'.unbound[s]}
  BY <1>1 DEF Known
<1> QED BY <1>1, <1>2, <1>3 DEF Known, KnownStep

\* Nor of whether a topic is made for it.
LEMMA BusySame ==
  ASSUME KeptInv, NEW s \in Sessions, s \notin raced, NEW b, NEW x, ~(b \in Topics /\ x = s),
         creation'[s].pc = "none" \/ creation'[s] = creation[s],
         callback' = callback \/ ~Opening(s)'
  PROVE  BusyStep(s, b, x)
<1>1. Busy(s)
  BY DEF KeptInv
<1>2. Opening(s)' => callback' = callback /\ Opening(s)
  BY DEF Opening
<1> QED BY <1>1, <1>2 DEF Busy, BusyStep

\* state.json, where no topic is named that was not.
LEMMA NamesMove ==
  ASSUME KeptInv, NEW b, NEW x, disk' = disk \/ disk' = mem',
         mem'.key = mem.key \/ (mem'.key = CanonicalKey /\ disk' = mem'),
         \A y \in Targets : mem'.topic[y] \in {NoTopic, mem.topic[y]} \/ (y = x /\ mem'.topic[y] = b),
         \A s \in Sessions : mem.local[s] = "archived" => mem'.local[s] = "archived"
  PROVE  NameStep(b, x)
<1>1. disk.key = mem.key
  BY DEF KeptInv, KeysKnown
<1>2. \A y \in Targets : From(mem', mem, y, b, x) /\ From(disk, disk, y, b, x)
  BY DEF From
<1> QED BY <1>1, <1>2 DEF NameStep

\* The rows, where none is changed.
LEMMA RowsSame == ASSUME route' = route, NEW x PROVE RowStep(NoTopic, x)
BY Bounds DEF RowStep, Stands, Live, Fresh

\* Where the row of a session's topic is archived.
LEMMA RowsArchived ==
  ASSUME TopicsInv, KeptInv, NEW s \in Sessions, NEW t \in 0 .. MaxTopics, NEW x,
         route' = Archived(route, t), t # NoTopic => madeFor[t] = s,
         BothArchived(s)', t # NoTopic => archive'[s].topic = t \/ tg'[t] # "open"
  PROVE  RowStep(NoTopic, x)
<1>1. NoTopic \notin Topics /\ NoTopic = 0 /\ \A u \in 0 .. MaxTopics : u # 0 => u \in Topics
  BY Bounds
<1>2. route \in [Topics -> Rows]
  BY DEF TopicsInv, StoreTypes
<1>3. \A u \in Topics : /\ [route[u] EXCEPT !.status = "archived"].to = route[u].to
                        /\ [route[u] EXCEPT !.status = "archived"].key = route[u].key
                        /\ [route[u] EXCEPT !.status = "archived"].status = "archived"
  BY <1>2 DEF Rows
<1>4. \A u \in Topics :
        \/ route'[u] = route[u]
        \/ /\ u = t /\ route[u].status = "active" /\ route'[u].status = "archived"
           /\ route'[u].to = route[u].to /\ route'[u].key = route[u].key
  <2>1. CASE t # NoTopic /\ route[t].status = "active"
    <3>1. t \in Topics /\ route' = [route EXCEPT ![t] = [route[t] EXCEPT !.status = "archived"]]
      BY <1>1, <2>1 DEF Archived
    <3> QED BY <1>2, <1>3, <2>1, <3>1
  <2>2. CASE ~(t # NoTopic /\ route[t].status = "active")
    BY <2>2 DEF Archived
  <2> QED BY <2>1, <2>2
<1>5. \A u \in Topics : Stands(u)
  BY <1>4 DEF Stands, Live, Fresh
<1> QED BY <1>1, <1>4, <1>5 DEF RowStep, Live

\* What is in hand and what is counted, where a press, a /new, an archiving ends.
LEMMA HandsGo ==
  ASSUME KeptInv, madeFor' = madeFor, lost \subseteq lost',
         \A t \in Topics : tg'[t] = "open" => tg[t] = "open",
         \/ callback' = callback
         \/ /\ callback'.pc # "made"
            /\ \A t \in Topics : Pressed(t) => t \in lost' \/ Live(t)',
         callback'.pc = "probe" /\ callback' # callback =>
           /\ callback'.topic \in Topics /\ Live(callback'.topic)
           /\ madeFor[callback'.topic] = callback'.to,
         \A s \in Sessions :
           \/ creation'[s] = creation[s]
           \/ /\ creation'[s].pc # "made"
              /\ \A t \in Topics : Newly(s, t) => t \in lost' \/ Live(t)' \/ t = mem'.unbound[s],
         \A s \in Sessions, t \in Topics :
           /\ t = archive[s].topic /\ madeFor[t] = s =>
                t = archive'[s].topic \/ t \in lost' \/ tg'[t] # "open"
           /\ t = mem.unbound[s] => t = mem'.unbound[s] \/ t \in lost' \/ Live(t)'
           /\ t \in {mem'.unbound[s], disk'.unbound[s]} => Noted(s, t) \/ Newly(s, t)
  PROVE  HandStep
<1>1. \A t \in Topics : Pressed(t)' => Pressed(t) /\ callback'.to = callback.to
  BY DEF Pressed
<1>2. callback'.pc = "probe" => /\ callback'.topic \in Topics /\ ~Fresh(callback'.topic)
                                /\ madeFor[callback'.topic] = callback'.to
  BY DEF KeptInv, Whose, Live, Fresh
<1>3. \A s \in Sessions, t \in Topics : /\ Newly(s, t)' => Newly(s, t)
                                        /\ Noted(s, t)' => Noted(s, t) \/ Newly(s, t)
  BY DEF Newly, Noted
<1>4. ASSUME NEW s \in Sessions, NEW t \in Topics, Seen(s, t)', ~Live(t)'
      PROVE  Seen(s, t) /\ (Held(s, t) => Held(s, t)')
  <2>1. /\ madeFor[t] = s /\ tg'[t] = "open" /\ t \notin lost'
        /\ t # mem'.unbound[s] /\ t # archive'[s].topic
    BY <1>4 DEF Seen
  <2>2. Seen(s, t)
    BY <1>4, <2>1 DEF Seen
  <2>3. Held(s, t) => Held(s, t)'
    BY <1>4, <2>1 DEF Held, Pressed, Newly
  <2> QED BY <2>2, <2>3
<1> QED BY <1>1, <1>2, <1>3, <1>4 DEF HandStep

-----------------------------------------------------------------------------
(* The steps that bind and make nothing keep it.                           *)

\* Where rows, storage and the group stay as they are.
LEMMA StillKept ==
  ASSUME TopicsInv, TopicsInv', KeptInv, UNCHANGED <<madeFor, route, mem, disk>>,
         raced \subseteq raced', HandStep, \A s \in Sessions : KnownStep(s),
         \A s \in Sessions \ raced' : BusyStep(s, NoTopic, Workspace)
  PROVE  KeptInv'
<1>1. RowStep(NoTopic, Workspace)
  BY RowsSame
<1>2. NameStep(NoTopic, Workspace)
  BY NamesMove
<1>3. NoTopic \in 0 .. MaxTopics /\ Workspace \in Targets
  BY Bounds
<1> QED BY <1>1, <1>2, <1>3, KeptStep

\* A press is handled for its target.
LEMMA PressIsIts ==
  ASSUME TopicsInv, KeptInv, NEW x \in Targets, Presses(x)
  PROVE  /\ callback'.to = x /\ callback'.pc \in {"probe", "asked"}
         /\ callback'.pc = "probe" =>
              /\ callback'.topic \in Topics /\ Live(callback'.topic) /\ madeFor[callback'.topic] = x
              /\ x # Agent => \A t \in Topics : Live(t) /\ madeFor[t] = x /\ route[t].key = mem.key =>
                                t = callback'.topic
         /\ callback'.pc = "asked" /\ x # Agent => NoneLive(x, mem.key)
<1>1. CASE TopicOf(x) # NoTopic
  <2>1. callback' = [pc |-> "probe", to |-> x, topic |-> TopicOf(x)]
    BY <1>1 DEF Presses
  <2> QED BY <1>1, <2>1, TopicIsIts
<1>2. CASE TopicOf(x) = NoTopic
  <2>1. callback' = [pc |-> "asked", to |-> x, topic |-> NoTopic]
    BY <1>2 DEF Presses
  <2> QED BY <1>2, <2>1, TopicIsIts
<1> QED BY <1>1, <1>2

\* A button is pressed.
LEMMA PressKept ==
  ASSUME TopicsInv, TopicsInv', KeptInv,
         OpenAgent \/ LooksForAgent \/ \E s \in Sessions : OpenThread(s)
  PROVE  KeptInv'
<1>1. /\ UNCHANGED <<tg, madeFor, route, mem, disk, creation, archive, cleanup, lost>>
      /\ callback.pc = "idle"
  BY DEF OpenAgent, LooksForAgent, OpenThread
<1>2. PICK x \in Targets :
        /\ x \in Sessions \/ x = Agent
        /\ x \in Sessions => OpenThread(x)
        /\ x = Agent => raced' = raced
        /\ callback'.to = x /\ callback'.pc \in {"probe", "asked"}
        /\ callback'.pc = "probe" =>
              /\ callback'.topic \in Topics /\ Live(callback'.topic) /\ madeFor[callback'.topic] = x
              /\ x # Agent => \A t \in Topics : Live(t) /\ madeFor[t] = x /\ route[t].key = mem.key =>
                                t = callback'.topic
        /\ callback'.pc = "asked" /\ x # Agent => NoneLive(x, mem.key)
  <2>1. CASE OpenAgent
    <3>1. callback' = [pc |-> "asked", to |-> Agent, topic |-> NoTopic] /\ raced' = raced
      BY <2>1 DEF OpenAgent, noted
    <3> QED BY <3>1, Bounds
  <2>2. CASE LooksForAgent
    <3>1. Presses(Agent) /\ raced' = raced
      BY <2>2 DEF LooksForAgent, noted
    <3> QED BY <3>1, PressIsIts, Bounds
  <2>3. ASSUME NEW s \in Sessions, OpenThread(s)
        PROVE  \E x \in Targets :
                 /\ x \in Sessions \/ x = Agent
                 /\ x \in Sessions => OpenThread(x)
                 /\ x = Agent => raced' = raced
                 /\ callback'.to = x /\ callback'.pc \in {"probe", "asked"}
                 /\ callback'.pc = "probe" =>
                       /\ callback'.topic \in Topics /\ Live(callback'.topic)
                       /\ madeFor[callback'.topic] = x
                       /\ x # Agent => \A t \in Topics :
                            Live(t) /\ madeFor[t] = x /\ route[t].key = mem.key => t = callback'.topic
                 /\ callback'.pc = "asked" /\ x # Agent => NoneLive(x, mem.key)
    <3>1. Presses(s) /\ s \in Targets /\ s # Agent
      BY <2>3, Bounds DEF OpenThread
    <3> QED BY <2>3, <3>1, PressIsIts
  <2> QED BY <2>1, <2>2, <2>3
<1>3. HandStep
  BY <1>1, <1>2, HandsGo DEF Pressed, Noted
<1>4. raced \subseteq raced'
        /\ \A s \in Sessions : s = x => mem.local[s] # "unknown" /\ (s \notin raced' => creation[s].pc = "none")
  BY <1>2, Bounds DEF OpenThread
<1>5. ASSUME NEW s \in Sessions
      PROVE  KnownStep(s)
  <2>1. Opening(s)' => s = x
    BY <1>2 DEF Opening
  <2> QED BY <1>1, <1>4, <2>1, KnownSame
<1>6. ASSUME NEW s \in Sessions, s \notin raced'
      PROVE  BusyStep(s, NoTopic, Workspace)
  <2>1. CASE s = x
    <3>1. x # Agent
      BY <2>1, Bounds
    <3> QED BY <1>1, <1>2, <1>4, <1>6, <2>1, <3>1, Bounds DEF BusyStep
  <2>2. CASE s # x
    <3>1. ~Opening(s)' /\ s \notin raced
      BY <1>2, <1>4, <1>6, <2>2 DEF Opening
    <3> QED BY <1>1, <3>1, BusySame, Bounds
  <2> QED BY <2>1, <2>2
<1> QED BY <1>1, <1>3, <1>4, <1>5, <1>6, StillKept

\* The press is over: the topic is there, or it is not made, or not bound.
LEMMA PressEndsKept ==
  ASSUME TopicsInv, TopicsInv', KeptInv, ProbeFound \/ PressFails
  PROVE  KeptInv'
<1>1. /\ UNCHANGED <<tg, madeFor, route, mem, disk, creation, archive, raced>>
      /\ callback'.pc = "idle" /\ cleanup' \subseteq cleanup
      /\ lost \subseteq lost'
  BY DEF ProbeFound, PressFails, Ends, Idle, noted
<1>2. \A t \in Topics : Pressed(t) => t \in lost'
  BY Bounds DEF Pressed, ProbeFound, PressFails
<1>3. HandStep
  BY <1>1, <1>2, HandsGo DEF Noted
<1>4. \A s \in Sessions : ~Opening(s)'
  BY <1>1 DEF Opening
<1>5. \A s \in Sessions : KnownStep(s)
  BY <1>1, <1>4, KnownSame
<1>6. \A s \in Sessions \ raced' : BusyStep(s, NoTopic, Workspace)
  BY <1>1, <1>4, BusySame, Bounds
<1> QED BY <1>1, <1>3, <1>5, <1>6, StillKept

\* /archive begins, and the provider archives.
LEMMA ArchiveKept ==
  ASSUME TopicsInv, TopicsInv', KeptInv, NEW s \in Sessions,
         Archive(s, "source") \/ Archive(s, "desktop") \/ SourceArchives(s)
  PROVE  KeptInv'
<1>1. UNCHANGED <<tg, madeFor, route, mem, disk, callback, creation, cleanup, lost, raced>>
  BY DEF Archive, SourceArchives, noted
<1>2. \A q \in Sessions : /\ archive'[q].topic = archive[q].topic
                          /\ archive'[q].pc = "topic" <=> archive[q].pc = "topic"
  <2>1. archive \in [Sessions -> ArchiveRecord]
    BY DEF TopicsInv, HandTypes
  <2>2. ASSUME NEW who \in {"source", "desktop"}, archive' = [archive EXCEPT ![s].pc = who],
               archive[s].pc = "none"
        PROVE  \A q \in Sessions : /\ archive'[q].topic = archive[q].topic
                                   /\ archive'[q].pc = "topic" <=> archive[q].pc = "topic"
    BY <2>1, <2>2 DEF ArchiveRecord
  <2> QED BY <2>2 DEF Archive, SourceArchives
<1>3. HandStep
  BY <1>1, <1>2, HandsGo DEF Noted
<1>4. ASSUME NEW q \in Sessions
      PROVE  KnownStep(q)
  <2>1. Known(q) /\ (creation[q].pc # "none" => creation[q].key \in {mem.key, LegacyKey})
    BY DEF KeptInv, KeysKnown
  <2> QED BY <1>1, <1>2, <2>1 DEF Known, KnownStep, BothArchived, Opening
<1>5. \A q \in Sessions \ raced' : BusyStep(q, NoTopic, Workspace)
  BY <1>1, BusySame, Bounds
<1> QED BY <1>1, <1>3, <1>4, <1>5, StillKept

\* A user deletes a topic, or writes in one without a row.
LEMMA GroupKept ==
  ASSUME TopicsInv, TopicsInv', KeptInv, NEW u \in Topics, UserDeletes(u) \/ Observes(u)
  PROVE  KeptInv'
<1>1. /\ UNCHANGED <<madeFor, mem, disk, callback, creation, archive, cleanup, lost, raced>>
      /\ \A t \in Topics : tg'[t] = "open" => tg[t] = "open"
  BY DEF UserDeletes, Observes, noted, TopicsInv, GroupTypes
<1>2. HandStep
  BY <1>1, HandsGo DEF Noted
<1>3. RowStep(NoTopic, Workspace)
  <2>1. CASE UserDeletes(u)
    BY <2>1, RowsSame DEF UserDeletes
  <2>2. CASE Observes(u)
    <3>1. PICK row : row = [NoRow EXCEPT !.status = "unknown"]
      OBVIOUS
    <3>2. row.status = "unknown"
      BY <3>1 DEF NoRow
    <3>3. route' = [route EXCEPT ![u] = row] /\ route[u].status = "none"
      BY <2>2, <3>1 DEF Observes
    <3>4. /\ route'[u].status = "unknown"
          /\ \A t \in Topics \ {u} : route'[t] = route[t]
      BY <3>2, <3>3 DEF TopicsInv, StoreTypes
    <3> QED BY <3>3, <3>4, Bounds DEF RowStep, Stands, Live, Fresh
  <2> QED BY <2>1, <2>2
<1>4. NameStep(NoTopic, Workspace)
  BY <1>1, NamesMove
<1>5. \A q \in Sessions : KnownStep(q)
  BY <1>1, KnownSame DEF Opening
<1>6. \A q \in Sessions \ raced' : BusyStep(q, NoTopic, Workspace)
  BY <1>1, BusySame, Bounds
<1> QED BY <1>1, <1>2, <1>3, <1>4, <1>5, <1>6, KeptStep, Bounds

\* What a /new that asks for its topic is.
LEMMA AsksFor == ASSUME NEW s \in Sessions
                 PROVE  Asked(s).pc = "asked" /\ Asked(s).key = mem.key /\ Asked(s).topic = NoTopic
BY DEF Asked, None

\* /new registers the session: it has no topic yet.
LEMMA NewKept ==
  ASSUME TopicsInv, TopicsInv', KeptInv, NEW s \in Sessions, New(s)
  PROVE  KeptInv'
<1>1. /\ UNCHANGED <<tg, madeFor, route, callback, archive, cleanup, lost, raced>>
      /\ mem' = [mem EXCEPT !.local[s] = "active"] /\ disk' = mem'
      /\ mem.local[s] = "unknown"
  BY DEF New, noted
<1>2. /\ mem'.key = mem.key /\ mem'.topic = mem.topic /\ mem'.unbound = mem.unbound
      /\ mem'.local[s] = "active" /\ \A q \in Sessions \ {s} : mem'.local[q] = mem.local[q]
  BY <1>1, StoreIs
<1>3. /\ creation'[s].pc = "asked" /\ creation'[s].key = mem.key
      /\ \A q \in Sessions \ {s} : creation'[q] = creation[q]
  BY AsksFor DEF New, TopicsInv, HandTypes
<1>4. /\ Known(s) /\ NoneLive(s, mem.key) /\ ~Opening(s) /\ creation[s].pc = "none"
      /\ mem.unbound[s] = NoTopic
  <2>1. Known(s)
    BY DEF KeptInv
  <2> QED BY <1>1, <2>1 DEF Known, NoneLive
<1>5. RowStep(NoTopic, Workspace) /\ NameStep(NoTopic, Workspace)
  <2>1. NameStep(NoTopic, Workspace)
    BY <1>1, <1>2, NamesMove
  <2> QED BY <1>1, <2>1, RowsSame
<1>6. HandStep
  <2>1. \A q \in Sessions : \/ creation'[q] = creation[q]
                            \/ creation'[q].pc # "made" /\ \A t \in Topics : ~Newly(q, t)
    BY <1>3, <1>4 DEF Newly
  <2> QED BY <1>1, <1>2, <2>1, HandsGo DEF Noted
<1>7. ASSUME NEW q \in Sessions
      PROVE  KnownStep(q)
  <2>1. CASE q = s
    <3>1. KnownStep(s)
      BY <1>1, <1>2, <1>3, <1>4 DEF Known, KnownStep, BothArchived
    <3> QED BY <2>1, <3>1
  <2>2. CASE q # s
    BY <1>1, <1>2, <1>3, <2>2, KnownSame DEF Opening
  <2> QED BY <2>1, <2>2
<1>8. ASSUME NEW q \in Sessions, q \notin raced'
      PROVE  BusyStep(q, NoTopic, Workspace)
  <2>1. CASE q = s
    <3>1. BusyStep(s, NoTopic, Workspace)
      BY <1>1, <1>3, <1>4, Bounds DEF BusyStep, Opening
    <3> QED BY <2>1, <3>1
  <2>2. CASE q # s
    BY <1>1, <1>3, <1>8, <2>2, BusySame, Bounds
  <2> QED BY <2>1, <2>2
<1> QED BY <1>1, <1>5, <1>6, <1>7, <1>8, KeptStep, Bounds

\* --resume of a session that has its topic, or for which one is asked for.
LEMMA ResumeKept ==
  ASSUME TopicsInv, TopicsInv', KeptInv, NEW s \in Sessions, Resume(s), ~Rebinds(s)
  PROVE  KeptInv'
<1>1. /\ UNCHANGED <<tg, madeFor, callback, archive, cleanup>>
      /\ creation[s].pc = "none" /\ mem.local[s] # "unknown"
  BY DEF Resume
<1>2. CASE TopicOf(s) # NoTopic
  <2>1. /\ mem' = [mem EXCEPT !.unbound[s] = NoTopic]
        /\ lost' = lost \cup ({mem.unbound[s]} \ {NoTopic, TopicOf(s)})
        /\ UNCHANGED <<route, disk, creation, raced>>
    BY <1>2 DEF Resume
  <2>2. /\ mem'.key = mem.key /\ mem'.topic = mem.topic /\ mem'.local = mem.local
        /\ mem'.unbound[s] = NoTopic /\ \A q \in Sessions \ {s} : mem'.unbound[q] = mem.unbound[q]
    BY <2>1, StoreIs, Bounds
  <2>3. TopicOf(s) \in Topics /\ Live(TopicOf(s))
    BY <1>2, TopicIsIts, Bounds
  <2>4. HandStep
    <3>1. \A q \in Sessions, t \in Topics :
            /\ t = mem.unbound[q] => t = mem'.unbound[q] \/ t \in lost' \/ Live(t)'
            /\ t \in {mem'.unbound[q], disk'.unbound[q]} => Noted(q, t)
      BY <2>1, <2>2, <2>3, Bounds DEF Noted, Live
    <3> QED BY <1>1, <2>1, <3>1, HandsGo
  <2>5. RowStep(NoTopic, Workspace) /\ NameStep(NoTopic, Workspace)
    <3>1. NameStep(NoTopic, Workspace)
      BY <2>1, <2>2, NamesMove
    <3> QED BY <2>1, <3>1, RowsSame
  <2>6. ASSUME NEW q \in Sessions
        PROVE  KnownStep(q)
    <3>1. Known(q) /\ (creation[q].pc # "none" => creation[q].key \in {mem.key, LegacyKey})
      BY DEF KeptInv, KeysKnown
    <3>2. mem'.unbound[q] \in {NoTopic, mem.unbound[q]} /\ mem'.local[q] = mem.local[q]
      BY <2>2
    <3> QED BY <1>1, <2>1, <3>1, <3>2 DEF Known, KnownStep, BothArchived, Opening
  <2>7. \A q \in Sessions \ raced' : BusyStep(q, NoTopic, Workspace)
    BY <1>1, <2>1, BusySame, Bounds
  <2> QED BY <1>1, <2>1, <2>4, <2>5, <2>6, <2>7, KeptStep, Bounds
<1>3. CASE TopicOf(s) = NoTopic
  <2>1. /\ mem.unbound[s] = NoTopic /\ creation' = [creation EXCEPT ![s] = Asked(s)]
        /\ raced' = IF Opening(s) THEN raced \cup {s} ELSE raced
        /\ UNCHANGED <<route, mem, disk, lost>>
    BY <1>3 DEF Resume, Rebinds
  <2>2. /\ creation'[s].pc = "asked" /\ creation'[s].key = mem.key
        /\ \A q \in Sessions \ {s} : creation'[q] = creation[q]
    BY <2>1, AsksFor DEF TopicsInv, HandTypes
  <2>3. NoneLive(s, mem.key)
    BY <1>3, TopicIsIts, Bounds
  <2>4. HandStep
    <3>1. \A q \in Sessions : \/ creation'[q] = creation[q]
                              \/ creation'[q].pc # "made" /\ \A t \in Topics : ~Newly(q, t)
      BY <1>1, <2>2 DEF Newly
    <3> QED BY <1>1, <2>1, <3>1, HandsGo DEF Noted
  <2>5. ASSUME NEW q \in Sessions
        PROVE  KnownStep(q)
    <3>1. CASE q = s
      <4>1. Known(s)
        BY DEF KeptInv
      <4>2. KnownStep(s)
        BY <1>1, <2>1, <2>2, <4>1 DEF Known, KnownStep, BothArchived
      <4> QED BY <3>1, <4>2
    <3>2. CASE q # s
      BY <1>1, <2>1, <2>2, <3>2, KnownSame DEF Opening
    <3> QED BY <3>1, <3>2
  <2>6. ASSUME NEW q \in Sessions, q \notin raced'
        PROVE  BusyStep(q, NoTopic, Workspace)
    <3>1. CASE q = s
      <4>1. ~Opening(s)
        BY <2>1, <2>6, <3>1
      <4>2. BusyStep(s, NoTopic, Workspace)
        BY <1>1, <2>2, <2>3, <4>1, Bounds DEF BusyStep, Opening
      <4> QED BY <3>1, <4>2
    <3>2. CASE q # s
      BY <1>1, <2>1, <2>2, <2>6, <3>2, BusySame, Bounds
    <3> QED BY <3>1, <3>2
  <2> QED BY <1>1, <2>1, <2>4, <2>5, <2>6, StillKept
<1> QED BY <1>2, <1>3

\* A /new fails: its topic is lost, or kept for --resume.
LEMMA NewFailsKept ==
  ASSUME TopicsInv, TopicsInv', KeptInv, NEW s \in Sessions, NewFails(s)
  PROVE  KeptInv'
<1>1. /\ creation' = [creation EXCEPT ![s] = None] /\ creation[s].pc # "none"
      /\ UNCHANGED <<tg, madeFor, route, callback, archive, cleanup, raced>>
  BY DEF NewFails, noted
<1>2. creation'[s].pc = "none" /\ \A q \in Sessions \ {s} : creation'[q] = creation[q]
  BY <1>1 DEF None, TopicsInv, HandTypes
<1>3. Known(s) /\ mem.local[s] # "unknown" /\ mem.unbound[s] = NoTopic
  <2>1. Known(s)
    BY DEF KeptInv
  <2> QED BY <1>1, <2>1 DEF Known
<1>4. \A q \in Sessions \ raced' : BusyStep(q, NoTopic, Workspace)
  BY <1>1, <1>2, BusySame, Bounds
<1>5. RowStep(NoTopic, Workspace)
  BY <1>1, RowsSame
<1>6. CASE lost' = lost \cup ({creation[s].topic} \ {NoTopic}) /\ UNCHANGED <<mem, disk>>
  <2>1. HandStep
    <3>1. \A t \in Topics : Newly(s, t) => t \in lost'
      BY <1>6, Bounds DEF Newly
    <3>2. \A q \in Sessions :
            \/ creation'[q] = creation[q]
            \/ /\ creation'[q].pc # "made"
               /\ \A t \in Topics : Newly(q, t) => t \in lost'
      BY <1>2, <3>1
    <3> QED BY <1>1, <1>6, <3>2, HandsGo DEF Noted
  <2>2. ASSUME NEW q \in Sessions
        PROVE  KnownStep(q)
    <3>1. Known(q) /\ (creation[q].pc # "none" => creation[q].key \in {mem.key, LegacyKey})
      BY DEF KeptInv, KeysKnown
    <3>2. creation'[q].pc = "none" \/ creation'[q] = creation[q]
      BY <1>2
    <3> QED BY <1>1, <1>6, <3>1, <3>2 DEF Known, KnownStep, BothArchived, Opening
  <2> QED BY <1>1, <1>4, <1>6, <2>1, <2>2, StillKept
<1>7. CASE /\ creation[s].pc = "made" /\ UNCHANGED lost
           /\ mem' = [mem EXCEPT !.unbound[s] = creation[s].topic] /\ disk' = mem'
  <2>1. creation[s].topic \in 0 .. MaxTopics
    BY DEF TopicsInv, HandTypes, CreationRecord
  <2>2. /\ mem'.key = mem.key /\ mem'.topic = mem.topic /\ mem'.local = mem.local
        /\ mem'.unbound[s] = creation[s].topic
        /\ \A q \in Sessions \ {s} : mem'.unbound[q] = mem.unbound[q]
    BY <1>7, <2>1, StoreIs
  <2>3. NameStep(NoTopic, Workspace)
    BY <1>7, <2>2, NamesMove
  <2>4. HandStep
    <3>1. \A t \in Topics : Newly(s, t) <=> t = mem'.unbound[s]
      BY <1>7, <2>2 DEF Newly
    <3>2. \A q \in Sessions :
            \/ creation'[q] = creation[q]
            \/ /\ creation'[q].pc # "made"
               /\ \A t \in Topics : Newly(q, t) => t = mem'.unbound[q]
      BY <1>2, <3>1
    <3>3. \A q \in Sessions, t \in Topics :
            /\ t = mem.unbound[q] => t = mem'.unbound[q]
            /\ t \in {mem'.unbound[q], disk'.unbound[q]} => Noted(q, t) \/ Newly(q, t)
      BY <1>3, <1>7, <2>2, <3>1, Bounds DEF Noted
    <3> QED BY <1>1, <1>7, <3>2, <3>3, HandsGo
  <2>5. ASSUME NEW q \in Sessions
        PROVE  KnownStep(q)
    <3>1. CASE q = s
      <4>1. KnownStep(s)
        BY <1>1, <1>2, <1>3, <1>7, <2>2 DEF Known, KnownStep, BothArchived, Opening
      <4> QED BY <3>1, <4>1
    <3>2. CASE q # s
      BY <1>1, <1>2, <1>7, <2>2, <3>2, KnownSame DEF Opening
    <3> QED BY <3>1, <3>2
  <2> QED BY <1>1, <1>4, <1>5, <1>7, <2>3, <2>4, <2>5, KeptStep, Bounds
<1> QED BY <1>6, <1>7 DEF NewFails

\* A session is archived, its topic next if it has one: startup, or /archive.
LEMMA ArchivedKept ==
  ASSUME TopicsInv, TopicsInv', KeptInv, NEW s \in Sessions,
         UNCHANGED <<tg, madeFor, callback, creation, lost, raced>>, cleanup' \subseteq cleanup,
         mem' = [mem EXCEPT !.local[s] = "archived"], disk' = mem', archive[s].pc # "topic",
         \/ /\ TopicOf(s) # NoTopic /\ route' = Archived(route, TopicOf(s))
            /\ archive' = [archive EXCEPT ![s] = [pc |-> "topic", topic |-> TopicOf(s)]]
         \/ archive' = [archive EXCEPT ![s] = Done] /\ UNCHANGED route
  PROVE  KeptInv'
<1>1. /\ mem'.key = mem.key /\ mem'.topic = mem.topic /\ mem'.unbound = mem.unbound
      /\ mem'.local[s] = "archived" /\ \A q \in Sessions \ {s} : mem'.local[q] = mem.local[q]
      /\ BothArchived(s)'
  BY StoreIs DEF BothArchived
<1>2. archive[s].topic = NoTopic /\ Known(s)
  BY DEF KeptInv, Known
<1>3. s \in Targets /\ TopicOf(s) \in 0 .. MaxTopics /\ (TopicOf(s) # NoTopic => madeFor[TopicOf(s)] = s)
  BY TopicIsIts, Bounds
<1>4. /\ \A q \in Sessions \ {s} : archive'[q] = archive[q]
      /\ archive'[s].pc = "topic" => /\ archive'[s].topic = TopicOf(s) /\ TopicOf(s) # NoTopic
      /\ archive'[s].pc # "topic" => archive'[s].topic = NoTopic
  BY DEF TopicsInv, HandTypes, Done
<1>5. NameStep(NoTopic, Workspace)
  BY <1>1, NamesMove
<1>6. RowStep(NoTopic, Workspace)
  <2>1. CASE /\ TopicOf(s) # NoTopic /\ route' = Archived(route, TopicOf(s))
             /\ archive' = [archive EXCEPT ![s] = [pc |-> "topic", topic |-> TopicOf(s)]]
    <3>1. archive'[s].topic = TopicOf(s)
      BY <2>1 DEF TopicsInv, HandTypes
    <3> QED BY <1>1, <1>3, <2>1, <3>1, RowsArchived
  <2>2. CASE UNCHANGED route
    BY <2>2, RowsSame
  <2> QED BY <2>1, <2>2
<1>7. HandStep
  <2>1. \A q \in Sessions, t \in Topics : t = archive[q].topic => t = archive'[q].topic
    BY <1>2, <1>4, Bounds
  <2> QED BY <1>1, <2>1, HandsGo DEF Noted
<1>8. ASSUME NEW q \in Sessions
      PROVE  KnownStep(q)
  <2>1. CASE q = s
    <3>1. creation[s].pc # "none" => creation[s].key \in {mem.key, LegacyKey}
      BY DEF KeptInv, KeysKnown
    <3>2. KnownStep(s)
      BY <1>1, <1>2, <1>3, <1>4, <3>1 DEF Known, KnownStep, BothArchived, Opening
    <3> QED BY <2>1, <3>2
  <2>2. CASE q # s
    BY <1>1, <1>4, <2>2, KnownSame DEF Opening
  <2> QED BY <2>1, <2>2
<1>9. \A q \in Sessions \ raced' : BusyStep(q, NoTopic, Workspace)
  BY BusySame, Bounds
<1> QED BY <1>5, <1>6, <1>7, <1>8, <1>9, KeptStep, Bounds

\* The session is archived, and its topic goes next.
LEMMA CommitKept ==
  ASSUME TopicsInv, TopicsInv', KeptInv, NEW s \in Sessions, Commit(s)
  PROVE  KeptInv'
BY ArchivedKept DEF Commit, noted

\* Startup looks at a session.
LEMMA LooksKept ==
  ASSUME TopicsInv, TopicsInv', KeptInv, NEW s \in Sessions, Looks(s)
  PROVE  KeptInv'
<1>1. /\ UNCHANGED <<tg, madeFor, callback, creation, lost, raced>> /\ s \in cleanup
      /\ archive[s].pc # "topic"
  BY DEF Looks, noted
<1>2. CASE mem.local[s] # "archived" /\ s \in source /\ TopicOf(s) # NoTopic
  BY <1>1, <1>2, ArchivedKept DEF Looks
<1>3. CASE ~(mem.local[s] # "archived" /\ s \in source /\ TopicOf(s) # NoTopic)
  <2>1. /\ mem' = IF mem.local[s] = "archived" THEN mem
                  ELSE [mem EXCEPT !.local[s] = IF s \in source THEN "inactive" ELSE "active"]
        /\ cleanup' \subseteq cleanup /\ UNCHANGED <<disk, route, archive>>
    BY <1>3 DEF Looks
  <2>2. /\ mem'.key = mem.key /\ mem'.topic = mem.topic /\ mem'.unbound = mem.unbound
        /\ mem.local[s] = "archived" => mem' = mem
        /\ mem.local[s] # "archived" => mem'.local[s] \in {"active", "inactive"}
        /\ \A q \in Sessions \ {s} : mem'.local[q] = mem.local[q]
    BY <2>1, StoreIs
  <2>3. NameStep(NoTopic, Workspace) /\ RowStep(NoTopic, Workspace)
    <3>1. NameStep(NoTopic, Workspace)
      BY <2>1, <2>2, NamesMove
    <3> QED BY <2>1, <3>1, RowsSame
  <2>4. HandStep
    BY <1>1, <2>1, <2>2, HandsGo DEF Noted
  <2>5. ASSUME NEW q \in Sessions
        PROVE  KnownStep(q)
    <3>1. CASE q = s
      <4>1. Known(s) /\ (creation[s].pc # "none" => creation[s].key \in {mem.key, LegacyKey})
        BY DEF KeptInv, KeysKnown
      <4>2. KnownStep(s)
        BY <1>1, <2>1, <2>2, <4>1 DEF Known, KnownStep, BothArchived, Opening
      <4> QED BY <3>1, <4>2
    <3>2. CASE q # s
      BY <1>1, <2>1, <2>2, <3>2, KnownSame DEF Opening
    <3> QED BY <3>1, <3>2
  <2>6. \A q \in Sessions \ raced' : BusyStep(q, NoTopic, Workspace)
    BY <1>1, BusySame, Bounds
  <2> QED BY <1>1, <2>3, <2>4, <2>5, <2>6, KeptStep, Bounds
<1> QED BY <1>2, <1>3

\* The topic of an archived session goes, or Telegram refuses.
LEMMA LeavesKept ==
  ASSUME TopicsInv, TopicsInv', KeptInv, NEW s \in Sessions, TopicGoes(s) \/ TopicStays(s)
  PROVE  KeptInv'
<1>1. /\ UNCHANGED <<madeFor, callback, creation, raced>> /\ lost \subseteq lost'
      /\ archive[s].pc = "topic" /\ archive' = [archive EXCEPT ![s] = Done]
      /\ cleanup' \subseteq cleanup /\ (disk' = disk \/ disk' = mem')
  BY DEF TopicGoes, TopicStays, Leaves, noted
<1>2. PICK t : t = archive[s].topic
  OBVIOUS
<1>3. t \in Topics /\ t \in 0 .. MaxTopics /\ madeFor[t] = s /\ BothArchived(s)
  <2>1. t \in 0 .. MaxTopics /\ t # NoTopic
    BY <1>1, <1>2 DEF TopicsInv, HandTypes, ArchiveRecord
  <2> QED BY <1>1, <1>2, <2>1, Bounds DEF KeptInv, Known
<1>4. /\ archive'[s].pc = "none" /\ archive'[s].topic = NoTopic
      /\ \A q \in Sessions \ {s} : archive'[q] = archive[q]
  BY <1>1 DEF Done, TopicsInv, HandTypes
<1>5. /\ mem'.key = mem.key /\ mem'.local = mem.local /\ mem'.unbound = mem.unbound
      /\ \A y \in Targets : mem'.topic[y] \in {mem.topic[y], NoTopic}
  <2>1. mem' = mem \/ mem' = [mem EXCEPT !.topic[s] = NoTopic]
    BY DEF TopicGoes, TopicStays
  <2> QED BY <2>1, StoreIs, Bounds
<1>6. BothArchived(s)'
  BY <1>1, <1>3, <1>5 DEF BothArchived
<1>7. /\ \A u \in Topics : tg'[u] = "open" => tg[u] = "open"
      /\ t \in lost' \/ tg'[t] # "open"
      /\ (route' = Archived(route, t) /\ tg'[t] # "open") \/ route' = route
  <2>1. CASE TopicGoes(s)
    <3>1. PICK way \in Ways : tg' = [tg EXCEPT ![t] = way]
      BY <1>2, <2>1 DEF TopicGoes
    <3>2. way # "open"
      BY TopicsAssumption
    <3>3. route' = Archived(route, t)
      BY <1>2, <2>1 DEF TopicGoes
    <3> QED BY <1>3, <3>1, <3>2, <3>3 DEF TopicsInv, GroupTypes
  <2>2. CASE TopicStays(s)
    BY <1>2, <2>2 DEF TopicStays
  <2> QED BY <2>1, <2>2
<1>8. RowStep(NoTopic, Workspace)
  BY <1>3, <1>6, <1>7, RowsArchived, RowsSame
<1>9. NameStep(NoTopic, Workspace)
  BY <1>1, <1>5, NamesMove
<1>10. HandStep
  <2>1. \A q \in Sessions, u \in Topics : u = archive[q].topic =>
          u = archive'[q].topic \/ u \in lost' \/ tg'[u] # "open"
    BY <1>2, <1>4, <1>7
  <2> QED BY <1>1, <1>5, <1>7, <2>1, HandsGo DEF Noted
<1>11. ASSUME NEW q \in Sessions
       PROVE  KnownStep(q)
  <2>1. CASE q = s
    <3>1. Known(s) /\ (creation[s].pc # "none" => creation[s].key \in {mem.key, LegacyKey})
      BY DEF KeptInv, KeysKnown
    <3>2. KnownStep(s)
      BY <1>1, <1>4, <1>5, <1>6, <3>1 DEF Known, KnownStep, BothArchived, Opening
    <3> QED BY <2>1, <3>2
  <2>2. CASE q # s
    BY <1>1, <1>4, <1>5, <2>2, KnownSame DEF Opening
  <2> QED BY <2>1, <2>2
<1>12. \A q \in Sessions \ raced' : BusyStep(q, NoTopic, Workspace)
  BY <1>1, BusySame, Bounds
<1> QED BY <1>1, <1>8, <1>9, <1>10, <1>11, <1>12, KeptStep, Bounds

\* A probe that finds the topic gone: its row is closed, and no other was live.
LEMMA ProbeMissingKept ==
  ASSUME TopicsInv, TopicsInv', KeptInv, ProbeMissing
  PROVE  KeptInv'
<1>1. /\ callback.pc = "probe" /\ tg[callback.topic] = "deleted"
      /\ route' = Invalidated(route, callback.topic)
      /\ UNCHANGED <<tg, madeFor, creation, archive, lost, raced>>
  BY DEF ProbeMissing, noted
<1>2. PICK t, x : t = callback.topic /\ x = callback.to
  OBVIOUS
<1>3. t \in Topics /\ madeFor[t] = x /\ ~Fresh(t) /\ tg[t] = "deleted" /\ x \in Targets
  BY <1>1, <1>2 DEF KeptInv, Whose, TopicsInv, HandTypes, CallbackRecord
<1>4. /\ route'[t].status = "invalid" /\ route'[t].to = route[t].to /\ route'[t].key = route[t].key
      /\ \A u \in Topics \ {t} : route'[u] = route[u]
  <2>1. route \in [Topics -> Rows]
    BY DEF TopicsInv, StoreTypes
  <2>2. route' = [route EXCEPT ![t] = [route[t] EXCEPT !.status = "invalid"]]
    BY <1>1, <1>2 DEF Invalidated
  <2>3. /\ [route[t] EXCEPT !.status = "invalid"].to = route[t].to
        /\ [route[t] EXCEPT !.status = "invalid"].key = route[t].key
        /\ [route[t] EXCEPT !.status = "invalid"].status = "invalid"
    BY <1>3, <2>1 DEF Rows
  <2> QED BY <1>3, <2>1, <2>2, <2>3
<1>5. RowStep(NoTopic, Workspace)
  <2>1. \A u \in Topics : Stands(u)
    BY <1>3, <1>4 DEF Stands, Live, Fresh
  <2> QED BY <1>1, <1>3, <1>4, <2>1, Bounds DEF RowStep, Live
<1>6. /\ callback'.pc \in {"idle", "asked"} /\ (callback'.pc = "asked" => callback'.to = x)
      /\ cleanup' \subseteq cleanup /\ (disk' = disk \/ disk' = mem')
      /\ mem'.key = mem.key /\ mem'.local = mem.local /\ mem'.unbound = mem.unbound
      /\ \A y \in Targets : mem'.topic[y] \in {mem.topic[y], NoTopic}
  <2>1. CASE Ends /\ UNCHANGED <<mem, disk>>
    BY <2>1 DEF Ends, Idle
  <2>2. CASE /\ callback' = [callback EXCEPT !.pc = "asked", !.topic = NoTopic]
             /\ mem' = IF x \in Sessions THEN [mem EXCEPT !.topic[x] = NoTopic] ELSE mem
             /\ disk' = IF x \in Sessions THEN mem' ELSE disk
             /\ UNCHANGED cleanup
    <3>1. callback'.pc = "asked" /\ callback'.to = x
      BY <1>2, <2>2 DEF TopicsInv, HandTypes, CallbackRecord
    <3> QED BY <1>3, <2>2, <3>1, StoreIs, Bounds
  <2> QED BY <1>2, <2>1, <2>2 DEF ProbeMissing
<1>7. NameStep(NoTopic, Workspace)
  BY <1>6, NamesMove
<1>8. HandStep
  <2>1. \A u \in Topics : ~Pressed(u)
    BY <1>1 DEF Pressed
  <2> QED BY <1>1, <1>6, <2>1, HandsGo DEF Noted
<1>9. \A s \in Sessions : Opening(s)' => callback'.pc = "asked" /\ s = x /\ Opening(s)
  BY <1>1, <1>2, <1>6 DEF Opening
<1>10. \A s \in Sessions : KnownStep(s)
  BY <1>1, <1>6, <1>9, KnownSame
<1>11. ASSUME NEW s \in Sessions, s \notin raced'
       PROVE  BusyStep(s, NoTopic, Workspace)
  <2>1. CASE s = x /\ callback'.pc = "asked"
    <3>1. Busy(s) /\ Opening(s)
      BY <1>1, <1>2, <1>11, <2>1 DEF KeptInv, Opening
    <3>2. \A u \in Topics : Live(u) /\ madeFor[u] = s /\ route[u].key = mem.key => u = t
      BY <1>1, <1>2, <3>1 DEF Busy
    <3>3. NoneLive(s, mem.key)'
      BY <1>1, <1>4, <1>6, <3>2 DEF NoneLive, Live
    <3> QED BY <1>1, <2>1, <3>1, <3>3, Bounds DEF BusyStep, Busy
  <2>2. CASE ~(s = x /\ callback'.pc = "asked")
    <3>1. ~Opening(s)'
      BY <1>9, <2>2
    <3> QED BY <1>1, <1>11, <3>1, BusySame, Bounds
  <2> QED BY <2>1, <2>2
<1> QED BY <1>1, <1>5, <1>7, <1>8, <1>10, <1>11, KeptStep, Bounds

-----------------------------------------------------------------------------
(* The steps that bind a topic keep it.                                    *)

\* A topic is bound to its target, a session that has none under the key.
LEMMA RowsBound ==
  ASSUME TopicsInv, KeptInv, NEW b \in Topics, NEW x \in Targets, NEW key \in Keys,
         route' = Upsert(route, b, x, key), madeFor[b] = x,
         x \in Sessions => key \in {mem.key, LegacyKey} /\ (x \in raced' \/ NoneLive(x, key))
  PROVE  RowStep(b, x)
<1>1. /\ route'[b].to = x /\ route'[b].key = key /\ route'[b].status = "active"
      /\ \A t \in Topics \ {b} : Closes(route', route, t)
  <2>1. PICK row : row = [to |-> x, key |-> key, status |-> "active"]
    OBVIOUS
  <2>2. row.to = x /\ row.key = key /\ row.status = "active"
    BY <2>1
  <2>3. route'[b] = row /\ \A t \in Topics \ {b} : Closes(route', route, t)
    BY <2>1, UpsertIs DEF TopicsInv, StoreTypes
  <2> QED BY <2>2, <2>3
<1>2. \A t \in Topics : t # b => Stands(t)
  BY <1>1 DEF Stands, Closes, Live, Fresh
<1>3. \A t \in Topics \ {b} :
        \/ route'[t] = route[t]
        \/ /\ route[t].to = x /\ route[t].key = key /\ route[t].status = "active"
           /\ route'[t].status = "invalid"
  <2> SUFFICES ASSUME NEW t \in Topics \ {b}
               PROVE  \/ route'[t] = route[t]
                      \/ /\ route[t].to = x /\ route[t].key = key /\ route[t].status = "active"
                         /\ route'[t].status = "invalid"
    OBVIOUS
  <2>1. route'[t] = IF t \in Active(route, x, key) THEN [route[t] EXCEPT !.status = "invalid"]
                    ELSE route[t]
    BY DEF Upsert
  <2>2. [route[t] EXCEPT !.status = "invalid"].status = "invalid"
    BY DEF TopicsInv, StoreTypes, Rows
  <2>3. t \in Active(route, x, key) =>
          route[t].to = x /\ route[t].key = key /\ route[t].status = "active"
    BY DEF Active
  <2> QED BY <2>1, <2>2, <2>3
<1>4. ASSUME NEW s \in Sessions, NEW t \in Topics, madeFor[t] = s, Live(t), ~Live(t)'
      PROVE  s \in raced'
  <2>1. t # b /\ route[t].to = s /\ route'[t] # route[t]
    BY <1>1, <1>4 DEF KeptInv, Whose, Live, Fresh
  <2>2. s = x /\ route[t].key = key
    BY <1>3, <2>1
  <2> QED BY <1>4, <2>2 DEF NoneLive
<1>5. \A t \in Topics : route'[t].status = "archived" => route[t].status = "archived"
  BY <1>1, <1>3
<1> QED BY <1>1, <1>2, <1>4, <1>5 DEF RowStep, Live

\* The storage names the topic for the target.
LEMMA NamesBound ==
  ASSUME TopicsInv, KeptInv, NEW b \in Topics, NEW x \in Targets, NEW key,
         NEW store \in Storages, store.topic = mem.topic, store.local = mem.local,
         store.key \in {mem.key, CanonicalKey}, Binds(b, x, key, store)
  PROVE  /\ NameStep(b, x) /\ disk' = mem' /\ mem'.local = mem.local /\ mem'.unbound = store.unbound
         /\ mem'.key = store.key
<1>1. b \in 0 .. MaxTopics
  BY Bounds
<1>2. disk' = mem' /\ (mem' = store \/ mem' = [store EXCEPT !.topic[x] = b])
  BY DEF Binds
<1>3. /\ mem'.key = store.key /\ mem'.local = store.local /\ mem'.unbound = store.unbound
      /\ \A y \in Targets : mem'.topic[y] = store.topic[y] \/ (y = x /\ mem'.topic[y] = b)
  <2>1. store.topic \in [Targets -> 0 .. MaxTopics]
    BY DEF Storages
  <2>2. /\ [store EXCEPT !.topic[x] = b].topic = [store.topic EXCEPT ![x] = b]
        /\ [store EXCEPT !.topic[x] = b].unbound = store.unbound
        /\ [store EXCEPT !.topic[x] = b].key = store.key
        /\ [store EXCEPT !.topic[x] = b].local = store.local
    BY <1>1, StoreSet, FieldsSet
  <2> QED BY <1>2, <2>1, <2>2
<1>4. NameStep(b, x)
  BY <1>2, <1>3, NamesMove
<1> QED BY <1>2, <1>3, <1>4

\* A /new binds its topic: no press is at the session's.
LEMMA NewBindsKept ==
  ASSUME TopicsInv, TopicsInv', KeptInv, NEW s \in Sessions, NewBinds(s)
  PROVE  KeptInv'
<1>1. PICK b, key : b = creation[s].topic /\ key = creation[s].key
  OBVIOUS
<1>2. /\ creation[s].pc = "made" /\ Binds(b, s, key, mem)
      /\ creation' = [creation EXCEPT ![s] = None]
      /\ UNCHANGED <<tg, madeFor, callback, archive, cleanup, lost, raced>>
  BY <1>1 DEF NewBinds, noted
<1>3. /\ b \in Topics /\ b \in 0 .. MaxTopics /\ Newly(s, b) /\ madeFor[b] = s /\ key \in Keys
      /\ key \in {mem.key, LegacyKey} /\ mem \in Storages /\ s \in Targets
  <2>1. b \in 1 .. made /\ made \in 0 .. MaxTopics /\ MaxTopics \in Nat /\ Topics = 1 .. MaxTopics
    BY <1>1, <1>2, Bounds DEF TopicsInv, HandTypes, HandsRight
  <2>2. Newly(s, b)
    BY <1>1, <1>2 DEF Newly
  <2>3. key \in Keys /\ mem \in Storages /\ s \in Targets
    BY <1>1, Bounds DEF TopicsInv, HandTypes, StoreTypes, CreationRecord
  <2> QED BY <1>1, <1>2, <2>1, <2>2, <2>3 DEF KeptInv, Whose, KeysKnown
<1>4. creation'[s].pc = "none" /\ \A q \in Sessions \ {s} : creation'[q] = creation[q]
  BY <1>2 DEF None, TopicsInv, HandTypes
<1>5. s \notin raced => NoneLive(s, key) /\ ~Opening(s)
  BY <1>1, <1>2 DEF KeptInv, Busy
<1>6. RowStep(b, s) /\ Live(b)'
  <2>1. route' = Upsert(route, b, s, key)
    BY <1>2 DEF Binds
  <2>2. RowStep(b, s)
    BY <1>2, <1>3, <1>5, <2>1, RowsBound
  <2> QED BY <1>3, <2>2 DEF RowStep
<1>7. NameStep(b, s) /\ disk' = mem' /\ mem'.local = mem.local /\ mem'.unbound = mem.unbound
  BY <1>2, <1>3, NamesBound
<1>8. HandStep
  <2>1. \A t \in Topics : Newly(s, t) => Live(t)'
    BY <1>1, <1>6 DEF Newly
  <2>2. \A q \in Sessions : \/ creation'[q] = creation[q]
                            \/ creation'[q].pc # "made" /\ \A t \in Topics : Newly(q, t) => Live(t)'
    BY <1>4, <2>1
  <2> QED BY <1>2, <1>7, <2>2, HandsGo DEF Noted
<1>9. ASSUME NEW q \in Sessions
      PROVE  KnownStep(q)
  <2>1. CASE q = s
    <3>1. Known(s)
      BY DEF KeptInv
    <3>2. KnownStep(s)
      BY <1>2, <1>4, <1>7, <3>1 DEF Known, KnownStep, BothArchived
    <3> QED BY <2>1, <3>2
  <2>2. CASE q # s
    BY <1>2, <1>4, <1>7, <2>2, KnownSame DEF Opening
  <2> QED BY <2>1, <2>2
<1>10. ASSUME NEW q \in Sessions, q \notin raced'
       PROVE  BusyStep(q, b, s)
  <2>1. CASE q = s
    <3>1. ~Opening(s)'
      BY <1>2, <1>5, <1>10, <2>1 DEF Opening
    <3> QED BY <1>4, <2>1, <3>1 DEF BusyStep
  <2>2. CASE q # s
    BY <1>2, <1>4, <1>10, <2>2, BusySame
  <2> QED BY <2>1, <2>2
<1> QED BY <1>2, <1>3, <1>6, <1>7, <1>8, <1>9, <1>10, KeptStep

\* --resume binds the topic that its /new had kept.
LEMMA RebindsKept ==
  ASSUME TopicsInv, TopicsInv', KeptInv, NEW s \in Sessions, Resume(s), Rebinds(s)
  PROVE  KeptInv'
<1>1. PICK b, store : b = mem.unbound[s] /\ store = [mem EXCEPT !.unbound[s] = NoTopic]
  OBVIOUS
<1>2. /\ Binds(b, s, mem.key, store) /\ b # NoTopic /\ TopicOf(s) = NoTopic
      /\ creation[s].pc = "none" /\ mem.local[s] # "unknown"
      /\ raced' = IF Opening(s) THEN raced \cup {s} ELSE raced
      /\ UNCHANGED <<tg, madeFor, callback, creation, archive, cleanup, lost>>
  BY <1>1 DEF Resume, Rebinds
<1>3. /\ b \in Topics /\ b \in 0 .. MaxTopics /\ Noted(s, b) /\ madeFor[b] = s /\ mem.key \in Keys
      /\ s \in Targets
  <2>1. b \in 0 .. MaxTopics /\ mem.key \in Keys
    BY <1>1, StoreIs
  <2>2. b \in Topics
    BY <1>2, <2>1, Bounds
  <2>3. Noted(s, b)
    BY <1>1 DEF Noted
  <2> QED BY <2>1, <2>2, <2>3, Bounds DEF KeptInv, Whose
<1>4. /\ store \in Storages /\ store.topic = mem.topic /\ store.local = mem.local
      /\ store.key = mem.key /\ store.unbound = [mem.unbound EXCEPT ![s] = NoTopic]
  <2>1. mem \in Storages /\ NoTopic \in 0 .. MaxTopics
    BY Bounds DEF TopicsInv, StoreTypes
  <2>2. \A q \in Sessions, u \in 0 .. MaxTopics :
          /\ [mem EXCEPT !.unbound[q] = u] \in Storages
          /\ [mem EXCEPT !.unbound[q] = u].topic = mem.topic
          /\ [mem EXCEPT !.unbound[q] = u].unbound = [mem.unbound EXCEPT ![q] = u]
    BY <2>1, StoreSet
  <2>3. \A q \in Sessions, u \in 0 .. MaxTopics :
          /\ [mem EXCEPT !.unbound[q] = u].key = mem.key
          /\ [mem EXCEPT !.unbound[q] = u].local = mem.local
    BY <2>1, FieldsSet
  <2> QED BY <1>1, <2>1, <2>2, <2>3
<1>5. NoneLive(s, mem.key)
  BY <1>2, <1>3, TopicIsIts, Bounds
<1>6. RowStep(b, s) /\ Live(b)'
  <2>1. route' = Upsert(route, b, s, mem.key)
    BY <1>2 DEF Binds
  <2>2. RowStep(b, s)
    BY <1>2, <1>3, <1>5, <2>1, RowsBound
  <2> QED BY <1>3, <2>2 DEF RowStep
<1>7. /\ NameStep(b, s) /\ disk' = mem' /\ mem'.local = mem.local
      /\ mem'.unbound = [mem.unbound EXCEPT ![s] = NoTopic]
  BY <1>2, <1>3, <1>4, NamesBound
<1>8. mem'.unbound[s] = NoTopic /\ \A q \in Sessions \ {s} : mem'.unbound[q] = mem.unbound[q]
  BY <1>7, StoreIs
<1>9. HandStep
  <2>1. \A q \in Sessions, t \in Topics :
          /\ t = mem.unbound[q] => t = mem'.unbound[q] \/ Live(t)'
          /\ t \in {mem'.unbound[q], disk'.unbound[q]} => Noted(q, t)
    BY <1>1, <1>6, <1>7, <1>8, Bounds DEF Noted
  <2> QED BY <1>2, <2>1, HandsGo
<1>10. ASSUME NEW q \in Sessions
       PROVE  KnownStep(q)
  <2>1. CASE q = s
    <3>1. Known(s) /\ (creation[s].pc # "none" => creation[s].key \in {mem.key, LegacyKey})
      BY DEF KeptInv, KeysKnown
    <3>2. KnownStep(s)
      BY <1>2, <1>7, <1>8, <3>1 DEF Known, KnownStep, BothArchived
    <3> QED BY <2>1, <3>2
  <2>2. CASE q # s
    BY <1>2, <1>7, <1>8, <2>2, KnownSame DEF Opening
  <2> QED BY <2>1, <2>2
<1>11. ASSUME NEW q \in Sessions, q \notin raced'
       PROVE  BusyStep(q, b, s)
  <2>1. CASE q = s
    <3>1. ~Opening(s)'
      BY <1>2, <1>11, <2>1 DEF Opening
    <3> QED BY <1>2, <2>1, <3>1 DEF BusyStep
  <2>2. CASE q # s
    BY <1>2, <1>11, <2>2, BusySame
  <2> QED BY <2>1, <2>2
<1> QED BY <1>2, <1>3, <1>6, <1>7, <1>9, <1>10, <1>11, KeptStep

\* A press binds its topic: it is no session's that a /new is under way for.
LEMMA PressBindsKept ==
  ASSUME TopicsInv, TopicsInv', KeptInv, PressBinds
  PROVE  KeptInv'
<1>1. PICK b, x, key, store :
        /\ b = callback.topic /\ x = callback.to /\ key = KeyFor(callback.to)
        /\ store = IF callback.to = Workspace THEN [mem EXCEPT !.key = CanonicalKey] ELSE mem
  OBVIOUS
<1>2. /\ callback.pc = "made" /\ Binds(b, x, key, store) /\ callback'.pc = "idle"
      /\ cleanup' \subseteq cleanup
      /\ UNCHANGED <<tg, madeFor, creation, archive, lost, raced>>
  BY <1>1 DEF PressBinds, Ends, Idle, noted
<1>3. b \in Topics /\ b \in 0 .. MaxTopics /\ madeFor[b] = x /\ x \in Targets
  <2>1. b \in 1 .. made /\ made \in 0 .. MaxTopics /\ MaxTopics \in Nat /\ Topics = 1 .. MaxTopics
    BY <1>1, <1>2, Bounds DEF TopicsInv, HandTypes, HandsRight
  <2>2. Pressed(b)
    BY <1>1, <1>2 DEF Pressed
  <2>3. x \in Targets
    BY <1>1 DEF TopicsInv, HandTypes, CallbackRecord
  <2> QED BY <1>1, <2>1, <2>2, <2>3 DEF KeptInv, Whose
<1>4. key \in Keys /\ (x \in Sessions => key = mem.key)
  <2>1. KeyOf(x) \in Keys
    BY <1>3, TopicIs DEF TopicsInv
  <2>2. x \in Sessions => KeyFor(x) = mem.key
    BY Bounds DEF KeyFor, KeyOf
  <2> QED BY <1>1, <2>1, <2>2 DEF KeyFor, Keys
<1>5. /\ store \in Storages /\ store.topic = mem.topic /\ store.unbound = mem.unbound
      /\ store.local = mem.local /\ store.key \in {mem.key, CanonicalKey}
  BY <1>1, StoreSet, FieldsSet DEF TopicsInv, StoreTypes
<1>6. x \in Sessions \ raced => NoneLive(x, mem.key) /\ creation[x].pc = "none"
  <2> SUFFICES ASSUME x \in Sessions \ raced
               PROVE  NoneLive(x, mem.key) /\ creation[x].pc = "none"
    OBVIOUS
  <2>1. Busy(x) /\ Opening(x)
    BY <1>1, <1>2 DEF KeptInv, Opening
  <2> QED BY <1>2, <2>1 DEF Busy
<1>7. RowStep(b, x) /\ Live(b)'
  <2>1. route' = Upsert(route, b, x, key)
    BY <1>2 DEF Binds
  <2>2. RowStep(b, x)
    BY <1>2, <1>3, <1>4, <1>6, <2>1, RowsBound
  <2> QED BY <1>3, <2>2 DEF RowStep
<1>8. NameStep(b, x) /\ disk' = mem' /\ mem'.local = mem.local /\ mem'.unbound = mem.unbound
  BY <1>2, <1>3, <1>5, NamesBound
<1>9. HandStep
  <2>1. \A t \in Topics : Pressed(t) => Live(t)'
    BY <1>1, <1>7 DEF Pressed
  <2> QED BY <1>2, <1>8, <2>1, HandsGo DEF Noted
<1>10. \A q \in Sessions : ~Opening(q)'
  BY <1>2 DEF Opening
<1>11. \A q \in Sessions : KnownStep(q)
  BY <1>2, <1>8, <1>10, KnownSame
<1>12. ASSUME NEW q \in Sessions, q \notin raced'
       PROVE  BusyStep(q, b, x)
  <2>1. CASE q = x
    <3>1. creation'[q].pc = "none" /\ ~Opening(q)'
      BY <1>2, <1>6, <1>10, <1>12, <2>1
    <3> QED BY <3>1 DEF BusyStep
  <2>2. CASE q # x
    BY <1>2, <1>10, <1>12, <2>2, BusySame
  <2> QED BY <2>1, <2>2
<1> QED BY <1>2, <1>3, <1>7, <1>8, <1>9, <1>11, <1>12, KeptStep

\* The workspace gets its canonical key, its topic with it.
LEMMA OpenWorkspaceKept ==
  ASSUME TopicsInv, TopicsInv', KeptInv, OpenWorkspace
  PROVE  KeptInv'
<1>1. /\ UNCHANGED <<tg, madeFor, creation, archive, cleanup, lost, raced>>
      /\ callback.pc = "idle" /\ Presses(Workspace)
  BY DEF OpenWorkspace, noted
<1>2. /\ callback'.to = Workspace /\ callback'.pc \in {"probe", "asked"}
      /\ callback'.pc = "probe" =>
           /\ callback'.topic \in Topics /\ Live(callback'.topic)
           /\ madeFor[callback'.topic] = callback'.to
  BY <1>1, PressIsIts, Bounds
<1>3. (\A q \in Sessions : ~Opening(q)') /\ \A t \in Topics : ~Pressed(t)
  BY <1>1, <1>2, Bounds DEF Opening, Pressed
<1>4. CASE ~(TopicOf(Workspace) # NoTopic /\ mem.key # CanonicalKey)
  <2>1. UNCHANGED <<route, mem, disk>>
    BY <1>4 DEF OpenWorkspace
  <2>2. HandStep
    BY <1>1, <1>2, <1>3, <2>1, HandsGo DEF Noted
  <2>3. \A q \in Sessions : KnownStep(q)
    BY <1>1, <1>3, <2>1, KnownSame
  <2>4. \A q \in Sessions \ raced' : BusyStep(q, NoTopic, Workspace)
    BY <1>1, <1>3, BusySame, Bounds
  <2> QED BY <1>1, <2>1, <2>2, <2>3, <2>4, StillKept
<1>5. CASE TopicOf(Workspace) # NoTopic /\ mem.key # CanonicalKey
  <2>1. PICK b, store : b = TopicOf(Workspace) /\ store = [mem EXCEPT !.key = CanonicalKey]
    OBVIOUS
  <2>2. Binds(b, Workspace, CanonicalKey, store)
    BY <1>5, <2>1 DEF OpenWorkspace
  <2>3. b \in Topics /\ b \in 0 .. MaxTopics /\ madeFor[b] = Workspace
    BY <1>5, <2>1, TopicIsIts, Bounds
  <2>4. /\ store \in Storages /\ store.topic = mem.topic /\ store.unbound = mem.unbound
        /\ store.local = mem.local /\ store.key \in {mem.key, CanonicalKey}
    BY <2>1, StoreSet, FieldsSet DEF TopicsInv, StoreTypes
  <2>5. RowStep(b, Workspace)
    <3>1. route' = Upsert(route, b, Workspace, CanonicalKey)
      BY <2>2 DEF Binds
    <3>2. CanonicalKey \in Keys
      BY DEF Keys
    <3> QED BY <2>3, <3>1, <3>2, RowsBound, Bounds
  <2>6. /\ NameStep(b, Workspace) /\ disk' = mem' /\ mem'.local = mem.local
        /\ mem'.unbound = mem.unbound
    BY <2>2, <2>3, <2>4, NamesBound, Bounds
  <2>7. HandStep
    BY <1>1, <1>2, <1>3, <2>6, HandsGo DEF Noted
  <2>8. \A q \in Sessions : KnownStep(q)
    BY <1>1, <1>3, <2>6, KnownSame
  <2>9. \A q \in Sessions \ raced' : BusyStep(q, b, Workspace)
    BY <1>1, <1>3, BusySame, Bounds
  <2> QED BY <1>1, <2>3, <2>5, <2>6, <2>7, <2>8, <2>9, KeptStep, Bounds
<1> QED BY <1>4, <1>5

\* What state.json names has its row: a restart fills up nothing.
LEMMA NothingMigrates ==
  ASSUME TopicsInv, KeptInv, NEW r \in [Topics -> Rows],
         \A t \in Topics : ~Fresh(t) => r[t].status \notin {"none", "unknown"}
  PROVE  Migrated(r, disk) = r
<1>1. disk \in Storages
  BY DEF TopicsInv, StoreTypes
<1>2. ASSUME NEW t \in Topics
      PROVE  Migrated(r, disk)[t] = r[t]
  <2>1. ASSUME Migrated(r, disk)[t] # r[t]
        PROVE  \E x \in Targets : disk.topic[x] = t /\ r[t].status \in {"none", "unknown"}
    BY <1>1, <2>1, MigratedIs
  <2> QED BY <2>1 DEF KeptInv, Whose
<1>3. Migrated(r, disk) \in [Topics -> Rows]
  BY <1>1, MigratedIs
<1> QED BY <1>2, <1>3

\* The process starts again, with a topic bound in the routes only perhaps.
LEMMA RestartKept ==
  ASSUME TopicsInv, TopicsInv', KeptInv, NEW b \in 0 .. MaxTopics, NEW x \in Targets,
         NEW r, Restarted(r), RowStep(b, x)
  PROVE  KeptInv'
<1>1. /\ mem' = disk /\ disk' = disk
      /\ callback' = Idle /\ creation' = [s \in Sessions |-> None]
      /\ archive' = [s \in Sessions |-> Done]
      /\ cleanup' = {Agent} \cup {s \in Sessions : disk.local[s] # "unknown"}
      /\ UNCHANGED <<tg, madeFor, raced>>
  BY DEF Restarted
<1>2. /\ lost \subseteq lost'
      /\ \A t \in Topics : Pressed(t) => t \in lost'
      /\ \A s \in Sessions, t \in Topics :
           /\ Newly(s, t) => t \in lost'
           /\ archive[s].pc = "topic" /\ t = archive[s].topic => t \in lost'
  BY DEF Restarted, Pressed, Newly
<1>3. /\ callback'.pc = "idle"
      /\ \A s \in Sessions : creation'[s].pc = "none" /\ archive'[s].pc = "none"
                             /\ archive'[s].topic = NoTopic
  BY <1>1 DEF Idle, None, Done
<1>4. NameStep(b, x)
  <2>1. \A y \in Targets : From(disk, disk, y, b, x)
    BY DEF From
  <2>2. disk.key = mem.key
    BY DEF KeptInv, KeysKnown
  <2> QED BY <1>1, <2>1, <2>2 DEF NameStep
<1>5. HandStep
  <2>1. \A s \in Sessions, t \in Topics :
          /\ t = archive[s].topic => t \in lost'
          /\ t = mem.unbound[s] => t = mem'.unbound[s]
          /\ t \in {mem'.unbound[s], disk'.unbound[s]} => Noted(s, t)
    BY <1>1, <1>2, Bounds DEF KeptInv, Known, Noted
  <2> QED BY <1>1, <1>2, <1>3, <2>1, HandsGo
<1>6. ASSUME NEW s \in Sessions
      PROVE  KnownStep(s)
  <2>1. Known(s) /\ s # Agent
    BY Bounds DEF KeptInv
  <2> QED BY <1>1, <1>3, <2>1 DEF Known, KnownStep, BothArchived, Opening
<1>7. \A s \in Sessions : BusyStep(s, b, x)
  BY <1>3 DEF BusyStep, Opening
<1> QED BY <1>1, <1>2, <1>4, <1>5, <1>6, <1>7, KeptStep

\* A crash, between two steps or between a topic's row and the save.
LEMMA CrashKept ==
  ASSUME TopicsInv, TopicsInv', KeptInv, Crash \/ DiesBinding
  PROVE  KeptInv'
<1>1. route \in [Topics -> Rows]
  BY DEF TopicsInv, StoreTypes
<1>2. CASE Crash
  <2>1. Restarted(route)
    BY <1>2 DEF Crash
  <2>2. route' = route
    BY <1>1, <2>1, NothingMigrates DEF Restarted, Fresh
  <2> QED BY <2>1, <2>2, RowsSame, RestartKept, Bounds
<1>3. ASSUME NEW b \in Topics, NEW x \in Targets, NEW key \in Keys,
             Restarted(Upsert(route, b, x, key)), madeFor[b] = x,
             x \in Sessions => key \in {mem.key, LegacyKey} /\ (x \in raced \/ NoneLive(x, key))
      PROVE  KeptInv'
  <2>1. PICK r : r = Upsert(route, b, x, key)
    OBVIOUS
  <2>2. r \in [Topics -> Rows] /\ \A t \in Topics : ~Fresh(t) => r[t].status \notin {"none", "unknown"}
    <3>1. r \in [Topics -> Rows] /\ \A t \in Topics \ {b} : Closes(r, route, t)
      BY <1>1, <2>1, UpsertIs
    <3>2. r[b].status = "active"
      <4>1. PICK row : row = [to |-> x, key |-> key, status |-> "active"]
        OBVIOUS
      <4>2. r[b] = row
        BY <1>1, <2>1, <4>1, UpsertIs
      <4> QED BY <4>1, <4>2
    <3> QED BY <3>1, <3>2 DEF Closes, Fresh
  <2>3. route' = r /\ raced' = raced
    BY <1>3, <2>1, <2>2, NothingMigrates DEF Restarted
  <2>4. RowStep(b, x)
    BY <1>3, <2>1, <2>3, RowsBound
  <2> QED BY <1>3, <2>1, <2>4, RestartKept, Bounds
<1>4. CASE /\ callback.pc = "made"
           /\ Restarted(Upsert(route, callback.topic, callback.to, KeyFor(callback.to)))
  <2>1. PICK b, x, key : b = callback.topic /\ x = callback.to /\ key = KeyFor(callback.to)
    OBVIOUS
  <2>2. b \in Topics /\ madeFor[b] = x /\ x \in Targets
    <3>1. b \in 1 .. made /\ made \in 0 .. MaxTopics /\ MaxTopics \in Nat /\ Topics = 1 .. MaxTopics
      BY <1>4, <2>1, Bounds DEF TopicsInv, HandTypes, HandsRight
    <3>2. Pressed(b) /\ x \in Targets
      BY <1>4, <2>1 DEF Pressed, TopicsInv, HandTypes, CallbackRecord
    <3> QED BY <2>1, <3>1, <3>2 DEF KeptInv, Whose
  <2>3. key \in Keys /\ (x \in Sessions => key = mem.key)
    <3>1. KeyOf(x) \in Keys
      BY <2>2, TopicIs DEF TopicsInv
    <3>2. x \in Sessions => KeyFor(x) = mem.key
      BY Bounds DEF KeyFor, KeyOf
    <3> QED BY <2>1, <3>1, <3>2 DEF KeyFor, Keys
  <2>4. x \in Sessions => x \in raced \/ NoneLive(x, mem.key)
    <3>1. x \in Sessions => Opening(x) /\ callback.pc # "probe"
      BY <1>4, <2>1 DEF Opening
    <3> QED BY <3>1 DEF KeptInv, Busy
  <2> QED BY <1>3, <1>4, <2>1, <2>2, <2>3, <2>4
<1>5. ASSUME NEW s \in Sessions, creation[s].pc = "made",
             Restarted(Upsert(route, creation[s].topic, s, creation[s].key))
      PROVE  KeptInv'
  <2>1. PICK b, key : b = creation[s].topic /\ key = creation[s].key
    OBVIOUS
  <2>2. b \in Topics /\ madeFor[b] = s /\ key \in Keys /\ key \in {mem.key, LegacyKey} /\ s \in Targets
    <3>1. b \in 1 .. made /\ made \in 0 .. MaxTopics /\ MaxTopics \in Nat /\ Topics = 1 .. MaxTopics
      BY <1>5, <2>1, Bounds DEF TopicsInv, HandTypes, HandsRight
    <3>2. Newly(s, b) /\ key \in Keys
      BY <1>5, <2>1 DEF Newly, TopicsInv, HandTypes, CreationRecord
    <3> QED BY <1>5, <2>1, <3>1, <3>2, Bounds DEF KeptInv, Whose, KeysKnown
  <2>3. s \in raced \/ NoneLive(s, key)
    BY <1>5, <2>1 DEF KeptInv, Busy
  <2> QED BY <1>3, <1>5, <2>1, <2>2, <2>3
<1>6. ASSUME NEW s \in Sessions, Rebinds(s), Restarted(Upsert(route, mem.unbound[s], s, mem.key))
      PROVE  KeptInv'
  <2>1. PICK b : b = mem.unbound[s]
    OBVIOUS
  <2>2. b \in Topics /\ madeFor[b] = s /\ mem.key \in Keys /\ s \in Targets
    <3>1. b \in 0 .. MaxTopics /\ b # NoTopic /\ mem.key \in Keys
      BY <1>6, <2>1, StoreIs DEF Rebinds
    <3>2. b \in Topics /\ Noted(s, b)
      BY <2>1, <3>1, Bounds DEF Noted
    <3> QED BY <3>1, <3>2, Bounds DEF KeptInv, Whose
  <2>3. NoneLive(s, mem.key)
    BY <1>6, <2>2, TopicIsIts, Bounds DEF Rebinds
  <2> QED BY <1>3, <1>6, <2>1, <2>2, <2>3
<1> QED BY <1>2, <1>4, <1>5, <1>6 DEF DiesBinding

-----------------------------------------------------------------------------
(* The steps that make a topic keep it.                                    *)

\* The topic that is made is in the hand of a press or of a /new, and counted there.
LEMMA MadeKept ==
  ASSUME TopicsInv, TopicsInv', KeptInv, NEW x \in Targets, Makes(x), NEW t, t = made + 1,
         UNCHANGED <<route, mem, disk, archive, cleanup, lost, raced>>,
         x \in Sessions => mem.local[x] # "unknown",
         \/ /\ callback.pc = "asked" /\ callback.to = x /\ UNCHANGED creation
            /\ callback' = [callback EXCEPT !.pc = "made", !.topic = t]
         \/ /\ x \in Sessions /\ creation[x].pc = "asked" /\ UNCHANGED callback
            /\ creation' = [creation EXCEPT ![x].pc = "made", ![x].topic = t]
  PROVE  KeptInv'
<1>1. /\ tg' = [tg EXCEPT ![t] = "open"] /\ madeFor' = [madeFor EXCEPT ![t] = x]
      /\ t \in Topics /\ Unmade(t) /\ Fresh(t) /\ ~Pressed(t)
      /\ \A s \in Sessions : ~Newly(s, t) /\ ~Noted(s, t)
  BY NextIsNobodys DEF Makes
<1>2. /\ madeFor'[t] = x /\ tg'[t] = "open"
      /\ \A u \in Topics \ {t} : madeFor'[u] = madeFor[u] /\ tg'[u] = tg[u]
  BY <1>1 DEF TopicsInv, GroupTypes
<1>3. /\ callback'.to = callback.to
      /\ callback' = callback \/ (callback.pc = "asked" /\ callback'.pc = "made" /\ callback.to = x /\ callback'.topic = t)
      /\ \A s \in Sessions :
           /\ creation'[s].key = creation[s].key /\ (creation'[s].pc = "none" <=> creation[s].pc = "none")
           /\ \/ creation'[s] = creation[s]
              \/ /\ s = x /\ creation[s].pc = "asked" /\ creation'[s].pc = "made" /\ creation'[s].topic = t
      /\ \/ callback'.pc = "made" /\ callback'.topic = t
         \/ x \in Sessions /\ creation'[x].pc = "made" /\ creation'[x].topic = t
  <2>1. callback \in CallbackRecord /\ creation \in [Sessions -> CreationRecord]
    BY DEF TopicsInv, HandTypes
  <2>2. CASE /\ callback.pc = "asked" /\ callback.to = x /\ UNCHANGED creation
             /\ callback' = [callback EXCEPT !.pc = "made", !.topic = t]
    BY <2>1, <2>2 DEF CallbackRecord
  <2>3. CASE /\ x \in Sessions /\ creation[x].pc = "asked" /\ UNCHANGED callback
             /\ creation' = [creation EXCEPT ![x].pc = "made", ![x].topic = t]
    BY <2>1, <2>3 DEF CreationRecord
  <2> QED BY <2>2, <2>3
<1>4. \A u \in Topics :
        /\ Live(u)' <=> Live(u)
        /\ Fresh(u)' <=> Fresh(u)
        /\ Pressed(u)' => Pressed(u) \/ (u = t /\ callback'.to = x)
        /\ Pressed(u) => Pressed(u)' /\ u # t
        /\ \A s \in Sessions : /\ Newly(s, u)' => Newly(s, u) \/ (u = t /\ s = x)
                               /\ Newly(s, u) => Newly(s, u)' /\ u # t
                               /\ Noted(s, u)' <=> Noted(s, u)
                               /\ Noted(s, u) => u # t
  BY <1>1, <1>3 DEF Live, Fresh, Pressed, Newly, Noted
<1>5. ~Live(t) /\ \A y \in Targets : t \notin {mem.topic[y], disk.topic[y]}
  BY <1>1 DEF Unmade, Named, Live
<1>6. Whose'
  <2>1. \A u \in Topics :
          /\ ~Fresh(u)' => route'[u].to = madeFor'[u]
          /\ Pressed(u)' => madeFor'[u] = callback'.to
          /\ \A s \in Sessions : Newly(s, u)' \/ Noted(s, u)' => madeFor'[u] = s
    BY <1>1, <1>2, <1>3, <1>4 DEF KeptInv, Whose
  <2>2. \A u \in Topics, y \in Targets :
          u \in {mem'.topic[y], disk'.topic[y]} => madeFor'[u] = y /\ ~Fresh(u)'
    BY <1>2, <1>4, <1>5 DEF KeptInv, Whose
  <2>3. (callback.pc = "probe" => /\ callback.topic \in Topics /\ ~Fresh(callback.topic)
                                  /\ madeFor[callback.topic] = callback.to)'
    BY <1>1, <1>2, <1>3 DEF KeptInv, Whose, Fresh
  <2> QED BY <2>1, <2>2, <2>3 DEF Whose
<1>7. KeysKnown'
  <2>1. \A u \in Topics : Live(u)' /\ madeFor'[u] \in Sessions => Live(u) /\ madeFor[u] \in Sessions
    BY <1>2, <1>4, <1>5
  <2> QED BY <1>3, <2>1 DEF KeptInv, KeysKnown
<1>8. ASSUME NEW s \in Sessions
      PROVE  Known(s)'
  <2>1. Known(s) /\ (Opening(s)' <=> Opening(s))
    BY <1>3 DEF KeptInv, Opening
  <2>2. archive[s].pc = "topic" => madeFor'[archive[s].topic] = s
    <3>1. archive[s].topic # t
      BY <1>1 DEF Unmade
    <3>2. archive[s].pc = "topic" => archive[s].topic \in Topics
      BY Bounds DEF TopicsInv, HandTypes, ArchiveRecord
    <3> QED BY <1>2, <2>1, <3>1, <3>2 DEF Known
  <2>3. mem.local[s] = "unknown" => \A u \in Topics : madeFor'[u] # s
    BY <1>2, <2>1 DEF Known
  <2>4. \A u \in Topics : madeFor'[u] = s /\ route'[u].status = "archived" => madeFor[u] = s /\ u # t
    BY <1>1, <1>2 DEF Fresh
  <2> QED BY <1>3, <2>1, <2>2, <2>3, <2>4 DEF Known, BothArchived
<1>9. ASSUME NEW s \in Sessions, s \notin raced'
      PROVE  Busy(s)' /\ Accounted(s)' /\ NamedLive(s)'
  <2>1. Busy(s) /\ Accounted(s) /\ NamedLive(s) /\ (Opening(s)' <=> Opening(s))
    BY <1>3, <1>9 DEF KeptInv, Opening
  <2>2. \A u \in Topics : Live(u)' /\ madeFor'[u] = s => Live(u) /\ madeFor[u] = s
    BY <1>2, <1>4, <1>5
  <2>3. \A k \in Keys : NoneLive(s, k) => NoneLive(s, k)'
    BY <2>2 DEF NoneLive
  <2>4. Busy(s)'
    <3>1. PICK k : k = creation[s].key
      OBVIOUS
    <3>2. k \in Keys /\ mem.key \in Keys
      BY <3>1, StoreIs DEF TopicsInv, HandTypes, CreationRecord
    <3>3. creation[s].pc # "none" => NoneLive(s, k) /\ NoneLive(s, mem.key) /\ ~Opening(s)
      BY <2>1, <3>1 DEF Busy
    <3>4. creation'[s].pc # "none" => NoneLive(s, creation[s].key)' /\ NoneLive(s, mem.key)' /\ ~Opening(s)'
      BY <1>3, <2>1, <2>2, <3>1, <3>3 DEF NoneLive
    <3>5. Opening(s)' /\ callback'.pc # "probe" => NoneLive(s, mem.key)'
      BY <1>3, <2>1, <2>2 DEF Busy, NoneLive
    <3>6. Opening(s)' /\ callback'.pc = "probe" =>
            \A u \in Topics : Live(u)' /\ madeFor'[u] = s /\ route'[u].key = mem'.key => u = callback'.topic
      BY <1>3, <2>1, <2>2 DEF Busy
    <3> QED BY <3>4, <3>5, <3>6 DEF Busy
  <2>5. Accounted(s)'
    <3> SUFFICES ASSUME NEW u \in Topics, Seen(s, u)'
                 PROVE  Held(s, u)' \/ Live(u)'
      BY DEF Accounted
    <3>1. CASE u = t
      <4>1. s = x
        BY <1>2, <3>1 DEF Seen
      <4> QED BY <1>3, <3>1, <4>1 DEF Held, Pressed, Newly
    <3>2. CASE u # t
      <4>1. Seen(s, u)
        BY <1>2, <3>2 DEF Seen
      <4> QED BY <1>4, <2>1, <4>1 DEF Accounted, Held
    <3> QED BY <3>1, <3>2
  <2>6. NamedLive(s)'
    <3>1. \A n \in {mem, disk} : n.topic[s] # t /\ (n.topic[s] # NoTopic => n.topic[s] \in Topics)
      BY <1>5, Bounds DEF TopicsInv, StoreTypes, Storages
    <3> QED BY <1>2, <1>4, <2>1, <3>1 DEF NamedLive, Live
  <2> QED BY <2>4, <2>5, <2>6
<1> QED BY <1>6, <1>7, <1>8, <1>9 DEF KeptInv

\* A press, or a /new, has its topic made.
LEMMA MakesKept ==
  ASSUME TopicsInv, TopicsInv', KeptInv, PressMakes \/ \E s \in Sessions : NewMakes(s)
  PROVE  KeptInv'
<1>1. CASE PressMakes
  <2>1. PICK x : x = callback.to
    OBVIOUS
  <2>2. x \in Targets
    BY <2>1 DEF TopicsInv, HandTypes, CallbackRecord
  <2>3. x \in Sessions => mem.local[x] # "unknown"
    BY <1>1, <2>1 DEF PressMakes, KeptInv, Known, Opening
  <2> QED BY <1>1, <2>1, <2>2, <2>3, MadeKept DEF PressMakes, noted
<1>2. ASSUME NEW s \in Sessions, NewMakes(s)
      PROVE  KeptInv'
  <2>1. s \in Targets /\ mem.local[s] # "unknown"
    BY <1>2, Bounds DEF NewMakes, KeptInv, Known
  <2> QED BY <1>2, <2>1, MadeKept DEF NewMakes, noted
<1> QED BY <1>1, <1>2

-----------------------------------------------------------------------------
(* The theorems about the one topic.                                       *)

\* At first there is no session and no topic.
LEMMA InitKept == ASSUME Init, TopicsInv PROVE KeptInv
<1>1. NoTopic \notin Topics /\ Workspace \notin Sessions /\ Agent \notin Sessions
  BY Bounds
<1>2. /\ \A t \in Topics : Fresh(t) /\ ~Live(t) /\ route[t].status = "none"
      /\ \A t \in Topics : madeFor[t] = Workspace /\ tg[t] = "none"
      /\ disk = mem /\ cleanup = {Agent} /\ callback.pc = "idle"
      /\ \A s \in Sessions : /\ creation[s].pc = "none" /\ archive[s].pc = "none"
                             /\ archive[s].topic = NoTopic
                             /\ mem.unbound[s] = NoTopic /\ mem.local[s] = "unknown"
      /\ \A x \in Targets : mem.topic[x] = NoTopic
  BY DEF Init, Fresh, Live, NoRow, Idle, None, Done
<1>3. Whose
  BY <1>1, <1>2 DEF Whose, Pressed, Newly, Noted
<1>4. KeysKnown
  BY <1>2 DEF KeysKnown
<1>5. \A s \in Sessions : Known(s)
  BY <1>1, <1>2 DEF Known, Opening, BothArchived
<1>6. \A s \in Sessions : Busy(s) /\ Accounted(s) /\ NamedLive(s)
  BY <1>1, <1>2, Bounds DEF Busy, Accounted, NamedLive, Seen, Opening
<1> QED BY <1>3, <1>4, <1>5, <1>6 DEF KeptInv

\* Every step keeps it.
LEMMA NextKept == ASSUME TopicsInv, KeptInv, Next PROVE KeptInv'
<1>0. TopicsInv'
  BY NextTopics
<1>1. CASE Crash \/ DiesBinding
  BY <1>0, <1>1, CrashKept
<1>2. CASE OpenWorkspace
  BY <1>0, <1>2, OpenWorkspaceKept
<1>3. CASE OpenAgent \/ LooksForAgent
  BY <1>0, <1>3, PressKept
<1>4. CASE ProbeFound \/ PressFails
  BY <1>0, <1>4, PressEndsKept
<1>5. CASE ProbeMissing
  BY <1>0, <1>5, ProbeMissingKept
<1>6. CASE PressMakes
  BY <1>0, <1>6, MakesKept
<1>7. CASE PressBinds
  BY <1>0, <1>7, PressBindsKept
<1>8. ASSUME NEW s \in Sessions, SessionStep(s)
      PROVE  KeptInv'
  <2>1. CASE Looks(s)
    BY <1>0, <2>1, LooksKept
  <2>2. CASE New(s)
    BY <1>0, <2>2, NewKept
  <2>3. CASE Resume(s)
    BY <1>0, <2>3, ResumeKept, RebindsKept
  <2>4. CASE NewMakes(s)
    BY <1>0, <2>4, MakesKept
  <2>5. CASE NewBinds(s)
    BY <1>0, <2>5, NewBindsKept
  <2>6. CASE NewFails(s)
    BY <1>0, <2>6, NewFailsKept
  <2>7. CASE OpenThread(s)
    BY <1>0, <2>7, PressKept
  <2>8. CASE Archive(s, "source") \/ Archive(s, "desktop") \/ SourceArchives(s)
    BY <1>0, <2>8, ArchiveKept
  <2>9. CASE Commit(s)
    BY <1>0, <2>9, CommitKept
  <2>10. CASE TopicGoes(s) \/ TopicStays(s)
    BY <1>0, <2>10, LeavesKept
  <2> QED BY <1>8, <2>1, <2>2, <2>3, <2>4, <2>5, <2>6, <2>7, <2>8, <2>9, <2>10 DEF SessionStep
<1>9. ASSUME NEW t \in Topics, UserDeletes(t) \/ Observes(t)
      PROVE  KeptInv'
  BY <1>0, <1>9, GroupKept
<1> QED BY <1>1, <1>2, <1>3, <1>4, <1>5, <1>6, <1>7, <1>8, <1>9 DEF Next

\* A step in which nothing happens.
LEMMA StillIsKept == ASSUME KeptInv, UNCHANGED vars PROVE KeptInv'
<1>1. /\ route' = route /\ mem' = mem /\ disk' = disk /\ callback' = callback
      /\ creation' = creation /\ archive' = archive /\ tg' = tg
      /\ madeFor' = madeFor /\ cleanup' = cleanup /\ lost' = lost /\ raced' = raced
  BY DEF vars
<1>2. Whose' /\ KeysKnown'
  BY <1>1 DEF KeptInv, Whose, KeysKnown, Pressed, Newly, Noted, Fresh, Live
<1>3. \A s \in Sessions : Known(s)'
  BY <1>1 DEF KeptInv, Known, Opening, BothArchived
<1>4. \A s \in Sessions \ raced' : Busy(s)'
  BY <1>1 DEF KeptInv, Busy, NoneLive, Opening, Live
<1>5. \A s \in Sessions \ raced' : Accounted(s)' /\ NamedLive(s)'
  BY <1>1 DEF KeptInv, Accounted, NamedLive, Seen, Held, Pressed, Newly, Live
<1> QED BY <1>2, <1>3, <1>4, <1>5 DEF KeptInv

\* Whom a topic was made for is the one a row, a hand and state.json have it as;
\* only a session without an active topic is given one; and an open topic of a
\* session that somebody here was told of is in one hand, or active, or called
\* unbound, or being archived: for sessions that were not opened while their
\* /new was under way.
THEOREM KeptInvariant == Spec => [](TopicsInv /\ KeptInv)
<1>1. Init => TopicsInv /\ KeptInv
  BY InitTopics, InitKept
<1>2. TopicsInv /\ KeptInv /\ [Next]_vars => (TopicsInv /\ KeptInv)'
  BY NextTopics, StillTopics, NextKept, StillIsKept
<1> QED BY <1>1, <1>2, PTL DEF Spec

\* The live topic of a session is the one its messages go to, unless it is under
\* a key the workspace no longer has.
LEMMA LiveIsIts ==
  ASSUME TopicsInv, KeptInv, NEW s \in Sessions, ~Stranded(s), NEW t \in Topics, Live(t), madeFor[t] = s
  PROVE  t = TopicOf(s) /\ route[t].key = mem.key
<1>1. route[t].key \in {mem.key, LegacyKey} /\ route[t].to = s /\ route[t] \in Rows
  BY DEF KeptInv, KeysKnown, Whose, Live, Fresh, TopicsInv, StoreTypes
<1>2. route[t].key = mem.key
  <2> SUFFICES ASSUME route[t].key # mem.key
               PROVE  FALSE
    OBVIOUS
  <2>1. PICK row \in Rows : row = route[t]
    BY <1>1
  <2>2. row = [to |-> s, key |-> LegacyKey, status |-> "active"]
    BY <1>1, <2>1 DEF Live, Rows
  <2>3. t \in Active(route, s, LegacyKey) /\ mem.key # LegacyKey
    BY <1>1, <2>1, <2>2 DEF Active
  <2> QED BY <2>3 DEF Stranded
<1> QED BY <1>2, TopicIsIts, Bounds DEF NoneLive

\* Two open topics of a session that are counted are one.
LEMMA SeenIsOne ==
  ASSUME TopicsInv, KeptInv, NEW s \in Sessions, s \notin raced, ~Stranded(s),
         NEW t \in Topics, NEW u \in Topics, Seen(s, t), Seen(s, u)
  PROVE  t = u
<1>1. Busy(s) /\ Accounted(s) /\ madeFor[t] = s /\ madeFor[u] = s
  BY DEF KeptInv, Seen
<1>2. \A v \in Topics : Live(v) /\ madeFor[v] = s => v = TopicOf(s) /\ ~NoneLive(s, mem.key)
  BY LiveIsIts DEF NoneLive
<1>3. \A v \in Topics : madeFor[v] = s /\ Pressed(v) =>
        Opening(s) /\ callback.pc # "probe" /\ v = callback.topic
  BY DEF KeptInv, Whose, Pressed, Opening
<1>4. \A v \in Topics : Newly(s, v) => creation[s].pc # "none" /\ v = creation[s].topic
  BY DEF Newly
<1> QED BY <1>1, <1>2, <1>3, <1>4 DEF Busy, Accounted, Held

\* There is one topic of a session in the group at most, and what state.json
\* remembers is its own.
LEMMA KeptIsKept == ASSUME TopicsInv, KeptInv PROVE TopicsKept
<1>1. OneTopic
  <2> SUFFICES ASSUME NEW s \in Sessions, s \notin raced, ~Stranded(s)
               PROVE  Cardinality({t \in Topics : madeFor[t] = s /\ tg[t] = "open"}
                                    \ (lost \cup {mem.unbound[s], archive[s].topic})) <= 1
    BY DEF OneTopic
  <2> DEFINE S == {t \in Topics : madeFor[t] = s /\ tg[t] = "open"}
                    \ (lost \cup {mem.unbound[s], archive[s].topic})
  <2>1. \A t \in S : t \in Topics /\ Seen(s, t)
    BY DEF Seen
  <2>2. \A t, u \in S : t = u
    BY <2>1, SeenIsOne
  <2> HIDE DEF S
  <2>3. CASE S = {}
    BY <2>3, FS_EmptySet DEF S
  <2>4. CASE S # {}
    <3>1. PICK t : t \in S
      BY <2>4
    <3>2. S = {t}
      BY <2>2, <3>1
    <3>3. Cardinality({t}) = 1
      BY FS_Singleton
    <3> QED BY <3>2, <3>3 DEF S
  <2> QED BY <2>3, <2>4
<1>2. Kept
  <2> SUFFICES ASSUME NEW s \in Sessions, mem.topic[s] # NoTopic, tg[mem.topic[s]] = "open",
                      mem.local[s] # "archived", s \notin raced, ~Stranded(s)
               PROVE  TopicOf(s) = mem.topic[s]
    BY DEF Kept
  <2>1. PICK t : t = mem.topic[s]
    OBVIOUS
  <2>2. t \in Topics /\ s \in Targets
    BY <2>1, Bounds DEF TopicsInv, StoreTypes, Storages
  <2>3. Live(t) /\ madeFor[t] = s
    BY <2>1, <2>2 DEF KeptInv, NamedLive, Whose
  <2> QED BY <2>1, <2>2, <2>3, LiveIsIts
<1> QED BY <1>1, <1>2 DEF TopicsKept

\* A session has one open topic, and it is the one its messages go to: however
\* /new, presses, archiving, restarts and the users of the group interleave, but
\* for topics nobody was told of and for sessions opened while their /new was
\* making one, or left under a key the workspace no longer has.
THEOREM TopicsAreKept == Spec => []TopicsKept
<1>1. TopicsInv /\ KeptInv => TopicsKept
  BY KeptIsKept
<1> QED BY <1>1, KeptInvariant, PTL
=============================================================================
