--------------------------- MODULE DesktopProofs ---------------------------
(***************************************************************************)
(* Proofs about the parts of MCDesktop, for all values of the constants    *)
(* that its assumption allows.                                             *)
(***************************************************************************)
EXTENDS MCDesktop, FiniteSetTheorems, SequenceTheorems,
        WellFoundedInduction, TLAPS

\* A step of the whole is a step of one part, and the others stand still.
LEMMA PartSteps ==
  ASSUME [Next]_vars
  PROVE  /\ Streams!Next \/ UNCHANGED streams
         /\ Lists!Next \/ UNCHANGED list
         /\ Terminal!Next \/ UNCHANGED terminal
         /\ Hooks!Next \/ UNCHANGED hooks
         /\ Update!Next \/ UNCHANGED update
         /\ Recovery!Next \/ UNCHANGED recovery
         /\ Mirror!Next \/ UNCHANGED mirror
         /\ Store!Next \/ UNCHANGED accounts
         /\ Assets!Next \/ UNCHANGED assets
BY DEF Next, vars

\* Every part starts as it starts alone.
LEMMA PartsInit ==
  ASSUME Init
  PROVE  /\ Streams!Init /\ Lists!Init /\ Terminal!Init
         /\ Hooks!Init /\ Update!Init /\ Recovery!Init /\ Mirror!Init
         /\ Store!Init /\ Assets!Init
BY DEF Init

-----------------------------------------------------------------------------
(* Least and greatest numbers.                                             *)

\* A set of numbers has a least one ...
LEMMA Least ==
  ASSUME NEW T \in SUBSET Nat, T # {}
  PROVE  \E x \in T : \A y \in T : x <= y
<1> DEFINE R == OpToRel(<, Nat)
<1>1. IsWellFoundedOn(R, Nat)
  BY NatLessThanWellFounded
<1>2. \A x, y \in Nat : <<y, x>> \in R <=> y < x
  BY DEF OpToRel
<1> HIDE DEF R
<1>3. PICK x \in T : \A y \in T : ~ (<<y, x>> \in R)
  BY <1>1, WFMin
<1>4. ASSUME NEW y \in T
      PROVE  x <= y
  <2>1. x \in Nat /\ y \in Nat /\ <<y, x>> \notin R
    BY <1>3
  <2>2. ~ (y < x)
    BY <1>2, <2>1, Zenon
  <2> QED BY <2>1, <2>2
<1> QED BY <1>4

\* ... and if it is bounded a greatest.
LEMMA Greatest ==
  ASSUME NEW n \in Nat, NEW T \in SUBSET (0 .. n), T # {}
  PROVE  \E x \in T : \A y \in T : x >= y
<1> DEFINE U == {n - x : x \in T}
<1>0. \A x \in T : x \in 0 .. n /\ n - x \in Nat
  OBVIOUS
<1>1. U \in SUBSET Nat /\ U # {}
  BY <1>0
<1>2. PICK u \in U : \A v \in U : u <= v
  BY <1>1, Least
<1>3. PICK x \in T : u = n - x
  BY <1>2
<1>4. \A y \in T : n - x <= n - y
  BY <1>2, <1>3
<1> QED BY <1>0, <1>3, <1>4
-----------------------------------------------------------------------------
(* The last element of a sequence.                                         *)

Newer(s) == s[Len(s)]

\* Of a sequence with one more element it is that element.
LEMMA LastOfAppend ==
  ASSUME NEW S, NEW s \in Seq(S), NEW e \in S
  PROVE  /\ Append(s, e) \in Seq(S) /\ Append(s, e) # <<>>
         /\ Newer(Append(s, e)) = e
BY AppendProperties DEF Newer

\* Of a sequence of one element it is that element.
LEMMA LastOfOne ==
  ASSUME NEW S, NEW e \in S
  PROVE  <<e>> \in Seq(S) /\ <<e>> # <<>> /\ Newer(<<e>>) = e
BY DEF Newer

\* The tail keeps it, unless the head was all there was.
LEMMA LastOfTail ==
  ASSUME NEW S, NEW s \in Seq(S), s # <<>>
  PROVE  /\ Head(s) \in S /\ Tail(s) \in Seq(S)
         /\ Newer(s) = IF Tail(s) = <<>> THEN Head(s) ELSE Newer(Tail(s))
<1>1. /\ Len(s) \in Nat /\ Len(s) > 0 /\ Tail(s) \in Seq(S) /\ Head(s) = s[1]
      /\ Len(Tail(s)) = Len(s) - 1 /\ Head(s) \in S
      /\ \A i \in 1 .. Len(Tail(s)) : Tail(s)[i] = s[i + 1]
  BY HeadTailProperties, EmptySeq, LenProperties
<1>2. Tail(s) = <<>> <=> Len(Tail(s)) = 0
  BY <1>1, EmptySeq
<1> QED BY <1>1, <1>2 DEF Newer

-----------------------------------------------------------------------------
(* SessionStreams.                                                         *)

\* What the desktop will show once it has read all there is for it.
Newest ==
  IF queue # <<>> THEN Newer(queue)
  ELSE IF sent # <<>> THEN Newer(sent) ELSE view

\* An open stream leads to the session as it is.
StreamsInv ==
  /\ queue \in Seq(Nat) /\ sent \in Seq(Nat) /\ version \in Nat
  /\ conn = "open" /\ ~silent => Newest = Streams!Snapshot(version, gone)

\* Every step of a stream keeps it leading there.
LEMMA StreamsStep ==
  ASSUME StreamsInv, Streams!Next \/ UNCHANGED streams
  PROVE  StreamsInv'
<1> DEFINE now == Streams!Snapshot(version, gone)
<1>0. /\ queue \in Seq(Nat) /\ sent \in Seq(Nat) /\ version \in Nat /\ now \in Nat
      /\ conn = "open" /\ ~silent => Newest = now
      /\ \A v \in Nat : \A g : Streams!Snapshot(v, g) \in Nat
  <2>1. MaxChanges \in Nat
    BY DesktopAssumption
  <2>2. \A v \in Nat : \A g : Streams!Snapshot(v, g) \in Nat
    BY <2>1 DEF Streams!Snapshot, Streams!Hidden
  <2> QED BY <2>2 DEF StreamsInv
<1>1. ASSUME NEW v \in Nat, NEW g, Streams!Puts(v, g),
             UNCHANGED <<kind, sent, view>>, version' = v, gone' = g
      PROVE  StreamsInv'
  <2>1. Streams!Snapshot(v, g)' = Streams!Snapshot(v, g)
    BY <1>1 DEF Streams!Snapshot
  <2>2. CASE conn \in {"reads", "open"} /\ Len(queue) # MaxQueue
    <3>1. queue' = Append(queue, Streams!Snapshot(v, g))
      BY <1>1, <2>2 DEF Streams!Puts
    <3> DEFINE e == Streams!Snapshot(v, g)
    <3>e. e \in Nat
      BY <1>0
    <3> HIDE DEF e
    <3>2. queue' \in Seq(Nat) /\ queue' # <<>> /\ Newer(queue') = e
      <4>1. queue' = Append(queue, e)
        BY <3>1 DEF e
      <4> QED BY <1>0, <3>e, <4>1, LastOfAppend DEF Newer
    <3> USE DEF e
    <3> QED BY <1>0, <1>1, <2>1, <3>2 DEF StreamsInv, Newest, Streams!Snapshot
  <2>3. CASE ~(conn \in {"reads", "open"} /\ Len(queue) # MaxQueue)
    <3>1. UNCHANGED queue /\ conn' # "open"
      BY <1>1, <2>3 DEF Streams!Puts, Streams!Overflow
    <3> QED BY <1>0, <1>1, <3>1 DEF StreamsInv
  <2> QED BY <2>2, <2>3
<1>2. CASE Streams!Publish
  <2>1. PICK named \in BOOLEAN :
          /\ silent' = ~named
          /\ IF named THEN Streams!Puts(version + 1, gone) ELSE UNCHANGED <<queue, conn>>
    BY <1>2 DEF Streams!Publish
  <2>2. CASE named
    BY <1>0, <1>1, <1>2, <2>1, <2>2 DEF Streams!Publish
  <2>3. CASE ~named
    <3>1. silent'
      BY <2>1, <2>3
    <3>2. version' \in Nat /\ UNCHANGED <<queue, sent>>
      <4>1. version' = version + 1 /\ UNCHANGED sent
        BY <1>2 DEF Streams!Publish
      <4> QED BY <1>0, <2>1, <2>3, <4>1
    <3> QED BY <1>0, <3>1, <3>2 DEF StreamsInv
  <2> QED BY <2>2, <2>3
<1>3. CASE Streams!Archive
  BY <1>0, <1>1, <1>3 DEF Streams!Archive
<1>4. ASSUME sent' = <<now>>, queue' = <<>>, UNCHANGED <<kind, version, gone>>
      PROVE  StreamsInv'
  <2>1. sent' \in Seq(Nat) /\ queue' \in Seq(Nat) /\ sent' # <<>> /\ Newer(sent') = now
    BY <1>0, <1>4, LastOfOne
  <2>2. Streams!Snapshot(version, gone)' = now
    BY <1>4 DEF Streams!Snapshot
  <2> QED BY <1>0, <1>4, <2>1, <2>2 DEF StreamsInv, Newest
<1>5. ASSUME conn' # "open", UNCHANGED version, sent' \in Seq(Nat), queue' \in Seq(Nat)
      PROVE  StreamsInv'
  BY <1>0, <1>5 DEF StreamsInv
<1>6. CASE Streams!Connect
  BY <1>0, <1>4, <1>5, <1>6 DEF Streams!Connect
<1>7. CASE Streams!HistoryRead
  <2>1. \/ sent' = <<now>> /\ queue' = <<>>
        \/ conn' # "open" /\ sent' = <<>> /\ queue' = <<>>
    BY <1>7 DEF Streams!HistoryRead, Streams!Opens
  <2>2. UNCHANGED <<kind, version, gone>>
    BY <1>7 DEF Streams!HistoryRead
  <2>3. CASE sent' = <<now>> /\ queue' = <<>>
    BY <1>4, <2>2, <2>3
  <2>4. CASE conn' # "open" /\ sent' = <<>> /\ queue' = <<>>
    BY <1>5, <2>2, <2>4
  <2> QED BY <2>1, <2>3, <2>4
<1>8. ASSUME UNCHANGED <<kind, version, gone, conn, silent>>, Newest' = Newest,
             sent' \in Seq(Nat), queue' \in Seq(Nat)
      PROVE  StreamsInv'
  BY <1>0, <1>8 DEF StreamsInv, Streams!Snapshot
<1>9. CASE Streams!Write
  <2>1. queue # <<>> /\ sent' = Append(sent, Head(queue)) /\ queue' = Tail(queue)
    BY <1>9 DEF Streams!Write
  <2>2. /\ sent' \in Seq(Nat) /\ queue' \in Seq(Nat)
        /\ sent' # <<>> /\ Newer(sent') = Head(queue)
        /\ Newer(queue) = IF queue' = <<>> THEN Head(queue) ELSE Newer(queue')
    <3>1. /\ Head(queue) \in Nat /\ queue' \in Seq(Nat)
          /\ Newer(queue) = IF queue' = <<>> THEN Head(queue) ELSE Newer(queue')
      BY <1>0, <2>1, LastOfTail DEF Newer
    <3> DEFINE e == Head(queue)
    <3> HIDE DEF e
    <3>2. e \in Nat /\ sent' = Append(sent, e)
      BY <2>1, <3>1 DEF e
    <3>3. sent' \in Seq(Nat) /\ sent' # <<>> /\ Newer(sent') = e
      BY <1>0, <3>2, LastOfAppend DEF Newer
    <3> QED BY <3>1, <3>3 DEF e
  <2>3. Newest' = Newest
    BY <2>1, <2>2 DEF Newest
  <2> QED BY <1>8, <1>9, <2>2, <2>3 DEF Streams!Write
<1>10. CASE Streams!Receive
  <2>1. sent # <<>> /\ view' = Head(sent) /\ sent' = Tail(sent) /\ UNCHANGED queue
    BY <1>10 DEF Streams!Receive
  <2>2. sent' \in Seq(Nat) /\ Newer(sent) = IF sent' = <<>> THEN view' ELSE Newer(sent')
    BY <1>0, <2>1, LastOfTail
  <2>3. Newest' = Newest
    BY <2>1, <2>2 DEF Newest
  <2> QED BY <1>0, <1>8, <1>10, <2>1, <2>2, <2>3 DEF Streams!Receive
<1>11. CASE Streams!Close
  BY <1>0, <1>5, <1>11 DEF Streams!Close
<1>12. CASE UNCHANGED streams
  <2>1. Newest' = Newest
    BY <1>12 DEF streams, Newest
  <2> QED BY <1>0, <1>8, <1>12, <2>1 DEF streams
<1> QED
  BY <1>2, <1>3, <1>6, <1>7, <1>9, <1>10, <1>11, <1>12 DEF Streams!Next

\* Once it has read all that an open stream has for it, the desktop shows the
\* session as it is, but for a change whose event its filter held back.
THEOREM StreamsConverge == Spec => []Converges
<1>1. Init => StreamsInv
  BY PartsInit DEF StreamsInv, Streams!Init, Newest
<1>2. StreamsInv /\ [Next]_vars => StreamsInv'
  BY PartSteps, StreamsStep
<1>3. StreamsInv => Converges
  BY DEF StreamsInv, Newest, Converges, Streams!Converges
<1> QED BY <1>1, <1>2, <1>3, PTL DEF Spec

-----------------------------------------------------------------------------
(* TerminalHost.                                                           *)

Host  == [thread : Threads, ours : BOOLEAN, serving : BOOLEAN, child : BOOLEAN]
Count == Cardinality(DOMAIN hosts)

\* The hosts are numbered in the order of their starts; while a send starts a
\* host it holds the lock, and ours is stopped; ours is the only one of ours.
TerminalInv ==
  /\ Count \in Nat /\ hosts \in [1 .. Count -> Host]
  /\ typed \subseteq Messages \X Threads /\ stage \in [Messages -> Terminal!Stages]
  /\ link \in [Messages -> Nat] /\ current \in Nat /\ socket \in Nat
  /\ to \in [Messages -> Threads]
  /\ \A m \in Messages : stage[m] = "start" => holder = m /\ current = 0
  /\ \A h \in 1 .. Count : hosts[h].ours /\ hosts[h].serving => h = current
  /\ \A p \in typed : p[2] = to[p[1]]

\* The hosts' numbers.
LEMMA Numbered ==
  ASSUME NEW n \in Nat
  PROVE  Cardinality(1 .. n) = n
<1>1. Cardinality(1 .. n) = IF 1 > n THEN 0 ELSE n - 1 + 1
  BY FS_Interval
<1> QED BY <1>1

\* The instance's operator is the library's.
LEMMA TerminalCardinality == \A S : Terminal!Cardinality(S) = Cardinality(S)
BY DEF Terminal!Cardinality, Cardinality, Terminal!IsFiniteSet, IsFiniteSet

\* The identifiers of the hosts are the numbers up to the count.
LEMMA HostIds ==
  ASSUME TerminalInv
  PROVE  /\ DOMAIN hosts = 1 .. Count /\ Terminal!Ids = 1 .. Count
         /\ Terminal!Cardinality(Terminal!Ids) = Count
<1>1. Count \in Nat /\ DOMAIN hosts = 1 .. Count
  BY DEF TerminalInv
<1>2. Terminal!Ids = 1 .. Count
  BY TerminalCardinality DEF Terminal!Ids, Count, TerminalInv
<1> QED BY <1>1, <1>2, Numbered, TerminalCardinality

\* A host more: of the user, or ours in the place of none.
LEMMA HostStarts ==
  ASSUME TerminalInv, NEW t \in Threads, NEW ours \in BOOLEAN, Terminal!Starts(t, ours),
         UNCHANGED <<to, typed, link>>,
         stage' \in [Messages -> Terminal!Stages],
         \A m \in Messages : stage'[m] = "start" =>
           stage[m] = "start" /\ ~ours /\ holder' = holder,
         IF ours THEN current = 0 /\ current' = Count + 1 ELSE current' = current
  PROVE  TerminalInv'
<1> DEFINE new == [thread |-> t, ours |-> ours, serving |-> TRUE, child |-> TRUE]
<1>0. Count \in Nat /\ hosts \in [1 .. Count -> Host] /\ new \in Host /\ current \in Nat
  BY DEF TerminalInv, Host
<1>1. hosts' = [k \in 1 .. Count + 1 |-> IF k < Count + 1 THEN hosts[k] ELSE new]
  <2>1. Terminal!Cardinality(Terminal!Ids) = Count
    BY HostIds
  <2> QED BY <2>1 DEF Terminal!Starts
<1>2. /\ DOMAIN hosts' = 1 .. Count + 1
      /\ \A k \in 1 .. Count : hosts'[k] = hosts[k]
      /\ hosts'[Count + 1] = new
  BY <1>0, <1>1
<1> HIDE DEF new
<1>3. Count' = Count + 1
  BY <1>0, <1>2, Numbered DEF Count
<1>4. hosts' \in [1 .. Count + 1 -> Host]
  BY <1>0, <1>1
<1>5. current' \in Nat
  BY <1>0
<1>s. socket' \in Nat
  BY <1>0, HostIds DEF Terminal!Starts
<1>6. ASSUME NEW h \in 1 .. Count + 1, hosts'[h].ours, hosts'[h].serving
      PROVE  h = current'
  <2>1. CASE h = Count + 1
    BY <1>2, <1>6, <2>1 DEF new
  <2>2. CASE h # Count + 1
    <3>1. h \in 1 .. Count /\ hosts[h].ours /\ hosts[h].serving
      BY <1>0, <1>2, <1>6, <2>2
    <3> QED BY <3>1 DEF TerminalInv
  <2> QED BY <2>1, <2>2
<1>7. \A m \in Messages : stage'[m] = "start" => holder' = m /\ current' = 0
  BY DEF TerminalInv
<1> QED BY <1>0, <1>s, <1>3, <1>4, <1>5, <1>6, <1>7 DEF TerminalInv

\* Hosts stop or lose their child, or nothing happens to them.
LEMMA HostsLess ==
  ASSUME TerminalInv, NEW d, 
         \/ hosts' = [hosts EXCEPT ![d].serving = FALSE, ![d].child = FALSE]
         \/ hosts' = [hosts EXCEPT ![d].child = FALSE] /\ UNCHANGED current
         \/ hosts' = hosts /\ UNCHANGED current,
         current' = current \/ (current' = 0 /\ d = current),
         UNCHANGED to, link' \in [Messages -> Nat], socket' \in Nat,
         stage' \in [Messages -> Terminal!Stages],
         \A m \in Messages : stage'[m] = "start" => holder' = m /\ current' = 0,
         \A p \in typed' \ typed : p \in Messages \X Threads /\ p[2] = to[p[1]]
  PROVE  TerminalInv'
<1>0. Count \in Nat /\ hosts \in [1 .. Count -> Host] /\ current \in Nat
  BY DEF TerminalInv
<1>1. /\ hosts' \in [1 .. Count -> Host]
      /\ \A h \in 1 .. Count :
           hosts'[h].ours /\ hosts'[h].serving
             => hosts[h].ours /\ hosts[h].serving /\ (current' = current \/ h # current)
  <2>1. CASE hosts' = [hosts EXCEPT ![d].serving = FALSE, ![d].child = FALSE]
    <3> DEFINE one == [hosts EXCEPT ![d].serving = FALSE]
    <3>0. one \in [1 .. Count -> Host]
      BY <1>0 DEF Host
    <3>1. \A h \in 1 .. Count :
            one[h].ours /\ one[h].serving => hosts[h].ours /\ hosts[h].serving /\ h # d
      BY <1>0 DEF Host
    <3>2. hosts' = [one EXCEPT ![d].child = FALSE]
      BY <2>1
    <3> HIDE DEF one
    <3>3. hosts' \in [1 .. Count -> Host]
      BY <3>0, <3>2 DEF Host
    <3>4. \A h \in 1 .. Count : /\ hosts'[h].ours = one[h].ours
                                /\ hosts'[h].serving = one[h].serving
      BY <3>0, <3>2 DEF Host
    <3> QED BY <3>1, <3>3, <3>4
  <2>2. CASE hosts' = [hosts EXCEPT ![d].child = FALSE] /\ UNCHANGED current
    <3>1. /\ hosts' \in [1 .. Count -> Host]
          /\ \A h \in 1 .. Count : /\ hosts'[h].ours = hosts[h].ours
                                   /\ hosts'[h].serving = hosts[h].serving
      BY <1>0, <2>2 DEF Host
    <3> QED BY <2>2, <3>1
  <2> QED BY <1>0, <2>1, <2>2
<1>2. Count' = Count
  BY <1>0, <1>1 DEF Count
<1>3. ASSUME NEW h \in 1 .. Count, hosts'[h].ours, hosts'[h].serving
      PROVE  h = current'
  <2>1. hosts[h].ours /\ hosts[h].serving /\ (current' = current \/ h # current)
    BY <1>1, <1>3
  <2> QED BY <2>1 DEF TerminalInv
<1>4. typed' \subseteq Messages \X Threads /\ \A p \in typed' : p[2] = to[p[1]]
  BY DEF TerminalInv
<1> QED BY <1>0, <1>1, <1>2, <1>3, <1>4 DEF TerminalInv

\* Every step of the terminal hosts and of the sends to them.
LEMMA TerminalStep ==
  ASSUME TerminalInv, Terminal!Next \/ UNCHANGED terminal
  PROVE  TerminalInv'
<1>0. /\ stage \in [Messages -> Terminal!Stages] /\ link \in [Messages -> Nat] /\ current \in Nat
      /\ socket \in Nat /\ to \in [Messages -> Threads]
      /\ \A m \in Messages : stage[m] = "start" => holder = m /\ current = 0
      /\ Terminal!Nobody \notin Messages
  BY DesktopAssumption DEF TerminalInv, Terminal!Nobody
<1>a. \A m \in Messages, s \in Terminal!Stages : Terminal!Goes(m, s) =>
        /\ stage' \in [Messages -> Terminal!Stages] /\ stage'[m] = s
        /\ \A k \in Messages \ {m} : stage'[k] = stage[k]
  BY <1>0 DEF Terminal!Goes
<1>1. ASSUME NEW t \in Threads, Terminal!StartByHand(t)
      PROVE  TerminalInv'
  BY <1>0, <1>1, HostStarts DEF Terminal!StartByHand
<1>2. ASSUME NEW h \in 1 .. MaxHosts,
             Terminal!EndByHand(h) \/ Terminal!DiesByHand(h) \/ Terminal!ChildExits(h)
      PROVE  TerminalInv'
  <2>1. /\ \/ hosts' = [hosts EXCEPT ![h].serving = FALSE, ![h].child = FALSE]
           \/ hosts' = [hosts EXCEPT ![h].child = FALSE]
        /\ UNCHANGED <<to, stage, link, current, holder, typed>> /\ socket' \in {0, socket}
    BY <1>2 DEF Terminal!EndByHand, Terminal!DiesByHand, Terminal!ChildExits, Terminal!Stops
  <2>2. /\ stage' \in [Messages -> Terminal!Stages] /\ link' \in [Messages -> Nat]
        /\ \A m \in Messages : stage'[m] = "start" => holder' = m /\ current' = 0
        /\ typed' \ typed = {}
    BY <1>0, <2>1
  <2>3. socket' \in Nat
    BY <1>0, <2>1
  <2>4. CASE hosts' = [hosts EXCEPT ![h].serving = FALSE, ![h].child = FALSE]
    BY <2>1, <2>2, <2>3, <2>4, HostsLess
  <2>5. CASE hosts' = [hosts EXCEPT ![h].child = FALSE]
    BY <2>1, <2>2, <2>3, <2>5, HostsLess
  <2> QED BY <2>1, <2>4, <2>5
<1>3. ASSUME UNCHANGED <<to, hosts, current, holder, socket, typed>>, link' \in [Messages -> Nat],
             stage' \in [Messages -> Terminal!Stages],
             \A m \in Messages : stage'[m] = "start" => stage[m] = "start"
      PROVE  TerminalInv'
  <2>1. \A m \in Messages : stage'[m] = "start" => holder' = m /\ current' = 0
    BY <1>0, <1>3
  <2> QED BY <1>3, <2>1 DEF TerminalInv, Count
<1>4. ASSUME NEW m \in Messages, NEW s \in Terminal!Stages \ {"start"}, Terminal!Goes(m, s)
      PROVE  /\ stage' \in [Messages -> Terminal!Stages]
             /\ \A k \in Messages : stage'[k] = "start" => stage[k] = "start"
  BY <1>0, <1>4 DEF Terminal!Goes
<1>5. ASSUME NEW m \in Messages, Terminal!Enqueue(m)
      PROVE  TerminalInv'
  BY <1>0, <1>3, <1>4, <1>5 DEF Terminal!Enqueue, Terminal!Stages
<1>6. ASSUME NEW m \in Messages, Terminal!Bind(m)
      PROVE  TerminalInv'
  <2>1. \E s \in {"lock", "yield", "refuse"} : Terminal!Goes(m, s)
    BY <1>6 DEF Terminal!Bind
  <2> QED BY <1>0, <1>3, <1>4, <1>6, <2>1 DEF Terminal!Bind, Terminal!Stages
<1>7. ASSUME NEW m \in Messages, Terminal!Yield(m)
      PROVE  TerminalInv'
  <2>1. \E s \in {"look", "failed"} : Terminal!Goes(m, s)
    BY <1>7 DEF Terminal!Yield
  <2>2. /\ stage' \in [Messages -> Terminal!Stages]
        /\ \A k \in Messages : stage'[k] = "start" => stage[k] = "start"
    BY <1>4, <2>1 DEF Terminal!Stages
  <2>3. /\ current' = 0 /\ holder = Terminal!Nobody /\ UNCHANGED <<to, link, holder, typed>>
        /\ socket' \in {0, socket}
        /\ \/ hosts' = [hosts EXCEPT ![current].serving = FALSE, ![current].child = FALSE]
           \/ current = 0 /\ hosts' = hosts
    BY <1>7 DEF Terminal!Yield, Terminal!Stops
  <2>4. \A k \in Messages : stage'[k] # "start"
    BY <1>0, <2>2, <2>3
  <2> QED BY <1>0, <2>2, <2>3, <2>4, HostsLess
<1>8. ASSUME NEW m \in Messages, Terminal!Take(m)
      PROVE  TerminalInv'
  <2>0. holder = Terminal!Nobody /\ UNCHANGED <<to, link, typed>>
    BY <1>8 DEF Terminal!Take, Terminal!Free
  <2>1. CASE Terminal!Goes(m, "look") /\ UNCHANGED <<hosts, current, holder, socket>>
    BY <1>0, <1>3, <1>4, <2>0, <2>1 DEF Terminal!Stages
  <2>2. CASE /\ Terminal!Goes(m, "start") /\ holder' = m /\ current' = 0
             /\ socket' \in {0, socket}
             /\ \/ hosts' = [hosts EXCEPT ![current].serving = FALSE, ![current].child = FALSE]
                \/ current = 0 /\ hosts' = hosts
    <3>1. /\ stage' \in [Messages -> Terminal!Stages]
          /\ \A k \in Messages : stage'[k] = "start" => k = m
      BY <1>0, <2>0, <2>2 DEF Terminal!Goes, Terminal!Stages
    <3> QED BY <1>0, <2>0, <2>2, <3>1, HostsLess
  <2> QED BY <1>8, <2>1, <2>2 DEF Terminal!Take, Terminal!Stops
<1>9. ASSUME NEW m \in Messages, Terminal!Start(m)
      PROVE  TerminalInv'
  <2>0. /\ stage[m] = "start" /\ holder = m /\ current = 0 /\ UNCHANGED <<to, link, typed>>
        /\ holder' = Terminal!Nobody
    BY <1>0, <1>9 DEF Terminal!Start
  <2>1. ASSUME NEW s \in {"look", "failed"}, Terminal!Goes(m, s)
        PROVE  /\ stage' \in [Messages -> Terminal!Stages]
               /\ \A k \in Messages : stage'[k] # "start"
    BY <1>0, <2>0, <2>1 DEF Terminal!Goes, Terminal!Stages
  <2>2. CASE /\ Terminal!Starts(to[m], TRUE) /\ Terminal!Goes(m, "look")
             /\ current' = Terminal!Cardinality(Terminal!Ids) + 1
    <3>1. to[m] \in Threads /\ current' = Count + 1
      BY <2>2, HostIds DEF TerminalInv
    <3> QED BY <2>0, <2>1, <2>2, <3>1, HostStarts
  <2>3. CASE Terminal!Goes(m, "failed") /\ UNCHANGED <<hosts, current, socket>>
    BY <1>0, <2>0, <2>1, <2>3, HostsLess
  <2> QED BY <1>9, <2>2, <2>3 DEF Terminal!Start
<1>10. ASSUME NEW m \in Messages, Terminal!Look(m)
       PROVE  TerminalInv'
  <2>1. \E s \in {"connect", "failed"} : Terminal!Goes(m, s)
    BY <1>10 DEF Terminal!Look
  <2> QED BY <1>0, <1>3, <1>4, <1>10, <2>1 DEF Terminal!Look, Terminal!Stages
<1>11. ASSUME NEW m \in Messages, Terminal!Connect(m)
       PROVE  TerminalInv'
  <2>1. /\ link' = [link EXCEPT ![m] = socket]
        /\ \E s \in {"asked", "failed"} : Terminal!Goes(m, s)
    BY <1>11 DEF Terminal!Connect
  <2>2. link' \in [Messages -> Nat]
    BY <1>0, <2>1
  <2> QED BY <1>3, <1>4, <1>11, <2>1, <2>2 DEF Terminal!Connect, Terminal!Stages
<1>12. ASSUME NEW m \in Messages, Terminal!TimesOut(m)
       PROVE  TerminalInv'
  BY <1>0, <1>3, <1>4, <1>12 DEF Terminal!TimesOut, Terminal!Stages
<1>13. ASSUME NEW m \in Messages, Terminal!Handle(m)
       PROVE  TerminalInv'
  <2> DEFINE h == link[m]
  <2>1. link' \in [Messages -> Nat]
    BY <1>0, <1>13 DEF Terminal!Handle
  <2>2. /\ stage' \in [Messages -> Terminal!Stages]
        /\ \A k \in Messages : stage'[k] = "start" => stage[k] = "start"
    BY <1>0, <1>13 DEF Terminal!Handle, Terminal!Goes, Terminal!Stages
  <2>3. \A k \in Messages : stage'[k] = "start" => holder' = k /\ current' = 0
    BY <1>0, <1>13, <2>2 DEF Terminal!Handle
  <2>4. \/ typed' = typed
        \/ typed' = typed \cup {<<m, to[m]>>}
    BY <1>13 DEF Terminal!Handle, Terminal!ValidBinding
  <2>5. \A p \in typed' \ typed : p \in Messages \X Threads /\ p[2] = to[p[1]]
    BY <1>0, <2>4
  <2> QED BY <1>0, <1>13, <2>1, <2>2, <2>3, <2>5, HostsLess DEF Terminal!Handle
<1>14. ASSUME NEW h \in 1 .. MaxHosts, Terminal!StatusLoop(h)
       PROVE  TerminalInv'
  BY <1>0, <1>3, <1>14 DEF Terminal!StatusLoop
<1>15. CASE UNCHANGED terminal
  BY <1>0, <1>3, <1>15 DEF terminal
<1> QED
  BY <1>1, <1>2, <1>5, <1>6, <1>7, <1>8, <1>9, <1>10, <1>11, <1>12, <1>13, <1>14, <1>15
  DEF Terminal!Next

\* A message is typed into its own thread's terminal only, and ours is the only
\* host of ours, however many hosts, threads and sends there are.
THEOREM TerminalIsRight == Spec => []RightTerminal
<1>1. Init => TerminalInv
  <2> SUFFICES ASSUME Init
               PROVE  TerminalInv
    OBVIOUS
  <2>1. Terminal!Init
    BY PartsInit
  <2>2. DOMAIN hosts = {} /\ Count = 0
    BY <2>1, FS_EmptySet DEF Terminal!Init, Count
  <2>3. hosts \in [1 .. Count -> Host]
    BY <2>1, <2>2 DEF Terminal!Init
  <2> QED BY <2>1, <2>2, <2>3 DEF Terminal!Init, TerminalInv, Terminal!Stages
<1>2. TerminalInv /\ [Next]_vars => TerminalInv'
  BY PartSteps, TerminalStep
<1>3. TerminalInv => RightTerminal
  BY HostIds DEF TerminalInv, RightTerminal, Terminal!RightTerminal
<1> QED BY <1>1, <1>2, <1>3, PTL DEF Spec

-----------------------------------------------------------------------------
(* StreamRecovery.                                                         *)

Rec == [turn : Nat, named : BOOLEAN, left : Nat]

\* A recovery with other looks left is of the same turn.
LEMMA LooksLeft ==
  ASSUME NEW r \in Rec, NEW n \in Nat, NEW q, q = [r EXCEPT !.left = n]
  PROVE  q \in Rec /\ q.turn = r.turn /\ q.named = r.named
BY DEF Rec

\* A recovery of a turn with a name is of that turn; what a message shows of a
\* turn whose stream knew its id is its own.
RecoveryInv ==
  /\ outcome \in [Recovery!All -> {"none", "runs", "answered", "silent", "aborted"}]
  /\ DOMAIN message = Recovery!All
  /\ \A r \in {stream, setup, seeker} :
       /\ r \in Rec
       /\ r.turn \in Recovery!All \ unnamed => r.named
  /\ OwnAnswer

\* The last of some turns is one of them.
LEMMA LastIsOne ==
  ASSUME NEW T \in SUBSET Recovery!All
  PROVE  /\ Recovery!LastOf(T) \subseteq T
         /\ T # {} => Recovery!Max(T) \in T
<1>1. ASSUME T # {}
      PROVE  Recovery!Max(T) \in T
  <2>1. MaxTurns \in Nat /\ T \in SUBSET (0 .. MaxTurns)
    BY DesktopAssumption DEF Recovery!All
  <2>2. \E x \in T : \A y \in T : x >= y
    BY <1>1, <2>1, Greatest
  <2> QED BY <2>2 DEF Recovery!Max
<1> QED BY <1>1 DEF Recovery!LastOf

\* What a recovery of a named turn puts is that turn's own.
LEMMA TriesOwn ==
  ASSUME RecoveryInv, ~alike, NEW r \in Rec,
         r.named, NEW text \in Recovery!Tries(r)
  PROVE  \/ text = Recovery!Cut /\ outcome[r.turn] = "aborted"
         \/ text = Recovery!Answer(r.turn) /\ outcome[r.turn] = "answered"
<1> DEFINE own == Recovery!Own(r)
<1>1. own \subseteq {r.turn} /\ own \subseteq Recovery!All
  BY DEF Recovery!Own, Recovery!Ended
<1>2. CASE text = Recovery!Cut /\ Recovery!Aborted(r)
  <2>1. own # {} /\ outcome[Recovery!Max(own)] = "aborted"
    BY <1>2 DEF Recovery!Aborted
  <2> HIDE DEF own
  <2>2. Recovery!Max(own) \in own
    BY <1>1, <2>1, LastIsOne
  <2> QED BY <1>1, <1>2, <2>1, <2>2
<1>3. ASSUME NEW T, T \subseteq Recovery!All, NEW t \in Recovery!LastOf(Recovery!Answered(T))
      PROVE  t \in T /\ outcome[t] = "answered"
  <2> DEFINE A == Recovery!Answered(T)
  <2>1. A \in SUBSET Recovery!All /\ A \subseteq T /\ \A u \in A : outcome[u] = "answered"
    BY <1>3 DEF Recovery!Answered
  <2>2. t \in Recovery!LastOf(A)
    BY <1>3
  <2> HIDE DEF A
  <2>3. t \in A
    BY <2>1, <2>2, LastIsOne
  <2> QED BY <2>1, <2>3
<1>4. ASSUME NEW t \in Recovery!LastOf(Recovery!Answered(own)) \cup Recovery!Candidates(r)
      PROVE  t = r.turn /\ outcome[t] = "answered"
  <2>1. CASE t \in Recovery!LastOf(Recovery!Answered(own))
    BY <1>1, <1>3, <2>1
  <2>2. CASE t \in Recovery!Candidates(r)
    <3>1. /\ t = r.turn
          /\ \/ t \in Recovery!LastOf(Recovery!Answered(own))
             \/ t \in Recovery!LastOf(Recovery!Answered(Recovery!Ended))
      BY <2>2 DEF Recovery!Candidates, Recovery!Begins
    <3>2. Recovery!Ended \subseteq Recovery!All
      BY DEF Recovery!Ended
    <3> QED BY <1>1, <1>3, <3>1, <3>2
  <2> QED BY <1>4, <2>1, <2>2
<1>5. CASE text # Recovery!Cut \/ ~Recovery!Aborted(r)
  <2>1. \E t \in Recovery!LastOf(Recovery!Answered(own)) \cup Recovery!Candidates(r) :
          text = Recovery!Answer(t)
    BY <1>5 DEF Recovery!Tries
  <2> QED BY <1>4, <2>1
<1> QED BY <1>2, <1>5

\* What a message of a turn with a name shows is its own.
Shown(t) ==
  /\ message[t] \in {Recovery!Blank, Recovery!Half, Recovery!Cut, Recovery!Answer(t)}
  /\ message[t] = Recovery!Cut => outcome[t] = "aborted"
  /\ t \in final => message[t] = Recovery!Answer(t) /\ outcome[t] = "answered"

\* An answer is never one of the other texts a message may show.
LEMMA TextsDiffer ==
  \A t : /\ Recovery!Answer(t) \notin {Recovery!Blank, Recovery!Half, Recovery!Cut}
         /\ Recovery!Cut \notin {Recovery!Blank, Recovery!Half}
BY DEF Recovery!Answer, Recovery!Blank, Recovery!Half, Recovery!Cut

\* A put of a recovery leaves every message with its own.
LEMMA PutOwn ==
  ASSUME RecoveryInv, ~alike, NEW r \in {setup, seeker}, NEW text \in Recovery!Tries(r),
         Recovery!Puts(r, text), UNCHANGED <<outcome, unnamed>>,
         NEW t \in Recovery!All \ unnamed
  PROVE  Shown(t)'
<1>1. Shown(t) /\ DOMAIN message = Recovery!All
  BY DEF RecoveryInv, OwnAnswer, Recovery!OwnAnswer, Shown
<1>2. CASE t # r.turn
  BY <1>1, <1>2 DEF Recovery!Puts, Shown
<1>3. CASE t = r.turn
  <2>1. /\ r \in Rec /\ r.named
    BY <1>3 DEF RecoveryInv
  <2>2. \/ text = Recovery!Cut /\ outcome[t] = "aborted"
        \/ text = Recovery!Answer(t) /\ outcome[t] = "answered"
    BY <1>3, <2>1, TriesOwn
  <2>3. message'[t] = text
    BY <1>1, <1>3 DEF Recovery!Puts
  <2>4. CASE text = Recovery!Cut /\ outcome[t] = "aborted"
    BY <1>1, <2>3, <2>4 DEF Recovery!Puts, Shown
  <2>5. CASE text = Recovery!Answer(t) /\ outcome[t] = "answered"
    BY <2>3, <2>5, TextsDiffer DEF Shown
  <2> QED BY <2>2, <2>4, <2>5
<1> QED BY <1>2, <1>3

\* Every step of the recovery.
LEMMA RecoveryStep ==
  ASSUME RecoveryInv, Recovery!Next \/ UNCHANGED recovery
  PROVE  RecoveryInv'
<1> DEFINE Outs == {"none", "runs", "answered", "silent", "aborted"}
<1>0. /\ outcome \in [Recovery!All -> Outs]
      /\ DOMAIN message = Recovery!All /\ MaxLooks \in Nat
      /\ \A r \in {stream, setup, seeker} :
           r \in Rec /\ (r.turn \in Recovery!All \ unnamed => r.named)
      /\ alike \/ \A t \in Recovery!All \ unnamed : Shown(t)
      /\ Recovery!All \subseteq Nat
  <2>1. MaxLooks \in Nat /\ Recovery!All \subseteq Nat
    BY DesktopAssumption DEF Recovery!All
  <2> QED BY <2>1 DEF RecoveryInv, OwnAnswer, Recovery!OwnAnswer, Shown
<1>1. Recovery!None \in Rec /\ Recovery!None.turn \notin Recovery!All
  BY DEF Recovery!None, Recovery!All, Rec
<1>2. ASSUME outcome' \in [Recovery!All -> Outs], DOMAIN message' = Recovery!All,
             \A r \in {stream', setup', seeker'} :
               r \in Rec /\ (r.turn \in Recovery!All \ unnamed' => r.named),
             UNCHANGED alike,
             alike \/ \A t \in Recovery!All \ unnamed' : Shown(t)'
      PROVE  RecoveryInv'
  BY <1>2 DEF RecoveryInv, OwnAnswer, Recovery!OwnAnswer, Shown
<1>3. ASSUME UNCHANGED <<message, final, outcome, unnamed>>
      PROVE  \A t : Shown(t) => Shown(t)'
  BY <1>3 DEF Shown
<1>4. ASSUME UNCHANGED <<alike, message, final, outcome, unnamed>>,
             \A r \in {stream', setup', seeker'} :
               r \in Rec /\ (r.turn \in Recovery!All \ unnamed => r.named)
      PROVE  RecoveryInv'
  BY <1>0, <1>2, <1>3, <1>4
<1>5. ASSUME NEW r \in Rec, NEW n \in Nat, NEW q, q = [r EXCEPT !.left = n],
             r.turn \in Recovery!All \ unnamed => r.named
      PROVE  q \in Rec /\ (q.turn \in Recovery!All \ unnamed => q.named)
  BY <1>5, LooksLeft
<1>6. CASE Recovery!Starts
  <2>1. PICK u \in Recovery!All : outcome[u] = "none" /\ outcome' = [outcome EXCEPT ![u] = "runs"]
    BY <1>6 DEF Recovery!Starts
  <2>2. outcome' \in [Recovery!All -> Outs]
    BY <1>0, <2>1
  <2>3. ASSUME NEW t \in Recovery!All, Shown(t)
        PROVE  Shown(t)'
    BY <1>0, <1>6, <2>1, <2>3 DEF Recovery!Starts, Shown
  <2> QED BY <1>0, <1>2, <1>6, <2>2, <2>3 DEF Recovery!Starts
<1>7. CASE Recovery!Shows
  <2>1. PICK u \in Recovery!Running, named \in BOOLEAN :
          /\ message[u] = Recovery!Blank /\ message' = [message EXCEPT ![u] = Recovery!Half]
          /\ stream' = [turn |-> u, named |-> named, left |-> 0]
          /\ unnamed' = IF named THEN unnamed ELSE unnamed \cup {u}
    BY <1>7 DEF Recovery!Shows
  <2>2. u \in Recovery!All /\ outcome[u] = "runs"
    BY <2>1 DEF Recovery!Running
  <2>3. stream' \in Rec /\ (stream'.turn \in Recovery!All \ unnamed' => stream'.named)
    BY <1>0, <2>1, <2>2 DEF Rec
  <2>4. ASSUME NEW t \in Recovery!All, Shown(t)
        PROVE  Shown(t)'
    <3>1. message'[t] = IF t = u THEN Recovery!Half ELSE message[t]
      BY <1>0, <2>1
    <3>2. t = u => t \notin final
      BY <2>2, <2>4 DEF Shown
    <3> QED BY <1>7, <2>4, <3>1, <3>2, TextsDiffer DEF Shown, Recovery!Shows
  <2>5. unnamed \subseteq unnamed'
    BY <2>1
  <2>6. DOMAIN message' = Recovery!All
    BY <1>0, <2>1
  <2> QED BY <1>0, <1>2, <1>7, <2>3, <2>4, <2>5, <2>6 DEF Recovery!Shows
<1>8. CASE Recovery!Ends
  <2>1. PICK u \in Recovery!Running, how \in {"answered", "silent", "aborted"} :
          /\ outcome' = [outcome EXCEPT ![u] = how]
          /\ \/ /\ message' = [message EXCEPT ![u] = CASE how = "answered" -> Recovery!Answer(u)
                                                       [] how = "aborted" -> Recovery!Cut
                                                       [] how = "silent" -> @]
                /\ final' = IF how = "answered" THEN final \cup {u} ELSE final
                /\ stream' = Recovery!None
             \/ UNCHANGED <<message, final, stream>>
    BY <1>8 DEF Recovery!Ends
  <2>2. u \in Recovery!All /\ outcome[u] = "runs"
    BY <2>1 DEF Recovery!Running
  <2>3. outcome' \in [Recovery!All -> Outs] /\ DOMAIN message' = Recovery!All
    BY <1>0, <2>1
  <2>4. ASSUME NEW t \in Recovery!All, Shown(t)
        PROVE  Shown(t)'
    <3>1. CASE t # u
      BY <1>0, <2>1, <2>4, <3>1 DEF Shown
    <3>2. CASE t = u
      <4>1. t \notin final /\ message[t] # Recovery!Cut /\ outcome'[t] = how
        BY <1>0, <2>1, <2>2, <2>4, <3>2 DEF Shown
      <4>2. CASE UNCHANGED <<message, final, stream>>
        BY <2>4, <4>1, <4>2 DEF Shown
      <4>3. CASE /\ message' = [message EXCEPT ![u] = CASE how = "answered" -> Recovery!Answer(u)
                                                       [] how = "aborted" -> Recovery!Cut
                                                       [] how = "silent" -> @]
                 /\ final' = IF how = "answered" THEN final \cup {u} ELSE final
        <5>1. CASE how = "answered"
          <6>1. message'[t] = Recovery!Answer(t)
            BY <1>0, <3>2, <4>3, <5>1
          <6> QED BY <4>1, <5>1, <6>1, TextsDiffer DEF Shown
        <5>2. CASE how = "aborted"
          <6>1. message'[t] = Recovery!Cut /\ final' = final
            BY <1>0, <3>2, <4>3, <5>2
          <6> QED BY <4>1, <5>2, <6>1 DEF Shown
        <5>3. CASE how = "silent"
          <6>1. message'[t] = message[t] /\ final' = final
            BY <1>0, <3>2, <4>3, <5>3
          <6> QED BY <2>4, <4>1, <6>1 DEF Shown
        <5> QED BY <5>1, <5>2, <5>3
      <4> QED BY <2>1, <4>2, <4>3
    <3> QED BY <3>1, <3>2
  <2>5. \A r \in {stream', setup', seeker'} :
          r \in Rec /\ (r.turn \in Recovery!All \ unnamed => r.named)
    BY <1>0, <1>1, <1>8, <2>1 DEF Recovery!Ends
  <2> QED BY <1>0, <1>2, <1>8, <2>3, <2>4, <2>5 DEF Recovery!Ends
<1>9. CASE Recovery!Breaks
  BY <1>0, <1>4, <1>9 DEF Recovery!Breaks
<1>10. CASE Recovery!Reconnects
  <2>1. setup' \in {Recovery!None, [stream EXCEPT !.left = MaxLooks]}
    BY <1>10 DEF Recovery!Reconnects
  <2>2. setup' \in Rec /\ (setup'.turn \in Recovery!All \ unnamed => setup'.named)
    <3>1. CASE setup' = Recovery!None
      BY <1>1, <3>1
    <3>2. CASE setup' = [stream EXCEPT !.left = MaxLooks]
      BY <1>0, <1>5, <3>2
    <3> QED BY <2>1, <3>1, <3>2
  <2> QED BY <1>0, <1>4, <1>10, <2>2 DEF Recovery!Reconnects
<1>11. ASSUME NEW r \in {setup, seeker}, NEW text \in Recovery!Tries(r), Recovery!Puts(r, text),
              UNCHANGED <<alike, outcome, unnamed>>,
              \A q \in {stream', setup', seeker'} :
                q \in Rec /\ (q.turn \in Recovery!All \ unnamed => q.named)
       PROVE  RecoveryInv'
  <2>1. DOMAIN message' = Recovery!All
    BY <1>0, <1>11 DEF Recovery!Puts
  <2>2. alike \/ \A t \in Recovery!All \ unnamed : Shown(t)'
    BY <1>11, PutOwn
  <2> QED BY <1>0, <1>2, <1>11, <2>1, <2>2
<1>12. CASE Recovery!SetupPuts
  BY <1>0, <1>1, <1>11, <1>12 DEF Recovery!SetupPuts, Recovery!SetupOver
<1>13. CASE Recovery!SetupLooks \/ Recovery!SetupGivesUp
  <2>1. /\ stream' \in {stream, Recovery!None} 
        /\ seeker' \in {seeker, [setup EXCEPT !.left = MaxLooks]}
        /\ \/ setup' = Recovery!None
           \/ setup.left > 1 /\ setup' = [setup EXCEPT !.left = @ - 1]
    BY <1>13 DEF Recovery!SetupLooks, Recovery!SetupGivesUp, Recovery!SetupOver
  <2>2. setup.left > 1 => setup.left - 1 \in Nat
    BY <1>0 DEF Rec
  <2>3. setup' \in Rec /\ (setup'.turn \in Recovery!All \ unnamed => setup'.named)
    <3>1. CASE setup' = Recovery!None
      BY <1>1, <3>1
    <3>2. CASE setup.left > 1 /\ setup' = [setup EXCEPT !.left = @ - 1]
      BY <1>0, <1>5, <2>2, <3>2
    <3> QED BY <2>1, <3>1, <3>2
  <2>4. seeker' \in Rec /\ (seeker'.turn \in Recovery!All \ unnamed => seeker'.named)
    <3>1. CASE seeker' = [setup EXCEPT !.left = MaxLooks]
      BY <1>0, <1>5, <3>1
    <3> QED BY <1>0, <2>1, <3>1
  <2>5. \A r \in {stream', setup', seeker'} :
          r \in Rec /\ (r.turn \in Recovery!All \ unnamed => r.named)
    BY <1>0, <1>1, <2>1, <2>3, <2>4
  <2> QED BY <1>4, <1>13, <2>5 DEF Recovery!SetupLooks, Recovery!SetupGivesUp
<1>14. CASE Recovery!TaskPuts
  BY <1>0, <1>1, <1>11, <1>14 DEF Recovery!TaskPuts
<1>15. CASE Recovery!TaskLooks
  <2>1. \/ seeker' = Recovery!None
        \/ seeker.left > 1 /\ seeker' = [seeker EXCEPT !.left = @ - 1]
    BY <1>15 DEF Recovery!TaskLooks
  <2>2. seeker.left > 1 => seeker.left - 1 \in Nat
    BY <1>0 DEF Rec
  <2>3. seeker' \in Rec /\ (seeker'.turn \in Recovery!All \ unnamed => seeker'.named)
    <3>1. CASE seeker' = Recovery!None
      BY <1>1, <3>1
    <3>2. CASE seeker.left > 1 /\ seeker' = [seeker EXCEPT !.left = @ - 1]
      BY <1>0, <1>5, <2>2, <3>2
    <3> QED BY <2>1, <3>1, <3>2
  <2> QED BY <1>0, <1>4, <1>15, <2>3 DEF Recovery!TaskLooks
<1>16. CASE Recovery!Restart
  BY <1>1, <1>4, <1>16 DEF Recovery!Restart
<1>17. CASE UNCHANGED recovery
  BY <1>0, <1>4, <1>17 DEF recovery
<1> QED
  BY <1>6, <1>7, <1>8, <1>9, <1>10, <1>12, <1>13, <1>14, <1>15, <1>16, <1>17 DEF Recovery!Next

\* A message left half shown ends up with its own turn's answer, whatever turns
\* follow, connections break and recoveries give up.
THEOREM AnswerIsOwn == Spec => []OwnAnswer
<1>1. Init => RecoveryInv
  <2> SUFFICES ASSUME Init
               PROVE  RecoveryInv
    OBVIOUS
  <2>1. Recovery!Init
    BY PartsInit
  <2>2. Recovery!None \in Rec /\ Recovery!None.turn \notin Recovery!All
    BY DEF Recovery!None, Recovery!All, Rec
  <2>3. \A t \in Recovery!All : message[t] = Recovery!Blank /\ t \notin final
    BY <2>1 DEF Recovery!Init
  <2>4. OwnAnswer
    BY <2>3, TextsDiffer DEF OwnAnswer, Recovery!OwnAnswer
  <2> QED BY <2>1, <2>2, <2>4 DEF RecoveryInv, Recovery!Init
<1>2. RecoveryInv /\ [Next]_vars => RecoveryInv'
  BY PartSteps, RecoveryStep
<1>3. RecoveryInv => OwnAnswer
  BY DEF RecoveryInv
<1> QED BY <1>1, <1>2, <1>3, PTL DEF Spec

-----------------------------------------------------------------------------
(* AppUpdate.                                                              *)

UpdateTypes ==
  /\ doing \in [Chats -> {"nothing", "send", "control", "create"}]
  /\ turn \in [Chats -> {"none", "accepted", "running"}]
  /\ board \in [Chats -> [status : {"idle", "running", "attention", "completed", "failed"},
                          delivery : {"unsent", "submitted", "accepted", "failed"},
                          active : BOOLEAN]]
  /\ busy \subseteq Chats /\ past \subseteq Chats

\* What a session shows, it has: a turn that is active, asks or runs; an active
\* thread; a message that is being sent, unless it went to a new thread.
ShowsItsWork(s) ==
  /\ s \in busy <=> turn[s] = "running"
  /\ board[s].active \/ board[s].status = "attention" => turn[s] = "running"
  /\ board[s].status = "running" => turn[s] # "none"
  /\ board[s].delivery = "submitted" => doing[s] = "send" \/ s \in remapped

\* From the second check until the service is stopped, what is under way was
\* not heard of by then or came in past the gate, which is closed.
Gated(s) ==
  host = "stop" =>
    \/ s \in unheard \cup past
    \/ doing[s] = "nothing" /\ turn[s] = "none"

\* From the copy on until it is moved back the copy is whole.
CopyThere ==
  /\ host \in {"second", "stop", "install", "aside", "back"} => backup = "whole"
  /\ app \notin {"old", "new"} => backup = "whole"

UpdateInv ==
  /\ UpdateTypes
  /\ \A s \in Chats : ShowsItsWork(s) /\ Gated(s)
  /\ host = "stop" => admission = "closed"
  /\ CopyThere /\ cut = {}

\* Work of sessions leaves the host's steps alone.
LEMMA WorkKeeps ==
  ASSUME UpdateInv, UNCHANGED <<admission, host, app, backup, cut, unheard>>,
         UpdateTypes', past \subseteq past', remapped \subseteq remapped',
         \A s \in Chats :
           \/ /\ doing'[s] = doing[s] /\ turn'[s] = turn[s] /\ board'[s] = board[s]
              /\ s \in busy' <=> s \in busy
           \/ ShowsItsWork(s)' /\ Gated(s)'
  PROVE  UpdateInv'
BY DEF UpdateInv, ShowsItsWork, Gated, CopyThere

\* So does work of one session, which leaves the others alone.
LEMMA OneWorks ==
  ASSUME UpdateInv, NEW s \in Chats,
         UNCHANGED <<admission, host, app, backup, cut, unheard, remapped>>,
         UpdateTypes', past \subseteq past',
         ShowsItsWork(s)' /\ Gated(s)',
         \A t \in Chats \ {s} :
           /\ doing'[t] = doing[t] /\ turn'[t] = turn[t] /\ board'[t] = board[t]
           /\ t \in busy' <=> t \in busy
  PROVE  UpdateInv'
<1>1. \A t \in Chats :
        \/ /\ doing'[t] = doing[t] /\ turn'[t] = turn[t] /\ board'[t] = board[t]
           /\ t \in busy' <=> t \in busy
        \/ ShowsItsWork(t)' /\ Gated(t)'
  OBVIOUS
<1> QED BY <1>1, WorkKeeps

\* A session's board keeps its shape.
LEMMA BoardShape ==
  ASSUME UpdateTypes, NEW s \in Chats
  PROVE  /\ board[s].status \in {"idle", "running", "attention", "completed", "failed"}
         /\ board[s].active \in BOOLEAN
         /\ board[s].delivery \in {"unsent", "submitted", "accepted", "failed"}
         /\ doing[s] \in {"nothing", "send", "control", "create"}
         /\ turn[s] \in {"none", "accepted", "running"}
BY DEF UpdateTypes

\* What the sessions show.
Boards == [Chats -> [status : {"idle", "running", "attention", "completed", "failed"},
                     delivery : {"unsent", "submitted", "accepted", "failed"}, active : BOOLEAN]]

\* A session shows another status ...
LEMMA StatusShows ==
  ASSUME NEW b \in Boards, NEW s \in Chats, NEW st \in {"idle", "running", "attention", "completed", "failed"},
         NEW c, c = [b EXCEPT ![s].status = st]
  PROVE  c \in Boards
BY DEF Boards

\* ... what became of its message ...
LEMMA DeliveryShows ==
  ASSUME NEW b \in Boards, NEW s \in Chats, NEW de \in {"submitted", "accepted", "failed"},
         NEW c, c = [b EXCEPT ![s].delivery = de]
  PROVE  c \in Boards /\ c[s].status = b[s].status
BY DEF Boards

\* ... or whether a turn is active.
LEMMA ActiveShows ==
  ASSUME NEW b \in Boards, NEW s \in Chats, NEW a \in BOOLEAN,
         NEW c, c = [b EXCEPT ![s].active = a]
  PROVE  c \in Boards
BY DEF Boards

\* A message that was taken, one that could not be sent, and the beginning and the end of a
\* turn leave it in its type.
LEMMA WorkShows ==
  ASSUME UpdateTypes, NEW s \in Chats
  PROVE  /\ Update!Accepted(s) \in Boards /\ Update!SendFailed(s) \in Boards
         /\ \A st \in {"completed", "failed"} : Update!Ended(s, st) \in Boards
         /\ [board EXCEPT ![s].status = "running", ![s].active = TRUE] \in Boards
<1>1. board \in Boards /\ board[s].status \in {"idle", "running", "attention", "completed", "failed"}
  BY DEF UpdateTypes, Boards
<1>2. Update!Accepted(s) \in Boards
  <2>1. PICK m : m = [board EXCEPT ![s].delivery = "accepted"]
    OBVIOUS
  <2>2. m \in Boards /\ m[s].status = board[s].status
    BY <1>1, <2>1, DeliveryShows
  <2>3. PICK st : st = IF Update!Terminal(s) THEN m[s].status ELSE "running"
    OBVIOUS
  <2>4. Update!Accepted(s) = [m EXCEPT ![s].status = st]
    BY <2>1, <2>3 DEF Update!Accepted
  <2> QED BY <1>1, <2>2, <2>3, <2>4, StatusShows
<1>3. Update!SendFailed(s) \in Boards
  <2>1. PICK m : m = [board EXCEPT ![s].delivery = "failed"]
    OBVIOUS
  <2>2. m \in Boards /\ m[s].status = board[s].status
    BY <1>1, <2>1, DeliveryShows
  <2>3. PICK st : st = IF board[s].active THEN m[s].status ELSE "failed"
    OBVIOUS
  <2>4. Update!SendFailed(s) = [m EXCEPT ![s].status = st]
    BY <2>1, <2>3 DEF Update!SendFailed
  <2> QED BY <1>1, <2>2, <2>3, <2>4, StatusShows
<1>4. ASSUME NEW st \in {"completed", "failed"}
      PROVE  Update!Ended(s, st) \in Boards
  <2>1. PICK m : m = [board EXCEPT ![s].active = FALSE]
    OBVIOUS
  <2>2. m \in Boards
    BY <1>1, <2>1, ActiveShows
  <2>3. Update!Ended(s, st) = [m EXCEPT ![s].status = st]
    BY <2>1 DEF Update!Ended
  <2> QED BY <2>2, <2>3, StatusShows
<1>5. [board EXCEPT ![s].status = "running", ![s].active = TRUE] \in Boards
  <2>1. PICK m : m = [board EXCEPT ![s].status = "running"]
    OBVIOUS
  <2>2. m \in Boards
    BY <1>1, <2>1, StatusShows
  <2>3. [board EXCEPT ![s].status = "running", ![s].active = TRUE] = [m EXCEPT ![s].active = TRUE]
    BY <2>1
  <2> QED BY <2>2, <2>3, ActiveShows
<1> QED BY <1>2, <1>3, <1>4, <1>5

\* What a session's own work does.
LEMMA WorkStep ==
  ASSUME UpdateInv, NEW s \in Chats, Update!Session(s)
  PROVE  UpdateInv'
<1> USE DEF Update!Stays, Update!Begins, Update!Admitted
<1>0. /\ UpdateTypes /\ (host = "stop" => admission = "closed")
      /\ \A t \in Chats : ShowsItsWork(t) /\ Gated(t)
  BY DEF UpdateInv
<1>1. CASE Update!BeginSend(s)
  <2>1. UpdateTypes'
    BY <1>0, <1>1 DEF Update!BeginSend, Update!Submitted, UpdateTypes
  <2>2. ShowsItsWork(s)'
    BY <1>0, <1>1 DEF Update!BeginSend, Update!Submitted, UpdateTypes, ShowsItsWork
  <2>3. Gated(s)'
    BY <1>0, <1>1 DEF Update!BeginSend, Update!Submitted, UpdateTypes, Gated, ShowsItsWork
  <2>4. /\ UNCHANGED <<admission, host, app, backup, cut, unheard, remapped>>
        /\ past \subseteq past'
        /\ \A t \in Chats \ {s} : t \in busy' <=> t \in busy
    BY <1>1 DEF Update!BeginSend
  <2>5. \A t \in Chats \ {s} :
          doing'[t] = doing[t] /\ turn'[t] = turn[t] /\ board'[t] = board[t]
    BY <1>0, <1>1 DEF Update!BeginSend, Update!Submitted, UpdateTypes
  <2> QED BY <2>1, <2>2, <2>3, <2>4, <2>5, OneWorks
<1>2. CASE Update!SendTaken(s)
  <2>1. UpdateTypes'
    <3>1. board' \in Boards
      BY <1>0, <1>2, WorkShows DEF Update!SendTaken
    <3> QED BY <1>0, <1>2, <3>1 DEF Update!SendTaken, UpdateTypes, Boards
  <2>2. ShowsItsWork(s)'
    BY <1>0, <1>2 DEF Update!SendTaken, Update!Accepted, Update!Terminal, UpdateTypes, ShowsItsWork
  <2>3. Gated(s)'
    BY <1>0, <1>2 DEF Update!SendTaken, Update!Accepted, Update!Terminal, UpdateTypes, Gated, ShowsItsWork
  <2>4. /\ UNCHANGED <<admission, host, app, backup, cut, unheard, remapped>>
        /\ past \subseteq past'
        /\ \A t \in Chats \ {s} : t \in busy' <=> t \in busy
    BY <1>2 DEF Update!SendTaken
  <2>5. \A t \in Chats \ {s} :
          doing'[t] = doing[t] /\ turn'[t] = turn[t] /\ board'[t] = board[t]
    <3>1. board' = [[board EXCEPT ![s].delivery = "accepted"]
                      EXCEPT ![s].status = IF Update!Terminal(s) THEN @ ELSE "running"]
      BY <1>0, <1>2 DEF Update!SendTaken, Update!Accepted, UpdateTypes
    <3>2. \A t \in Chats \ {s} : board'[t] = board[t]
      BY <1>0, <3>1 DEF UpdateTypes
    <3> QED BY <1>0, <1>2, <3>2 DEF Update!SendTaken, UpdateTypes
  <2> QED BY <2>1, <2>2, <2>3, <2>4, <2>5, OneWorks
<1>3. CASE Update!SendFails(s)
  <2>1. UpdateTypes'
    <3>1. board' \in Boards
      BY <1>0, <1>3, WorkShows DEF Update!SendFails
    <3> QED BY <1>0, <1>3, <3>1 DEF Update!SendFails, UpdateTypes, Boards
  <2>2. ShowsItsWork(s)'
    BY <1>0, <1>3 DEF Update!SendFails, Update!SendFailed, UpdateTypes, ShowsItsWork
  <2>3. Gated(s)'
    BY <1>0, <1>3 DEF Update!SendFails, Update!SendFailed, UpdateTypes, Gated, ShowsItsWork
  <2>4. /\ UNCHANGED <<admission, host, app, backup, cut, unheard, remapped>>
        /\ past \subseteq past'
        /\ \A t \in Chats \ {s} : t \in busy' <=> t \in busy
    BY <1>3 DEF Update!SendFails
  <2>5. \A t \in Chats \ {s} :
          doing'[t] = doing[t] /\ turn'[t] = turn[t] /\ board'[t] = board[t]
    BY <1>0, <1>3 DEF Update!SendFails, Update!SendFailed, UpdateTypes
  <2> QED BY <2>1, <2>2, <2>3, <2>4, <2>5, OneWorks
<1>4. CASE Update!BeginPast(s)
  <2>1. UpdateTypes'
    BY <1>0, <1>4 DEF Update!BeginPast, Update!Submitted, UpdateTypes
  <2>2. ShowsItsWork(s)'
    BY <1>0, <1>4 DEF Update!BeginPast, Update!Submitted, UpdateTypes, ShowsItsWork
  <2>3. Gated(s)'
    BY <1>0, <1>4 DEF Update!BeginPast, Update!Submitted, UpdateTypes, Gated, ShowsItsWork
  <2>4. /\ UNCHANGED <<admission, host, app, backup, cut, unheard, remapped>>
        /\ past \subseteq past'
        /\ \A t \in Chats \ {s} : t \in busy' <=> t \in busy
    BY <1>4 DEF Update!BeginPast
  <2>5. \A t \in Chats \ {s} :
          doing'[t] = doing[t] /\ turn'[t] = turn[t] /\ board'[t] = board[t]
    BY <1>0, <1>4 DEF Update!BeginPast, Update!Submitted, UpdateTypes
  <2> QED BY <2>1, <2>2, <2>3, <2>4, <2>5, OneWorks
<1>5. CASE Update!BeginControl(s)
  <2>1. UpdateTypes'
    BY <1>0, <1>5 DEF Update!BeginControl, UpdateTypes
  <2>2. ShowsItsWork(s)'
    BY <1>0, <1>5 DEF Update!BeginControl, UpdateTypes, ShowsItsWork
  <2>3. Gated(s)'
    BY <1>0, <1>5 DEF Update!BeginControl, UpdateTypes, Gated, ShowsItsWork
  <2>4. /\ UNCHANGED <<admission, host, app, backup, cut, unheard, remapped>>
        /\ past \subseteq past'
        /\ \A t \in Chats \ {s} : t \in busy' <=> t \in busy
    BY <1>5 DEF Update!BeginControl
  <2>5. \A t \in Chats \ {s} :
          doing'[t] = doing[t] /\ turn'[t] = turn[t] /\ board'[t] = board[t]
    BY <1>0, <1>5 DEF Update!BeginControl, UpdateTypes
  <2> QED BY <2>1, <2>2, <2>3, <2>4, <2>5, OneWorks
<1>6. CASE Update!BeginCreate(s)
  <2>1. UpdateTypes'
    BY <1>0, <1>6 DEF Update!BeginCreate, UpdateTypes
  <2>2. ShowsItsWork(s)'
    BY <1>0, <1>6 DEF Update!BeginCreate, UpdateTypes, ShowsItsWork
  <2>3. Gated(s)'
    BY <1>0, <1>6 DEF Update!BeginCreate, UpdateTypes, Gated, ShowsItsWork
  <2>4. /\ UNCHANGED <<admission, host, app, backup, cut, unheard, remapped>>
        /\ past \subseteq past'
        /\ \A t \in Chats \ {s} : t \in busy' <=> t \in busy
    BY <1>6 DEF Update!BeginCreate
  <2>5. \A t \in Chats \ {s} :
          doing'[t] = doing[t] /\ turn'[t] = turn[t] /\ board'[t] = board[t]
    BY <1>0, <1>6 DEF Update!BeginCreate, UpdateTypes
  <2> QED BY <2>1, <2>2, <2>3, <2>4, <2>5, OneWorks
<1>7. CASE Update!CallEnds(s)
  <2>1. UpdateTypes'
    BY <1>0, <1>7 DEF Update!CallEnds, UpdateTypes
  <2>2. ShowsItsWork(s)'
    BY <1>0, <1>7 DEF Update!CallEnds, UpdateTypes, ShowsItsWork
  <2>3. Gated(s)'
    BY <1>0, <1>7 DEF Update!CallEnds, UpdateTypes, Gated, ShowsItsWork
  <2>4. /\ UNCHANGED <<admission, host, app, backup, cut, unheard, remapped>>
        /\ past \subseteq past'
        /\ \A t \in Chats \ {s} : t \in busy' <=> t \in busy
    BY <1>7 DEF Update!CallEnds
  <2>5. \A t \in Chats \ {s} :
          doing'[t] = doing[t] /\ turn'[t] = turn[t] /\ board'[t] = board[t]
    BY <1>0, <1>7 DEF Update!CallEnds, UpdateTypes
  <2> QED BY <2>1, <2>2, <2>3, <2>4, <2>5, OneWorks
<1>8. CASE Update!TurnStarts(s)
  <2>1. UpdateTypes'
    <3>1. board' \in Boards
      BY <1>0, <1>8, WorkShows DEF Update!TurnStarts
    <3> QED BY <1>0, <1>8, <3>1 DEF Update!TurnStarts, UpdateTypes, Boards
  <2>2. ShowsItsWork(s)'
    BY <1>0, <1>8 DEF Update!TurnStarts, UpdateTypes, ShowsItsWork
  <2>3. Gated(s)'
    BY <1>0, <1>8 DEF Update!TurnStarts, UpdateTypes, Gated, ShowsItsWork
  <2>4. /\ UNCHANGED <<admission, host, app, backup, cut, unheard, remapped>>
        /\ past \subseteq past'
        /\ \A t \in Chats \ {s} : t \in busy' <=> t \in busy
    BY <1>8 DEF Update!TurnStarts
  <2>5. \A t \in Chats \ {s} :
          doing'[t] = doing[t] /\ turn'[t] = turn[t] /\ board'[t] = board[t]
    BY <1>0, <1>8 DEF Update!TurnStarts, UpdateTypes
  <2> QED BY <2>1, <2>2, <2>3, <2>4, <2>5, OneWorks
<1>9. CASE Update!AsksUser(s)
  <2>1. UpdateTypes'
    BY <1>0, <1>9 DEF Update!AsksUser, UpdateTypes
  <2>2. ShowsItsWork(s)'
    BY <1>0, <1>9 DEF Update!AsksUser, UpdateTypes, ShowsItsWork
  <2>3. Gated(s)'
    BY <1>0, <1>9 DEF Update!AsksUser, UpdateTypes, Gated, ShowsItsWork
  <2>4. /\ UNCHANGED <<admission, host, app, backup, cut, unheard, remapped>>
        /\ past \subseteq past'
        /\ \A t \in Chats \ {s} : t \in busy' <=> t \in busy
    BY <1>9 DEF Update!AsksUser
  <2>5. \A t \in Chats \ {s} :
          doing'[t] = doing[t] /\ turn'[t] = turn[t] /\ board'[t] = board[t]
    BY <1>0, <1>9 DEF Update!AsksUser, UpdateTypes
  <2> QED BY <2>1, <2>2, <2>3, <2>4, <2>5, OneWorks
<1>10. CASE Update!AnswersUser(s)
  <2>1. UpdateTypes'
    BY <1>0, <1>10 DEF Update!AnswersUser, UpdateTypes
  <2>2. ShowsItsWork(s)'
    BY <1>0, <1>10 DEF Update!AnswersUser, UpdateTypes, ShowsItsWork
  <2>3. Gated(s)'
    BY <1>0, <1>10 DEF Update!AnswersUser, UpdateTypes, Gated, ShowsItsWork
  <2>4. /\ UNCHANGED <<admission, host, app, backup, cut, unheard, remapped>>
        /\ past \subseteq past'
        /\ \A t \in Chats \ {s} : t \in busy' <=> t \in busy
    BY <1>10 DEF Update!AnswersUser
  <2>5. \A t \in Chats \ {s} :
          doing'[t] = doing[t] /\ turn'[t] = turn[t] /\ board'[t] = board[t]
    BY <1>0, <1>10 DEF Update!AnswersUser, UpdateTypes
  <2> QED BY <2>1, <2>2, <2>3, <2>4, <2>5, OneWorks
<1>11. CASE Update!Finals(s)
  <2>1. UpdateTypes'
    <3>1. board' \in Boards
      BY <1>0, <1>11, WorkShows DEF Update!Finals
    <3> QED BY <1>0, <1>11, <3>1 DEF Update!Finals, UpdateTypes, Boards
  <2>2. ShowsItsWork(s)'
    BY <1>0, <1>11 DEF Update!Finals, Update!Ended, UpdateTypes, ShowsItsWork
  <2>3. Gated(s)'
    BY <1>0, <1>11 DEF Update!Finals, Update!Ended, UpdateTypes, Gated, ShowsItsWork
  <2>4. /\ UNCHANGED <<admission, host, app, backup, cut, unheard, remapped>>
        /\ past \subseteq past'
        /\ \A t \in Chats \ {s} : t \in busy' <=> t \in busy
    BY <1>11 DEF Update!Finals
  <2>5. \A t \in Chats \ {s} :
          doing'[t] = doing[t] /\ turn'[t] = turn[t] /\ board'[t] = board[t]
    BY <1>0, <1>11 DEF Update!Finals, Update!Ended, UpdateTypes
  <2> QED BY <2>1, <2>2, <2>3, <2>4, <2>5, OneWorks
<1>12. CASE Update!TurnCompletes(s)
  <2>1. UpdateTypes'
    <3>1. board' \in Boards
      BY <1>0, <1>12, WorkShows DEF Update!TurnCompletes
    <3> QED BY <1>0, <1>12, <3>1 DEF Update!TurnCompletes, UpdateTypes, Boards
  <2>2. ShowsItsWork(s)'
    BY <1>0, <1>12 DEF Update!TurnCompletes, Update!Ended, UpdateTypes, ShowsItsWork
  <2>3. Gated(s)'
    BY <1>0, <1>12 DEF Update!TurnCompletes, Update!Ended, UpdateTypes, Gated, ShowsItsWork
  <2>4. /\ UNCHANGED <<admission, host, app, backup, cut, unheard, remapped>>
        /\ past \subseteq past'
        /\ \A t \in Chats \ {s} : t \in busy' <=> t \in busy
    BY <1>12 DEF Update!TurnCompletes
  <2>5. \A t \in Chats \ {s} :
          doing'[t] = doing[t] /\ turn'[t] = turn[t] /\ board'[t] = board[t]
    BY <1>0, <1>12 DEF Update!TurnCompletes, Update!Ended, UpdateTypes
  <2> QED BY <2>1, <2>2, <2>3, <2>4, <2>5, OneWorks
<1>13. CASE Update!TurnFails(s)
  <2>1. UpdateTypes'
    <3>1. board' \in Boards
      BY <1>0, <1>13, WorkShows DEF Update!TurnFails
    <3> QED BY <1>0, <1>13, <3>1 DEF Update!TurnFails, UpdateTypes, Boards
  <2>2. ShowsItsWork(s)'
    BY <1>0, <1>13 DEF Update!TurnFails, Update!Ended, UpdateTypes, ShowsItsWork
  <2>3. Gated(s)'
    BY <1>0, <1>13 DEF Update!TurnFails, Update!Ended, UpdateTypes, Gated, ShowsItsWork
  <2>4. /\ UNCHANGED <<admission, host, app, backup, cut, unheard, remapped>>
        /\ past \subseteq past'
        /\ \A t \in Chats \ {s} : t \in busy' <=> t \in busy
    BY <1>13 DEF Update!TurnFails
  <2>5. \A t \in Chats \ {s} :
          doing'[t] = doing[t] /\ turn'[t] = turn[t] /\ board'[t] = board[t]
    BY <1>0, <1>13 DEF Update!TurnFails, Update!Ended, UpdateTypes
  <2> QED BY <2>1, <2>2, <2>3, <2>4, <2>5, OneWorks
<1>14. CASE Update!Continues(s)
  <2>1. UpdateTypes'
    BY <1>0, <1>14 DEF Update!Continues, UpdateTypes
  <2>2. ShowsItsWork(s)'
    BY <1>0, <1>14 DEF Update!Continues, UpdateTypes, ShowsItsWork
  <2>3. Gated(s)'
    BY <1>0, <1>14 DEF Update!Continues, UpdateTypes, Gated, ShowsItsWork
  <2>4. /\ UNCHANGED <<admission, host, app, backup, cut, unheard, remapped>>
        /\ past \subseteq past'
        /\ \A t \in Chats \ {s} : t \in busy' <=> t \in busy
    BY <1>14 DEF Update!Continues
  <2>5. \A t \in Chats \ {s} :
          doing'[t] = doing[t] /\ turn'[t] = turn[t] /\ board'[t] = board[t]
    BY <1>0, <1>14 DEF Update!Continues, UpdateTypes
  <2> QED BY <2>1, <2>2, <2>3, <2>4, <2>5, OneWorks
<1>15. ASSUME NEW n \in Chats, Update!Remap(s, n)
       PROVE  UpdateInv'
  <2>1. UpdateTypes'
    <3>1. board' \in Boards
      BY <1>0, <1>15, WorkShows DEF Update!Remap
    <3> QED BY <1>0, <1>15, <3>1 DEF Update!Remap, UpdateTypes, Boards
  <2>2. ShowsItsWork(s)' /\ Gated(s)'
    BY <1>0, <1>15 DEF Update!Remap, Update!Accepted, UpdateTypes, ShowsItsWork, Gated
  <2>3. ShowsItsWork(n)' /\ Gated(n)'
    BY <1>0, <1>15 DEF Update!Remap, Update!Accepted, Update!Terminal, Update!Blank, UpdateTypes,
       ShowsItsWork, Gated
  <2>4. /\ UNCHANGED <<admission, host, app, backup, cut, unheard, busy>>
        /\ past \subseteq past' /\ remapped \subseteq remapped'
    BY <1>15 DEF Update!Remap
  <2>5. \A t \in Chats \ {s, n} :
          doing'[t] = doing[t] /\ turn'[t] = turn[t] /\ board'[t] = board[t]
    BY <1>0, <1>15 DEF Update!Remap, Update!Accepted, UpdateTypes
  <2>6. \A t \in Chats :
          \/ /\ doing'[t] = doing[t] /\ turn'[t] = turn[t] /\ board'[t] = board[t]
             /\ t \in busy' <=> t \in busy
          \/ ShowsItsWork(t)' /\ Gated(t)'
    BY <2>2, <2>3, <2>4, <2>5
  <2> QED BY <2>1, <2>4, <2>6, WorkKeeps
<1> QED
  BY <1>1, <1>2, <1>3, <1>4, <1>5, <1>6, <1>7, <1>8, <1>9, <1>10, <1>11, <1>12, <1>13, <1>14, <1>15
  DEF Update!Session

\* Every step of the sessions and of the host.
LEMMA UpdateStep ==
  ASSUME UpdateInv, Update!Next \/ UNCHANGED update
  PROVE  UpdateInv'
<1> USE DEF Update!Goes
<1>0. /\ UpdateTypes /\ (host = "stop" => admission = "closed")
      /\ \A t \in Chats : ShowsItsWork(t) /\ Gated(t)
      /\ CopyThere /\ cut = {}
  BY DEF UpdateInv
<1>1. ASSUME UNCHANGED <<doing, turn, board, busy, past, remapped, unheard, cut>>,
             host' = "stop" => host = "stop" /\ UNCHANGED admission,
             CopyThere'
      PROVE  UpdateInv'
  BY <1>0, <1>1 DEF UpdateInv, UpdateTypes, ShowsItsWork, Gated
<1>2. CASE Update!Prepare
  <2>1. CASE Update!Refuses
    BY <1>0, <1>1, <1>2, <2>1 DEF Update!Prepare, CopyThere
  <2>2. CASE ~Update!Refuses
    <3>1. /\ host' \in {"copy", "stop"} /\ (host' = "stop" => host = "second")
          /\ admission' = "closed" /\ past' = {}
          /\ unheard' = {s \in Chats : turn[s] = "accepted"}
          /\ UNCHANGED <<doing, turn, board, busy, remapped, app, backup, cut>>
      BY <1>2, <2>2 DEF Update!Prepare
    <3>2. \A s \in Chats : doing[s] = "nothing" /\ turn[s] # "running"
      BY <1>0, <2>2 DEF Update!Refuses, ShowsItsWork
    <3>3. \A s \in Chats : ShowsItsWork(s)' /\ Gated(s)'
      BY <1>0, <3>1, <3>2, BoardShape DEF ShowsItsWork, Gated
    <3>4. CopyThere' /\ UpdateTypes'
      BY <1>0, <3>1 DEF CopyThere, UpdateTypes
    <3> QED BY <1>0, <3>1, <3>3, <3>4 DEF UpdateInv
  <2> QED BY <2>1, <2>2
<1>3. CASE Update!Stops
  <2>1. cut' = {}
    BY <1>0, <1>3 DEF Update!Stops, Gated
  <2>2. UpdateTypes' /\ CopyThere' /\ host' = "install"
    BY <1>0, <1>3 DEF Update!Stops, UpdateTypes, CopyThere, Update!Blank
  <2>3. \A s \in Chats : ShowsItsWork(s)' /\ Gated(s)'
    BY <1>0, <1>3 DEF Update!Stops, ShowsItsWork, Gated, Update!Blank
  <2> QED BY <2>1, <2>2, <2>3 DEF UpdateInv
<1>4. CASE Update!Fails
  BY <1>0, <1>1, <1>4 DEF Update!Fails, Update!work, CopyThere
<1>5. CASE Update!Dies
  <2>1. host' = "idle" /\ UNCHANGED <<backup, cut, admission>> /\ UNCHANGED Update!work
        /\ app' \in (IF host = "install" THEN {"old", "broken", "new"} ELSE {app})
    BY <1>5 DEF Update!Dies
  <2>2. CopyThere'
    BY <1>0, <2>1 DEF CopyThere
  <2> QED BY <1>0, <1>1, <2>1, <2>2 DEF Update!work
<1>6. CASE \/ Update!AsksToInstall \/ Update!Copies \/ Update!Installs \/ Update!MovesAside
           \/ Update!MovesBack \/ Update!Cancels \/ Update!StartsService
  BY <1>0, <1>1, <1>6
  DEF Update!AsksToInstall, Update!Copies, Update!Copied, Update!Installs, Update!MovesAside,
      Update!MovesBack, Update!Cancels, Update!StartsService, Update!work, CopyThere
<1>7. CASE Update!LeaseEnds
  BY <1>0, <1>1, <1>7 DEF Update!LeaseEnds, Update!work, CopyThere
<1>8. CASE UNCHANGED update
  BY <1>0, <1>1, <1>8 DEF update, CopyThere
<1> QED
  BY <1>2, <1>3, <1>4, <1>5, <1>6, <1>7, <1>8, WorkStep DEF Update!Next, Update!Host

\* The invariant of the app update holds in every behaviour.
THEOREM UpdateInvariant == Spec => []UpdateInv
<1>1. Init => UpdateInv
  <2> SUFFICES ASSUME Init
               PROVE  UpdateInv
    OBVIOUS
  <2>1. Update!Init
    BY PartsInit
  <2> QED BY <2>1 DEF UpdateInv, UpdateTypes, ShowsItsWork, Gated, CopyThere, Update!Init, Update!Blank
<1>2. UpdateInv /\ [Next]_vars => UpdateInv'
  BY PartSteps, UpdateStep
<1> QED BY <1>1, <1>2, PTL DEF Spec

\* An app update cuts off no work that came in by the gate and had a turn when
\* the second check passed, however long the copy takes.
THEOREM UpdateCutsNothing == Spec => []NothingCut
<1>1. UpdateInv => NothingCut
  BY DEF UpdateInv, NothingCut, Update!NothingCut
<1> QED BY <1>1, UpdateInvariant, PTL

\* A session at rest does not refuse the update, and whichever step fails or is
\* the last, an app that runs is in place or can be put back.
THEOREM UpdateIsSafe == Spec => []UpdateSafe
<1>1. UpdateInv => UpdateSafe
  <2> SUFFICES ASSUME UpdateInv
               PROVE  Update!RestAdmits /\ Update!AppThere
    BY DEF UpdateSafe
  <2>1. Update!RestAdmits
    BY DEF UpdateInv, ShowsItsWork, Update!RestAdmits, Update!Shows
  <2> QED BY <2>1 DEF UpdateInv, CopyThere, Update!AppThere
<1> QED BY <1>1, UpdateInvariant, PTL

-----------------------------------------------------------------------------
(* SessionList.                                                            *)

AskRecord == [how : {"unasked", "waits", "direct", "over"}, load : 0 .. MaxLoads,
              there : SUBSET Listed, absent : SUBSET Listed,
              list : Lists!Lists \cup {Lists!NoList}]
LoadRecord == [at : {"unused", "rollouts", "rows", "done", "failed"},
               files : SUBSET Listed, list : Lists!Lists \cup {Lists!NoList}]

ListTypes ==
  /\ rolled \subseteq Listed /\ active \subseteq Listed
  /\ loads \in [Lists!Loads -> LoadRecord]
  /\ loading \in 0 .. MaxLoads /\ cache \in Lists!Lists \cup {Lists!NoList}
  /\ ask \in [Asks -> AskRecord]

\* A list shows a request what was there all the while.
ShowsAll(r, shows) ==
  /\ \A s \in r.there : shows[s] = "active"
  /\ \A s \in r.absent : shows[s] = "none"

\* A load has read what its request asks for, as far as it has got.
LeadsTo(r, l) ==
  /\ l.at = "rows" => r.there \subseteq l.files /\ r.absent \cap l.files = {}
  /\ l.at = "done" => ShowsAll(r, l.list)

\* What was there all the while is there now, and the answer will show it.
AskedRight(a) ==
  /\ ask[a].how \in {"waits", "direct"} =>
       ask[a].there \subseteq rolled \cap active /\ ask[a].absent \cap (rolled \cup active) = {}
  /\ ask[a].how = "waits" => ask[a].load \in Lists!Loads /\ LeadsTo(ask[a], loads[ask[a].load])
  /\ ask[a].how = "direct" =>
       /\ ask[a].list \in Lists!Lists
       /\ \/ \A s \in Listed : ask[a].list[s] # "active"
          \/ \A s \in ask[a].there : ask[a].list[s] = "active"
  /\ ask[a].how = "over" => ShowsAll(ask[a], ask[a].list)

ListsInv == ListTypes /\ \A a \in Asks : AskedRight(a)

\* What becomes of the record of a request.
Narrowed(r, A, B)  == [r EXCEPT !.there = A, !.absent = B]
Told(r, l)         == [r EXCEPT !.how = "over", !.list = l]
Waiting(n, A, B)   == [Lists!Unasked EXCEPT !.how = "waits", !.load = n, !.there = A, !.absent = B]
Directly(l, A, B)  == [Lists!Unasked EXCEPT !.how = "direct", !.list = l, !.there = A, !.absent = B]

\* The four ways the record of a request changes, field by field.
LEMMA AskNarrowed ==
  ASSUME NEW r \in AskRecord, NEW A \in SUBSET Listed, NEW B \in SUBSET Listed
  PROVE  /\ Narrowed(r, A, B) \in AskRecord
         /\ Narrowed(r, A, B).how = r.how /\ Narrowed(r, A, B).load = r.load
         /\ Narrowed(r, A, B).there = A /\ Narrowed(r, A, B).absent = B
         /\ Narrowed(r, A, B).list = r.list
<1> DEFINE q == Narrowed(r, A, B)
<1>1. q = [r EXCEPT !.there = A, !.absent = B]
  BY DEF Narrowed
<1> HIDE DEF q
<1>2. /\ q \in AskRecord /\ q.how = r.how /\ q.load = r.load
      /\ q.there = A /\ q.absent = B /\ q.list = r.list
  BY <1>1 DEF AskRecord
<1> QED BY <1>2 DEF q

\* The second way: the request is over, with the list it was given.
LEMMA AskOver ==
  ASSUME NEW r \in AskRecord, NEW l \in Lists!Lists \cup {Lists!NoList}
  PROVE  /\ Told(r, l) \in AskRecord /\ Told(r, l).how = "over"
         /\ Told(r, l).there = r.there /\ Told(r, l).absent = r.absent /\ Told(r, l).list = l
<1> DEFINE q == Told(r, l)
<1>1. q = [r EXCEPT !.how = "over", !.list = l]
  BY DEF Told
<1> HIDE DEF q
<1>2. /\ q \in AskRecord /\ q.how = "over"
      /\ q.there = r.there /\ q.absent = r.absent /\ q.list = l
  BY <1>1 DEF AskRecord
<1> QED BY <1>2 DEF q

\* The third way: the request waits for a load.
LEMMA AskWaits ==
  ASSUME NEW A \in SUBSET Listed, NEW B \in SUBSET Listed, NEW n \in 0 .. MaxLoads,
         Lists!Unasked \in AskRecord
  PROVE  /\ Waiting(n, A, B) \in AskRecord
         /\ Waiting(n, A, B).how = "waits" /\ Waiting(n, A, B).load = n
         /\ Waiting(n, A, B).there = A /\ Waiting(n, A, B).absent = B
<1> DEFINE q == Waiting(n, A, B)
<1>1. q = [Lists!Unasked EXCEPT !.how = "waits", !.load = n, !.there = A, !.absent = B]
  BY DEF Waiting
<1> HIDE DEF q
<1>2. /\ q \in AskRecord /\ q.how = "waits" /\ q.load = n
      /\ q.there = A /\ q.absent = B
  BY <1>1 DEF AskRecord
<1> QED BY <1>2 DEF q

\* The fourth way: the request is answered with what the server remembers.
LEMMA AskDirects ==
  ASSUME NEW A \in SUBSET Listed, NEW B \in SUBSET Listed, NEW l \in Lists!Lists,
         Lists!Unasked \in AskRecord
  PROVE  /\ Directly(l, A, B) \in AskRecord
         /\ Directly(l, A, B).how = "direct" /\ Directly(l, A, B).list = l
         /\ Directly(l, A, B).there = A /\ Directly(l, A, B).absent = B
<1> DEFINE q == Directly(l, A, B)
<1>1. q = [Lists!Unasked EXCEPT !.how = "direct", !.list = l, !.there = A, !.absent = B]
  BY DEF Directly
<1> HIDE DEF q
<1>2. /\ q \in AskRecord /\ q.how = "direct"
      /\ q.there = A /\ q.absent = B /\ q.list = l
  BY <1>1 DEF AskRecord
<1> QED BY <1>2 DEF q

\* What a request begins with.
LEMMA NotAsked ==
  /\ Lists!Unasked \in AskRecord /\ Lists!Unasked.how = "unasked"
  /\ Lists!Unasked.there = {} /\ Lists!Unasked.absent = {}
<1>1. 0 \in 0 .. MaxLoads
  BY DesktopAssumption
<1> QED BY <1>1 DEF AskRecord, Lists!Unasked

\* A list is made of the rollouts and the rows that were read.
LEMMA ListingRight ==
  ASSUME NEW rolls \in SUBSET Listed, NEW got \in SUBSET Listed
  PROVE  /\ Lists!Listing(rolls, got) \in Lists!Lists
         /\ \A s \in Listed :
              /\ ((s \in rolls \/ s \in got) /\ (s \in got \/ got = {})) =>
                   Lists!Listing(rolls, got)[s] = "active"
              /\ s \notin rolls /\ s \notin got => Lists!Listing(rolls, got)[s] = "none"
BY DEF Lists!Listing, Lists!Lists, Lists!Marks

\* A step that concerns one request leaves the others right.
LEMMA OneAsked ==
  ASSUME ListsInv, NEW a \in Asks, NEW r, ask' = [ask EXCEPT ![a] = r], r \in AskRecord,
         UNCHANGED <<rolled, active, loads>>,
         AskedRight(a)',
         loading' \in 0 .. MaxLoads, cache' \in Lists!Lists \cup {Lists!NoList}
  PROVE  ListsInv'
<1>1. ListTypes'
  BY DEF ListsInv, ListTypes
<1>2. ASSUME NEW x \in Asks, x # a
      PROVE  AskedRight(x)'
  <2>1. ask'[x] = ask[x] /\ AskedRight(x)
    BY <1>2 DEF ListsInv, ListTypes
  <2> QED BY <2>1 DEF AskedRight
<1> QED BY <1>1, <1>2 DEF ListsInv

\* So does a step of a load, as long as what it has read is what is there.
LEMMA OneLoad ==
  ASSUME ListsInv, NEW k \in Lists!Loads, NEW l, loads' = [loads EXCEPT ![k] = l],
         l \in LoadRecord,
         UNCHANGED <<rolled, active, loading, ask>>, cache' \in Lists!Lists \cup {Lists!NoList},
         \A a \in Asks : ask[a].how = "waits" /\ ask[a].load = k => LeadsTo(ask[a], l)
  PROVE  ListsInv'
<1>1. ListTypes'
  BY DEF ListsInv, ListTypes
<1>2. ASSUME NEW x \in Asks
      PROVE  AskedRight(x)'
  <2>1. AskedRight(x)
    BY DEF ListsInv
  <2>2. \A m \in Lists!Loads : loads'[m] = IF m = k THEN l ELSE loads[m]
    BY DEF ListsInv, ListTypes
  <2> QED BY <2>1, <2>2 DEF AskedRight
<1> QED BY <1>1, <1>2 DEF ListsInv

\* What becomes of the record of a load.
LoadRead(l, F)    == [l EXCEPT !.at = "rows", !.files = F]
LoadDone(l, m)    == [l EXCEPT !.at = "done", !.list = m]
LoadAt(l, where)  == [l EXCEPT !.at = where]

\* The ways the record of a load changes, field by field.
LEMMA LoadRecords ==
  ASSUME NEW l \in LoadRecord
  PROVE  /\ \A F \in SUBSET Listed :
              /\ LoadRead(l, F) \in LoadRecord
              /\ LoadRead(l, F).at = "rows" /\ LoadRead(l, F).files = F
         /\ \A m \in Lists!Lists :
              /\ LoadDone(l, m) \in LoadRecord
              /\ LoadDone(l, m).at = "done" /\ LoadDone(l, m).list = m
         /\ \A where \in {"rollouts", "failed"} :
              LoadAt(l, where) \in LoadRecord /\ LoadAt(l, where).at = where
<1>1. ASSUME NEW F \in SUBSET Listed
      PROVE  /\ LoadRead(l, F) \in LoadRecord
             /\ LoadRead(l, F).at = "rows" /\ LoadRead(l, F).files = F
  <2> DEFINE q == LoadRead(l, F)
  <2>1. q = [l EXCEPT !.at = "rows", !.files = F]
    BY DEF LoadRead
  <2> HIDE DEF q
  <2>2. q \in LoadRecord /\ q.at = "rows" /\ q.files = F
    BY <2>1 DEF LoadRecord
  <2> QED BY <2>2 DEF q
<1>2. ASSUME NEW m \in Lists!Lists
      PROVE  /\ LoadDone(l, m) \in LoadRecord
             /\ LoadDone(l, m).at = "done" /\ LoadDone(l, m).list = m
  <2> DEFINE q == LoadDone(l, m)
  <2>1. q = [l EXCEPT !.at = "done", !.list = m]
    BY DEF LoadDone
  <2> HIDE DEF q
  <2>2. q \in LoadRecord /\ q.at = "done" /\ q.list = m
    BY <2>1 DEF LoadRecord
  <2> QED BY <2>2 DEF q
<1>3. ASSUME NEW where \in {"rollouts", "failed"}
      PROVE  LoadAt(l, where) \in LoadRecord /\ LoadAt(l, where).at = where
  <2> DEFINE q == LoadAt(l, where)
  <2>1. q = [l EXCEPT !.at = where]
    BY DEF LoadAt
  <2> HIDE DEF q
  <2>2. q \in LoadRecord /\ q.at = where
    BY <2>1 DEF LoadRecord
  <2> QED BY <2>2 DEF q
<1> QED BY <1>1, <1>2, <1>3

\* A change of codex's takes its session out of what requests ask for.
LEMMA WritesStep ==
  ASSUME ListsInv, NEW s \in Listed, NEW rolls \in SUBSET Listed, NEW got \in SUBSET Listed,
         Lists!Writes(s, rolls, got), rolls \ {s} = rolled \ {s}, got \ {s} = active \ {s}
  PROVE  ListsInv'
<1>1. ASSUME NEW a \in Asks
      PROVE  /\ ask'[a] \in AskRecord
             /\ ask'[a].how = ask[a].how /\ ask'[a].load = ask[a].load
             /\ ask'[a].there = ask[a].there \ {s} /\ ask'[a].absent = ask[a].absent \ {s}
             /\ ask'[a].list = ask[a].list
  <2>1. ask[a] \in AskRecord /\ ask[a].there \ {s} \in SUBSET Listed
        /\ ask[a].absent \ {s} \in SUBSET Listed
    BY DEF ListsInv, ListTypes, AskRecord
  <2>2. ask'[a] = Narrowed(ask[a], ask[a].there \ {s}, ask[a].absent \ {s})
    BY <2>1 DEF Lists!Writes, AskRecord, Narrowed
  <2> QED BY <2>1, <2>2, AskNarrowed
<1>2. ListTypes'
  <2>1. ask' \in [Asks -> AskRecord]
    BY <1>1 DEF Lists!Writes
  <2> QED BY <2>1 DEF ListsInv, ListTypes, Lists!Writes
<1>3. UNCHANGED loads /\ rolled' = rolls /\ active' = got
  BY DEF Lists!Writes
<1>4. ASSUME NEW a \in Asks
      PROVE  AskedRight(a)'
  <2>0. AskedRight(a)
    BY DEF ListsInv
  <2>1. /\ ask'[a].how = ask[a].how /\ ask'[a].load = ask[a].load
        /\ ask'[a].list = ask[a].list
        /\ ask'[a].there = ask[a].there \ {s} /\ ask'[a].absent = ask[a].absent \ {s}
    BY <1>1
  <2>2. ask[a].there \subseteq rolled \cap active /\ ask[a].absent \cap (rolled \cup active) = {}
          => ask'[a].there \subseteq rolls \cap got /\ ask'[a].absent \cap (rolls \cup got) = {}
    BY <2>1
  <2>3. \A l : LeadsTo(ask[a], l) => LeadsTo(ask[a]', l)
    BY <2>1 DEF LeadsTo, ShowsAll
  <2>4. \A l : ShowsAll(ask[a], l) => ShowsAll(ask[a]', l)
    BY <2>1 DEF ShowsAll
  <2> QED BY <1>3, <2>0, <2>1, <2>2, <2>3, <2>4 DEF AskedRight
<1> QED BY <1>2, <1>4 DEF ListsInv

\* A request that waits for a load that has just begun, or asks for nothing, is right.
LEMMA AskedStep ==
  ASSUME ListsInv, NEW a \in Asks, NEW fresh \in BOOLEAN, NEW l \in Lists!Loads,
         Lists!Asked(a, fresh, l), UNCHANGED <<rolled, active, cache>>,
         NEW m, loads' = [loads EXCEPT ![l] = m], m \in LoadRecord,
         m.at = "rollouts" \/ (~fresh /\ m = loads[l]),
         loading' = l \/ loading' = loading
  PROVE  ListsInv'
<1> DEFINE A == IF fresh THEN rolled \cap active ELSE {}
           B == IF fresh THEN Listed \ (rolled \cup active) ELSE {}
           r == ask'[a]
<1>0. /\ A \in SUBSET Listed /\ B \in SUBSET Listed /\ l \in 0 .. MaxLoads
      /\ A \subseteq rolled \cap active /\ B \cap (rolled \cup active) = {}
      /\ ~fresh => A = {} /\ B = {}
  BY DEF ListsInv, ListTypes, Lists!Loads
<1>1. r = Waiting(l, A, B)
  BY DEF Lists!Asked, ListsInv, ListTypes, Waiting
<1>2. r \in AskRecord /\ r.how = "waits" /\ r.load = l /\ r.there = A /\ r.absent = B
  BY <1>0, <1>1, NotAsked, AskWaits
<1>5. \A x \in Asks : x # a => ask'[x] = ask[x]
  BY DEF Lists!Asked, ListsInv, ListTypes
<1> HIDE DEF A, B
<1>3. ListTypes'
  <2>1. ask' \in [Asks -> AskRecord]
    BY <1>2, <1>5 DEF Lists!Asked, ListsInv, ListTypes
  <2> QED BY <1>0, <2>1 DEF ListsInv, ListTypes
<1>4. ASSUME NEW x \in Asks
      PROVE  AskedRight(x)'
  <2>1. CASE x = a
    <3>1. ask'[x] = r /\ loads'[l] = m
      BY <2>1 DEF ListsInv, ListTypes
    <3>2. LeadsTo(r, m)
      <4>1. CASE m.at = "rollouts"
        BY <4>1 DEF LeadsTo
      <4>2. CASE ~fresh
        BY <1>0, <1>2, <4>2 DEF LeadsTo, ShowsAll
      <4> QED BY <4>1, <4>2
    <3> QED BY <1>0, <1>2, <3>1, <3>2 DEF AskedRight
  <2>2. CASE x # a
    <3>1. ask'[x] = ask[x] /\ AskedRight(x)
      BY <1>5, <2>2 DEF ListsInv
    <3>2. \A k \in Lists!Loads : LeadsTo(ask[x], loads[k]) => LeadsTo(ask[x], loads'[k])
      BY DEF ListsInv, ListTypes, LeadsTo
    <3> QED BY <3>1, <3>2 DEF AskedRight, LeadsTo, ShowsAll
  <2> QED BY <2>1, <2>2
<1> QED BY <1>3, <1>4 DEF ListsInv

\* Every step of the list.
LEMMA ListsStep ==
  ASSUME ListsInv, Lists!Next \/ UNCHANGED list
  PROVE  ListsInv'
<1>0. /\ rolled \in SUBSET Listed /\ active \in SUBSET Listed /\ 0 \in 0 .. MaxLoads
      /\ \A l \in Lists!Loads : loads[l] \in LoadRecord /\ l \in 0 .. MaxLoads
      /\ \A a \in Asks : ask[a] \in AskRecord /\ AskedRight(a)
      /\ loads \in [Lists!Loads -> LoadRecord] /\ ask \in [Asks -> AskRecord]
      /\ loading \in 0 .. MaxLoads /\ cache \in Lists!Lists \cup {Lists!NoList}
      /\ MaxLoads \in Nat
  <2>1. MaxLoads \in Nat
    BY DesktopAssumption
  <2> QED BY <2>1 DEF ListsInv, ListTypes, Lists!Loads
<1>1. ASSUME NEW s \in Listed, Lists!Creates(s) \/ Lists!ArchivesRow(s) \/ Lists!ArchivesFile(s)
      PROVE  ListsInv'
  <2>1. PICK rolls \in SUBSET Listed, got \in SUBSET Listed :
          /\ Lists!Writes(s, rolls, got)
          /\ rolls \ {s} = rolled \ {s} /\ got \ {s} = active \ {s}
    <3>1. CASE Lists!Creates(s)
      BY <1>0, <3>1 DEF Lists!Creates
    <3>2. CASE Lists!ArchivesRow(s)
      BY <1>0, <3>2 DEF Lists!ArchivesRow
    <3>3. CASE Lists!ArchivesFile(s)
      BY <1>0, <3>3 DEF Lists!ArchivesFile
    <3> QED BY <1>1, <3>1, <3>2, <3>3
  <2> QED BY <2>1, WritesStep
<1>2. ASSUME NEW l \in Lists!Loads, Lists!LoadRollouts(l)
      PROVE  ListsInv'
  <2> DEFINE m == LoadRead(loads[l], rolled)
  <2>1. loads' = [loads EXCEPT ![l] = m]
    BY <1>0, <1>2 DEF Lists!LoadRollouts, LoadRead
  <2>2. m \in LoadRecord /\ m.at = "rows" /\ m.files = rolled
    BY <1>0, LoadRecords
  <2> HIDE DEF m
  <2>3. \A a \in Asks : ask[a].how = "waits" /\ ask[a].load = l => LeadsTo(ask[a], m)
    BY <1>0, <2>2 DEF AskedRight, LeadsTo
  <2>4. UNCHANGED <<rolled, active, loading, ask, cache>>
    BY <1>2 DEF Lists!LoadRollouts
  <2> QED BY <1>0, <2>1, <2>2, <2>3, <2>4, OneLoad
<1>3. ASSUME NEW l \in Lists!Loads, Lists!LoadRows(l)
      PROVE  ListsInv'
  <2>1. PICK got \in Lists!RowsRead :
          /\ loads' = [loads EXCEPT ![l].at = "done",
                                    ![l].list = Lists!Listing(loads[l].files, got)]
          /\ cache' = Lists!Listing(loads[l].files, got)
    BY <1>3 DEF Lists!LoadRows
  <2> DEFINE rolls == loads[l].files
             m == LoadDone(loads[l], Lists!Listing(rolls, got))
  <2>2. got \in SUBSET Listed /\ rolls \in SUBSET Listed /\ got \in {active, {}}
    BY <1>0 DEF LoadRecord, Lists!RowsRead
  <2>3. Lists!Listing(rolls, got) \in Lists!Lists
    BY <2>2, ListingRight
  <2>4. loads' = [loads EXCEPT ![l] = m]
    BY <1>0, <2>1 DEF LoadDone
  <2>5. m \in LoadRecord /\ m.at = "done" /\ m.list = Lists!Listing(rolls, got)
    BY <1>0, <2>3, LoadRecords
  <2> HIDE DEF m
  <2>6. ASSUME NEW a \in Asks, ask[a].how = "waits", ask[a].load = l
        PROVE  ShowsAll(ask[a], Lists!Listing(rolls, got))
    <3>1. /\ ask[a].there \subseteq Listed /\ ask[a].absent \subseteq Listed
          /\ ask[a].there \subseteq rolled \cap active
          /\ ask[a].absent \cap (rolled \cup active) = {}
          /\ ask[a].there \subseteq rolls /\ ask[a].absent \cap rolls = {}
      BY <1>0, <1>3, <2>6 DEF AskedRight, LeadsTo, AskRecord, Lists!LoadRows
    <3>2. \A s \in ask[a].there : s \in Listed /\ s \in rolls /\ (s \in got \/ got = {})
      BY <2>2, <3>1
    <3>3. \A s \in ask[a].absent : s \in Listed /\ s \notin rolls /\ s \notin got
      BY <2>2, <3>1
    <3> QED BY <2>2, <3>2, <3>3, ListingRight DEF ShowsAll
  <2>7. \A a \in Asks : ask[a].how = "waits" /\ ask[a].load = l => LeadsTo(ask[a], m)
    BY <2>5, <2>6 DEF LeadsTo
  <2>8. UNCHANGED <<rolled, active, loading, ask>>
    BY <1>3 DEF Lists!LoadRows
  <2> QED BY <1>0, <2>1, <2>3, <2>4, <2>5, <2>7, <2>8, OneLoad
<1>4. ASSUME NEW l \in Lists!Loads, Lists!LoadFails(l)
      PROVE  ListsInv'
  <2> DEFINE m == LoadAt(loads[l], "failed")
  <2>1. loads' = [loads EXCEPT ![l] = m]
    BY <1>0, <1>4 DEF Lists!LoadFails, LoadAt
  <2>2. m \in LoadRecord /\ m.at = "failed"
    BY <1>0, LoadRecords
  <2>3. \A a \in Asks : ask[a].how = "waits" /\ ask[a].load = l => LeadsTo(ask[a], m)
    BY <2>2 DEF LeadsTo
  <2>4. UNCHANGED <<rolled, active, loading, ask, cache>>
    BY <1>4 DEF Lists!LoadFails
  <2> HIDE DEF m
  <2> QED BY <1>0, <2>1, <2>2, <2>3, <2>4, OneLoad
<1>5. ASSUME NEW a \in Asks, NEW n \in Lists!Lists \cup {Lists!NoList},
             ask' = [ask EXCEPT ![a] = [Lists!Unasked EXCEPT !.how = "over", !.list = n]],
             UNCHANGED <<rolled, active, loads, cache>>, loading' \in 0 .. MaxLoads
      PROVE  ListsInv'
  <2> DEFINE r == Told(Lists!Unasked, n)
  <2>1. ask' = [ask EXCEPT ![a] = r]
    BY <1>5 DEF Told
  <2>2. r \in AskRecord /\ r.how = "over" /\ r.there = {} /\ r.absent = {}
    BY <1>5, NotAsked, AskOver
  <2> HIDE DEF r
  <2>3. ask'[a] = r
    BY <1>0, <2>1
  <2>4. AskedRight(a)'
    BY <2>2, <2>3 DEF AskedRight, ShowsAll
  <2> QED BY <1>0, <1>5, <2>1, <2>2, <2>4, OneAsked
<1>6. ASSUME NEW a \in Asks, NEW forced \in BOOLEAN, Lists!Ask(a, forced)
      PROVE  ListsInv'
  <2>0. UNCHANGED <<rolled, active, writes, cache>>
    BY <1>6 DEF Lists!Ask
  <2>1. CASE ~forced /\ cache # Lists!NoList
    BY <1>0, <1>5, <1>6, <2>1 DEF Lists!Ask
  <2>2. CASE ~(~forced /\ cache # Lists!NoList) /\ Lists!Joins(forced)
    <3>1. /\ loading # 0 /\ Lists!Asked(a, forced, loading) /\ UNCHANGED <<loads, loading>>
          /\ ~forced
      BY <1>6, <2>2 DEF Lists!Ask, Lists!Joins, Lists!Running
    <3>2. loading \in Lists!Loads
      BY <1>0, <3>1 DEF Lists!Loads
    <3>3. loads' = [loads EXCEPT ![loading] = loads[loading]] /\ loads[loading] \in LoadRecord
      BY <1>0, <3>1, <3>2
    <3> QED BY <2>0, <3>1, <3>2, <3>3, AskedStep
  <2>3. CASE ~(~forced /\ cache # Lists!NoList) /\ ~Lists!Joins(forced)
    <3>1. PICK l \in Lists!Loads :
            /\ loads' = [loads EXCEPT ![l].at = "rollouts"] /\ loading' = l
            /\ Lists!Asked(a, TRUE, l)
      BY <1>6, <2>3 DEF Lists!Ask
    <3> DEFINE m == LoadAt(loads[l], "rollouts")
    <3>2. loads' = [loads EXCEPT ![l] = m]
      BY <1>0, <3>1 DEF LoadAt
    <3>3. m \in LoadRecord /\ m.at = "rollouts"
      BY <1>0, LoadRecords
    <3> HIDE DEF m
    <3> QED BY <2>0, <3>1, <3>2, <3>3, AskedStep
  <2> QED BY <2>1, <2>2, <2>3
<1>7. ASSUME NEW a \in Asks, ask[a].how \in {"waits", "direct"},
             NEW n \in Lists!Lists \cup {Lists!NoList}, Lists!Over(a, n), ShowsAll(ask[a], n),
             UNCHANGED <<rolled, active, loads, cache>>, loading' \in 0 .. MaxLoads
      PROVE  ListsInv'
  <2> DEFINE r == Told(ask[a], n)
  <2>1. ask' = [ask EXCEPT ![a] = r]
    BY <1>0, <1>7 DEF Lists!Over, Told
  <2>2. /\ r \in AskRecord /\ r.how = "over"
        /\ r.there = ask[a].there /\ r.absent = ask[a].absent /\ r.list = n
    BY <1>0, <1>7, AskOver
  <2> HIDE DEF r
  <2>3. ShowsAll(r, r.list)
    BY <1>7, <2>2 DEF ShowsAll
  <2>4. ask'[a] = r
    BY <1>0, <2>1
  <2>5. AskedRight(a)'
    BY <2>2, <2>3, <2>4 DEF AskedRight
  <2> QED BY <1>0, <1>7, <2>1, <2>2, <2>5, OneAsked
<1>8. ASSUME NEW a \in Asks, Lists!Answer(a)
      PROVE  ListsInv'
  <2>0. /\ ask[a].how = "waits" /\ UNCHANGED <<rolled, active, writes, loads, cache>>
        /\ loading' \in 0 .. MaxLoads
        /\ ask[a].load \in Lists!Loads /\ LeadsTo(ask[a], loads[ask[a].load])
    BY <1>0, <1>8 DEF Lists!Answer, AskedRight
  <2>1. CASE loads[ask[a].load].at = "done"
    <3>1. Lists!Over(a, loads[ask[a].load].list)
      BY <1>8, <2>1 DEF Lists!Answer
    <3>2. loads[ask[a].load].list \in Lists!Lists \cup {Lists!NoList}
      BY <1>0, <2>0 DEF LoadRecord
    <3>3. ShowsAll(ask[a], loads[ask[a].load].list)
      BY <2>0, <2>1 DEF LeadsTo
    <3> QED BY <1>7, <2>0, <3>1, <3>2, <3>3
  <2>2. CASE loads[ask[a].load].at # "done"
    BY <1>0, <1>5, <1>8, <2>0, <2>2 DEF Lists!Answer
  <2> QED BY <2>1, <2>2
<1>9. ASSUME NEW a \in Asks, Lists!AskDirect(a)
      PROVE  ListsInv'
  <2>1. PICK got \in Lists!RowsRead :
          ask' = [ask EXCEPT ![a] =
                    [Lists!Unasked EXCEPT !.how = "direct", !.list = Lists!Listing(got, got),
                       !.there = rolled \cap active, !.absent = Listed \ (rolled \cup active)]]
    BY <1>9 DEF Lists!AskDirect
  <2> DEFINE n == Lists!Listing(got, got)
             A == rolled \cap active
             B == Listed \ (rolled \cup active)
             r == Directly(n, A, B)
  <2>2. got \in SUBSET Listed /\ got \in {active, {}}
    BY <1>0 DEF Lists!RowsRead
  <2>3. n \in Lists!Lists /\ A \in SUBSET Listed /\ B \in SUBSET Listed
    BY <1>0, <2>2, ListingRight
  <2>4. (\A s \in Listed : n[s] # "active") \/ (\A s \in A : n[s] = "active")
    <3>1. CASE got = active
      BY <1>0, <2>2, <3>1, ListingRight
    <3>2. CASE got = {}
      <4>1. \A s \in Listed : n[s] = "none"
        BY <2>2, <3>2, ListingRight
      <4> QED BY <4>1
    <3> QED BY <2>2, <3>1, <3>2
  <2>5. ask' = [ask EXCEPT ![a] = r]
    BY <2>1 DEF Directly
  <2>6. /\ r \in AskRecord /\ r.how = "direct"
        /\ r.there = A /\ r.absent = B /\ r.list = n
    BY <2>3, NotAsked, AskDirects
  <2>7. A \subseteq rolled \cap active /\ B \cap (rolled \cup active) = {}
    OBVIOUS
  <2> HIDE DEF r, n, A, B
  <2>8. ask'[a] = r /\ UNCHANGED <<rolled, active, writes, loads, loading, cache>>
    BY <1>0, <1>9, <2>5 DEF Lists!AskDirect
  <2>9. AskedRight(a)'
    BY <2>3, <2>4, <2>6, <2>7, <2>8 DEF AskedRight
  <2> QED BY <1>0, <2>5, <2>6, <2>8, <2>9, OneAsked
<1>10. ASSUME NEW a \in Asks, Lists!AnswerDirect(a)
       PROVE  ListsInv'
  <2> DEFINE got == {s \in Listed : ask[a].list[s] = "active"}
             n == [s \in Listed |-> IF s \in rolled THEN Lists!Listing(rolled, got)[s] ELSE "none"]
  <2>1. /\ ask[a].how = "direct" /\ Lists!Over(a, n)
        /\ UNCHANGED <<rolled, active, writes, loads, loading, cache>>
    BY <1>10 DEF Lists!AnswerDirect
  <2>2. /\ ask[a].there \subseteq rolled \cap active /\ ask[a].absent \cap (rolled \cup active) = {}
        /\ ask[a].there \subseteq Listed /\ ask[a].absent \subseteq Listed
        /\ got = {} \/ ask[a].there \subseteq got
    BY <1>0, <2>1 DEF AskedRight, AskRecord
  <2>3. got \in SUBSET Listed
    OBVIOUS
  <2> HIDE DEF got
  <2>4. Lists!Listing(rolled, got) \in Lists!Lists
    BY <1>0, <2>3, ListingRight
  <2>5. n \in Lists!Lists
    BY <2>4 DEF Lists!Lists, Lists!Marks
  <2>6. \A s \in ask[a].there : n[s] = "active"
    <3>1. \A s \in ask[a].there : s \in Listed /\ s \in rolled /\ (s \in got \/ got = {})
      BY <2>2
    <3>2. \A s \in ask[a].there : Lists!Listing(rolled, got)[s] = "active"
      BY <1>0, <2>3, <3>1, ListingRight
    <3> QED BY <3>1, <3>2
  <2>7. \A s \in ask[a].absent : n[s] = "none"
    BY <2>2
  <2>8. ShowsAll(ask[a], n)
    BY <2>6, <2>7 DEF ShowsAll
  <2> HIDE DEF n
  <2> QED BY <1>0, <1>7, <2>1, <2>5, <2>8
<1>11. CASE UNCHANGED list
  BY <1>11 DEF ListsInv, ListTypes, AskedRight, LeadsTo, ShowsAll, list
<1> QED
  BY <1>1, <1>2, <1>3, <1>4, <1>6, <1>8, <1>9, <1>10, <1>11 DEF Lists!Next

\* A request whose list was read for it sees each session that was there all
\* the while, and none that was not there at any time.
THEOREM AsksAreSeen == Spec => []AsksSee
<1>1. Init => ListsInv
  <2> SUFFICES ASSUME Init
               PROVE  ListsInv
    OBVIOUS
  <2>1. Lists!Init /\ MaxLoads \in Nat
    BY PartsInit, DesktopAssumption
  <2>3. Lists!NoLoad \in LoadRecord
    BY DEF LoadRecord, Lists!NoLoad
  <2>4. ListTypes
    BY <2>1, <2>3, NotAsked DEF ListTypes, Lists!Init
  <2>5. \A a \in Asks : AskedRight(a)
    BY <2>1, NotAsked DEF AskedRight, Lists!Init
  <2> QED BY <2>4, <2>5 DEF ListsInv
<1>2. ListsInv /\ [Next]_vars => ListsInv'
  BY PartSteps, ListsStep
<1>3. ListsInv => AsksSee
  BY DEF ListsInv, AskedRight, ShowsAll, AsksSee, Lists!AsksSee
<1> QED BY <1>1, <1>2, <1>3, PTL DEF Spec

-----------------------------------------------------------------------------
(* HookInstall.                                                            *)

Definitions == [of : Owners, build : 1 .. 2]

HookTypes ==
  /\ content \in Hooks!Contents /\ temporary \in Hooks!Contents
  /\ temporary = Hooks!Nothing \/ temporary.own \in Definitions
  /\ forward \in [Owners -> SUBSET (Entries \cup Commands)]
  /\ job \in [Owners -> [at : Hooks!Steps \cup {"idle"}, read : Hooks!Contents]]
  /\ build \in [Owners -> 1 .. 2]
  /\ trust \in [Owners -> [definition : Definitions \cup {Hooks!None},
                           verified : Definitions \cup {Hooks!None}]]
  /\ installed \subseteq Definitions /\ IsFiniteSet(installed)
  /\ wanted \subseteq Entries \cup Commands

\* What is recorded, or is about to be, has been in the file, and what counts as
\* verified was heard of.
Recorded ==
  /\ content.own \in installed \cup {Hooks!None}
  /\ \A o \in Owners :
       /\ job[o].at = "trust" => Hooks!Entry(o) \in installed
       /\ trust[o].definition \in {d \in installed : d.of = o} \cup {Hooks!None}
       /\ trust[o].verified \in fired \cup {Hooks!None}

\* An owner forwards what the user wants, and is not about to forward anything else.
Forwards(o) ==
  /\ forward[o] = wanted
  /\ job[o].at = "forward" => job[o].read.user = wanted

\* The user's notify command is in the file, or some owner forwards it: the one
\* whose bridge is in the file if no other has installed.  It is saved before
\* a file without it is written.
CommandKept ==
  /\ content.own = Hooks!None => content.user = wanted
  /\ content.own # Hooks!None =>
       /\ content.user = {}
       /\ \E o \in Owners : Forwards(o)
       /\ (\A d \in installed : d.of = content.own.of) => Forwards(content.own.of)
  /\ \A o \in Owners :
       /\ job[o].at = "forward" => job[o].read.user # {}
       /\ job[o].at \in {"write", "replace"} /\ job[o].read.user # {} =>
            forward[o] = job[o].read.user
       /\ wanted = {} => forward[o] = {} /\ job[o].read.user = {}

HooksInv ==
  /\ HookTypes
  /\ raced \/ /\ Recorded
              /\ file # "notify" => content.user = wanted
              /\ file = "notify" => CommandKept

\* Nothing of anybody's is not a definition, an owner's entry is.
LEMMA EntryIs ==
  ASSUME HookTypes, NEW o \in Owners
  PROVE  /\ Hooks!Entry(o) \in Definitions /\ Hooks!Entry(o).of = o
         /\ Hooks!None \notin Definitions
BY DEF HookTypes, Definitions, Hooks!Entry, Hooks!None

\* The file with an owner's entry in it.
LEMMA MergedIs ==
  ASSUME HookTypes, NEW o \in Owners, NEW c \in Hooks!Contents
  PROVE  /\ Hooks!Merged(o, c) \in Hooks!Contents
         /\ Hooks!Merged(o, c).own = Hooks!Entry(o)
         /\ file # "notify" => Hooks!Merged(o, c).user = c.user
         /\ file = "notify" => Hooks!Merged(o, c).user = {}
<1> DEFINE q == Hooks!Merged(o, c)
           e == Hooks!Entry(o)
<1>1. q = [c EXCEPT !.user = IF file = "notify" THEN {} ELSE @, !.own = e]
  BY DEF Hooks!Merged
<1>2. e \in Definitions
  BY EntryIs
<1> HIDE DEF q, e
<1>3. /\ q \in Hooks!Contents /\ q.own = e
      /\ q.user = IF file = "notify" THEN {} ELSE c.user
  BY <1>1, <1>2 DEF Hooks!Contents, Definitions
<1> QED BY <1>3 DEF q, e

\* An empty content is one.
LEMMA NothingIs ==
  /\ Hooks!Nothing \in Hooks!Contents /\ Hooks!Nothing.user = {}
  /\ Hooks!Idle.at = "idle" /\ Hooks!Idle.read = Hooks!Nothing
  /\ Hooks!Idle \in [at : Hooks!Steps \cup {"idle"}, read : Hooks!Contents]
<1>1. Hooks!Nothing \in Hooks!Contents /\ Hooks!Nothing.user = {}
  BY DEF Hooks!Nothing, Hooks!Contents
<1> QED BY <1>1 DEF Hooks!Idle

\* A step of an owner's installation that leaves the file, the records and the
\* forward files alone.
LEMMA JobStep ==
  ASSUME HooksInv, ~raced, NEW o \in Owners, NEW j,
         j \in [at : Hooks!Steps \cup {"idle"}, read : Hooks!Contents],
         job' = [job EXCEPT ![o] = j], temporary' \in Hooks!Contents,
         temporary' = Hooks!Nothing \/ temporary'.own \in Definitions,
         UNCHANGED <<file, content, forward, build, trust, wanted, installed, fired, raced>>,
         j.at = "trust" => Hooks!Entry(o) \in installed,
         file = "notify" =>
           /\ j.at = "forward" => j.read.user # {} /\ j.read.user = content.user
           /\ j.at \in {"write", "replace"} /\ j.read.user # {} => forward[o] = j.read.user
           /\ wanted = {} => j.read.user = {}
  PROVE  HooksInv'
<1>0. HookTypes /\ Recorded /\ (file # "notify" => content.user = wanted)
      /\ (file = "notify" => CommandKept)
  BY DEF HooksInv
<1>1. HookTypes'
  BY <1>0 DEF HookTypes
<1>2. \A x \in Owners : job'[x] = IF x = o THEN j ELSE job[x]
  BY <1>0 DEF HookTypes
<1>3. \A x \in Owners : Hooks!Entry(x)' = Hooks!Entry(x)
  BY DEF Hooks!Entry
<1>4. Recorded'
  BY <1>0, <1>2, <1>3 DEF Recorded
<1>5. CASE file = "notify"
  <2>1. CommandKept
    BY <1>0, <1>5
  <2>2. ASSUME NEW x \in Owners, Forwards(x), content.own # Hooks!None
        PROVE  Forwards(x)'
    <3>1. content.user = {}
      BY <2>1, <2>2 DEF CommandKept
    <3>2. x = o => j.at # "forward"
      BY <1>5, <3>1
    <3> QED BY <1>2, <2>2, <3>2 DEF Forwards
  <2>3. \A x \in Owners :
          /\ job'[x].at = "forward" => job'[x].read.user # {}
          /\ job'[x].at \in {"write", "replace"} /\ job'[x].read.user # {} =>
               forward[x] = job'[x].read.user
          /\ wanted = {} => forward[x] = {} /\ job'[x].read.user = {}
    BY <1>2, <1>5, <2>1 DEF CommandKept
  <2>4. content.own # Hooks!None => content.own.of \in Owners
    BY <1>0 DEF Recorded, HookTypes, Definitions
  <2>5. CommandKept'
    BY <2>1, <2>2, <2>3, <2>4 DEF CommandKept
  <2> QED BY <1>0, <1>1, <1>4, <1>5, <2>5 DEF HooksInv
<1>6. CASE file # "notify"
  BY <1>0, <1>1, <1>4, <1>6 DEF HooksInv
<1> QED BY <1>5, <1>6

\* An owner's bridge in the file forwards what was in the file: its command if it
\* was the user's, and what was forwarded before if it was another bridge.
LEMMA ReplaceStep ==
  ASSUME HooksInv, ~raced, NEW o \in Owners, Hooks!Replace(o)
  PROVE  HooksInv'
<1> DEFINE w == Hooks!Written(o)
<1>0. HookTypes /\ Recorded /\ (file # "notify" => content.user = wanted)
      /\ (file = "notify" => CommandKept)
  BY DEF HooksInv
<1>1. /\ job[o].at = "replace" /\ content' = w /\ temporary' = Hooks!Nothing
      /\ installed' = installed \cup {w.own}
      /\ raced' = (raced \/ content # job[o].read \/ w # Hooks!Merged(o, job[o].read))
      /\ \/ file = "hooks" /\ job' = [job EXCEPT ![o].at = "trust"]
         \/ file # "hooks" /\ job' = [job EXCEPT ![o] = Hooks!Idle]
      /\ UNCHANGED <<file, forward, build, trust, wanted, fired, upsets>>
  BY DEF Hooks!Replace, Hooks!Goes, Hooks!Ends
<1>2. w \in Hooks!Contents /\ job[o].read \in Hooks!Contents
  BY <1>0, MergedIs DEF HookTypes, Hooks!Written
<1> HIDE DEF w
<1>3. /\ job'[o].at = IF file = "hooks" THEN "trust" ELSE "idle"
      /\ job'[o] \in [at : Hooks!Steps \cup {"idle"}, read : Hooks!Contents]
      /\ file # "hooks" => job'[o].read.user = {}
      /\ \A x \in Owners : x # o => job'[x] = job[x]
      /\ job' \in [Owners -> [at : Hooks!Steps \cup {"idle"}, read : Hooks!Contents]]
  <2> DEFINE J == [at : Hooks!Steps \cup {"idle"}, read : Hooks!Contents]
  <2>0. job \in [Owners -> J]
    BY <1>0 DEF HookTypes
  <2>1. CASE file = "hooks" /\ job' = [job EXCEPT ![o].at = "trust"]
    <3>1. [job[o] EXCEPT !.at = "trust"] \in J /\ [job[o] EXCEPT !.at = "trust"].at = "trust"
      BY <2>0 DEF Hooks!Steps
    <3> QED BY <2>0, <2>1, <3>1
  <2>2. CASE file # "hooks" /\ job' = [job EXCEPT ![o] = Hooks!Idle]
    <3>1. Hooks!Idle \in J /\ Hooks!Idle.at = "idle" /\ Hooks!Idle.read.user = {}
      BY NothingIs
    <3>2. /\ job'[o] = Hooks!Idle /\ (\A x \in Owners : x # o => job'[x] = job[x])
          /\ job' \in [Owners -> J]
      <4> HIDE DEF J
      <4> QED BY <2>0, <2>2, <3>1
    <3> QED BY <2>2, <3>1, <3>2
  <2> QED BY <1>1, <2>1, <2>2
<1>4. w.own \in Definitions /\ w.own # Hooks!None
  <2>1. CASE file = "settings"
    BY <1>0, <1>2, <2>1, MergedIs, EntryIs DEF w, Hooks!Written
  <2>2. CASE file # "settings"
    BY <1>0, <2>2, EntryIs DEF w, Hooks!Written, HookTypes, Hooks!Replace
  <2> QED BY <2>1, <2>2
<1>5. HookTypes'
  <2>1. installed' \subseteq Definitions /\ IsFiniteSet(installed')
    BY <1>0, <1>1, <1>4, FS_AddElement DEF HookTypes
  <2> QED BY <1>0, <1>1, <1>2, <1>3, <2>1, NothingIs DEF HookTypes
<1>6. CASE raced'
  BY <1>5, <1>6 DEF HooksInv
<1>7. CASE ~raced'
  <2>1. content = job[o].read /\ w = Hooks!Merged(o, content)
    BY <1>1, <1>7
  <2>2. /\ w.own = Hooks!Entry(o)
        /\ file # "notify" => w.user = content.user
        /\ file = "notify" => w.user = {}
    BY <1>0, <1>2, <2>1, MergedIs
  <2>3. \A x \in Owners : Hooks!Entry(x)' = Hooks!Entry(x)
    BY <1>1 DEF Hooks!Entry
  <2>4. Recorded'
    BY <1>0, <1>1, <1>3, <2>2, <2>3 DEF Recorded
  <2>5. CASE file = "notify"
    <3>0. CommandKept /\ w.user = {} /\ w.own = Hooks!Entry(o) /\ Hooks!Entry(o).of = o
      BY <1>0, <2>2, <2>5, EntryIs
    <3>1. \A x \in Owners : Forwards(x) => Forwards(x)'
      BY <1>1, <1>3, <2>5 DEF Forwards
    <3>2. content.own = Hooks!None => Forwards(o)'
      <4> SUFFICES ASSUME content.own = Hooks!None
                   PROVE  Forwards(o)'
        OBVIOUS
      <4>1. content.user = wanted
        BY <3>0 DEF CommandKept
      <4>2. forward[o] = wanted
        BY <1>1, <2>1, <3>0, <4>1 DEF CommandKept
      <4> QED BY <1>1, <1>3, <2>5, <4>2 DEF Forwards
    <3>3. \E x \in Owners : Forwards(x)'
      BY <3>0, <3>1, <3>2 DEF CommandKept
    <3>4. ASSUME \A d \in installed' : d.of = o
          PROVE  Forwards(o)'
      <4>1. CASE content.own = Hooks!None
        BY <3>2, <4>1
      <4>2. CASE content.own # Hooks!None
        <5>1. content.own \in installed /\ (\A d \in installed : d.of = o)
          BY <1>0, <1>1, <3>4, <4>2 DEF Recorded
        <5> QED BY <3>0, <3>1, <4>2, <5>1 DEF CommandKept
      <4> QED BY <4>1, <4>2
    <3>5. \A x \in Owners :
            /\ job'[x].at = "forward" => job'[x].read.user # {}
            /\ job'[x].at \in {"write", "replace"} /\ job'[x].read.user # {} =>
                 forward[x] = job'[x].read.user
            /\ wanted = {} => forward[x] = {} /\ job'[x].read.user = {}
      BY <1>3, <2>5, <3>0 DEF CommandKept
    <3>6. content'.own = Hooks!Entry(o) /\ content'.user = {} /\ Hooks!Entry(o) # Hooks!None
      BY <1>1, <1>4, <3>0
    <3>7. CommandKept'
      BY <1>1, <3>0, <3>3, <3>4, <3>5, <3>6 DEF CommandKept
    <3> QED BY <1>1, <1>5, <2>4, <2>5, <3>7 DEF HooksInv
  <2>6. CASE file # "notify"
    BY <1>0, <1>1, <1>5, <2>2, <2>4, <2>6 DEF HooksInv
  <2> QED BY <2>5, <2>6
<1> QED BY <1>6, <1>7

\* Every step of the installations, of codex and of the user.
LEMMA HooksStep ==
  ASSUME HooksInv, Hooks!Next \/ UNCHANGED hooks
  PROVE  HooksInv'
<1>0. HookTypes /\ (raced \/ (/\ Recorded
                              /\ file # "notify" => content.user = wanted
                              /\ file = "notify" => CommandKept))
  BY DEF HooksInv
<1> DEFINE Jobs == [at : Hooks!Steps \cup {"idle"}, read : Hooks!Contents]
<1>j. \A o \in Owners : job[o] \in Jobs /\ job[o].read \in Hooks!Contents
  BY <1>0 DEF HookTypes
<1>1. CASE UNCHANGED hooks
  BY <1>0, <1>1 DEF HooksInv, HookTypes, Recorded, CommandKept, Forwards, hooks, Hooks!Entry
<1>2. ASSUME ~raced, NEW o \in Owners, Hooks!Read(o)
      PROVE  HooksInv'
  <2> DEFINE step == Hooks!Step(o)
             j == IF step = "idle" THEN Hooks!Idle ELSE [at |-> step, read |-> content]
  <2>1. /\ job' = [job EXCEPT ![o] = j]
        /\ UNCHANGED <<file, content, temporary, forward, build, trust, wanted, installed, fired,
                       raced, upsets>>
    BY <1>2 DEF Hooks!Read
  <2>2. /\ step \in {"forward", "write", "trust", "idle"}
        /\ step = "forward" => file = "notify" /\ content.user # {}
        /\ step = "write" => file # "notify" \/ content.user = {}
        /\ step = "trust" => Hooks!Merged(o, content) = content
    BY DEF Hooks!Step, Hooks!KeepsCommand, Hooks!Changes
  <2>3. step = "trust" => Hooks!Entry(o) \in installed
    <3>1. content \in Hooks!Contents
      BY <1>0 DEF HookTypes
    <3>2. step = "trust" => content.own = Hooks!Entry(o) /\ Hooks!Entry(o) # Hooks!None
      BY <1>0, <2>2, <3>1, MergedIs, EntryIs
    <3> QED BY <1>0, <1>2, <3>2 DEF Recorded
  <2>4. file = "notify" /\ wanted = {} => content.user = {}
    BY <1>0, <1>2 DEF CommandKept
  <2> HIDE DEF step
  <2>5. CASE step = "idle"
    <3>1. job' = [job EXCEPT ![o] = Hooks!Idle]
      BY <2>1, <2>5
    <3>2. temporary' \in Hooks!Contents
          /\ (temporary' = Hooks!Nothing \/ temporary'.own \in Definitions)
      BY <1>0, <2>1 DEF HookTypes
    <3> QED BY <1>2, <2>1, <3>1, <3>2, NothingIs, JobStep
  <2>6. CASE step # "idle"
    <3> DEFINE k == [at |-> step, read |-> content]
    <3>1. job' = [job EXCEPT ![o] = k] /\ k.at = step /\ k.read = content
      BY <2>1, <2>6
    <3>2. k \in Jobs
      BY <1>0, <2>2 DEF HookTypes, Hooks!Steps
    <3>3. temporary' \in Hooks!Contents
          /\ (temporary' = Hooks!Nothing \/ temporary'.own \in Definitions)
      BY <1>0, <2>1 DEF HookTypes
    <3> HIDE DEF k
    <3>4. /\ k.at = "trust" => Hooks!Entry(o) \in installed
          /\ file = "notify" =>
               /\ k.at = "forward" => k.read.user # {} /\ k.read.user = content.user
               /\ k.at \in {"write", "replace"} /\ k.read.user # {} => forward[o] = k.read.user
               /\ wanted = {} => k.read.user = {}
      BY <2>2, <2>3, <2>4, <3>1
    <3> QED BY <1>2, <2>1, <3>1, <3>2, <3>3, <3>4, JobStep
  <2> QED BY <2>5, <2>6
<1>3. ASSUME ~raced, NEW o \in Owners, Hooks!SaveForward(o)
      PROVE  HooksInv'
  <2>1. /\ job[o].at = "forward" /\ forward' = [forward EXCEPT ![o] = job[o].read.user]
        /\ job' = [job EXCEPT ![o].at = "write"]
        /\ UNCHANGED <<file, content, temporary, build, trust, wanted, installed, fired, raced,
                       upsets>>
    BY <1>3 DEF Hooks!SaveForward, Hooks!Goes
  <2>2. /\ job'[o].at = "write" /\ job'[o].read = job[o].read
        /\ job' \in [Owners -> Jobs]
        /\ \A x \in Owners : x # o => job'[x] = job[x] /\ forward'[x] = forward[x]
        /\ forward'[o] = job[o].read.user
        /\ forward' \in [Owners -> SUBSET (Entries \cup Commands)]
    <3>1. job[o].read.user \in SUBSET (Entries \cup Commands)
      BY <1>j DEF Hooks!Contents
    <3> QED BY <1>0, <2>1, <3>1 DEF HookTypes, Hooks!Steps
  <2>3. HookTypes'
    BY <1>0, <2>1, <2>2 DEF HookTypes
  <2>4. Recorded'
    <3>1. \A x \in Owners : Hooks!Entry(x)' = Hooks!Entry(x)
      BY <2>1 DEF Hooks!Entry
    <3> QED BY <1>0, <1>3, <2>1, <2>2, <3>1 DEF Recorded
  <2>5. file = "notify" => CommandKept'
    <3> SUFFICES ASSUME file = "notify"
                 PROVE  CommandKept'
      OBVIOUS
    <3>1. CommandKept
      BY <1>0, <1>3
    <3>2. \A x \in Owners : Forwards(x) => Forwards(x)'
      BY <2>1, <2>2 DEF Forwards
    <3>3. \A x \in Owners :
            /\ job'[x].at = "forward" => job'[x].read.user # {}
            /\ job'[x].at \in {"write", "replace"} /\ job'[x].read.user # {} =>
                 forward'[x] = job'[x].read.user
            /\ wanted = {} => forward'[x] = {} /\ job'[x].read.user = {}
      BY <2>1, <2>2, <3>1 DEF CommandKept
    <3>4. content.own # Hooks!None => content.own.of \in Owners
      BY <1>0, <1>3 DEF Recorded, HookTypes, Definitions
    <3> QED BY <2>1, <3>1, <3>2, <3>3, <3>4 DEF CommandKept
  <2> QED BY <1>0, <1>3, <2>1, <2>3, <2>4, <2>5 DEF HooksInv
<1>4. ASSUME ~raced, NEW o \in Owners, Hooks!WriteTemporary(o)
      PROVE  HooksInv'
  <2> DEFINE j == [job[o] EXCEPT !.at = "replace"]
  <2>1. /\ job[o].at = "write" /\ job' = [job EXCEPT ![o] = j]
        /\ temporary' = IF file = "settings" THEN temporary ELSE Hooks!Merged(o, job[o].read)
        /\ UNCHANGED <<file, content, forward, build, trust, wanted, installed, fired, raced,
                       upsets>>
    BY <1>0, <1>4 DEF Hooks!WriteTemporary, Hooks!Goes, HookTypes
  <2>2. j \in Jobs /\ j.at = "replace" /\ j.read = job[o].read
    BY <1>j DEF Hooks!Steps
  <2>3. temporary' \in Hooks!Contents
        /\ (temporary' = Hooks!Nothing \/ temporary'.own \in Definitions)
    BY <1>0, <1>j, <2>1, MergedIs, EntryIs DEF HookTypes
  <2>4. file = "notify" =>
          /\ job[o].read.user # {} => forward[o] = job[o].read.user
          /\ wanted = {} => job[o].read.user = {}
    BY <1>0, <1>4, <2>1 DEF CommandKept
  <2> HIDE DEF j
  <2> QED BY <1>4, <2>1, <2>2, <2>3, <2>4, JobStep
<1>5. ASSUME ~raced, NEW o \in Owners, Hooks!Replace(o)
      PROVE  HooksInv'
  BY <1>5, ReplaceStep
<1>6. ASSUME ~raced, NEW o \in Owners, Hooks!ReplaceMisses(o) \/ Hooks!Break(o)
      PROVE  HooksInv'
  <2>1. /\ job' = [job EXCEPT ![o] = Hooks!Idle]
        /\ UNCHANGED <<file, content, temporary, forward, build, trust, wanted, installed, fired,
                       raced>>
    BY <1>6 DEF Hooks!ReplaceMisses, Hooks!Break, Hooks!Ends
  <2>2. temporary' \in Hooks!Contents
        /\ (temporary' = Hooks!Nothing \/ temporary'.own \in Definitions)
    BY <1>0, <2>1 DEF HookTypes
  <2> QED BY <1>6, <2>1, <2>2, NothingIs, JobStep
<1>7. ASSUME ~raced, NEW o \in Owners, Hooks!SyncTrust(o)
      PROVE  HooksInv'
  <2>1. /\ job[o].at = "trust" /\ job' = [job EXCEPT ![o] = Hooks!Idle]
        /\ trust' = [trust EXCEPT ![o] = [definition |-> Hooks!Entry(o),
                                          verified |-> Hooks!StillVerified(o, Hooks!Entry(o))]]
        /\ UNCHANGED <<file, content, temporary, forward, build, wanted, installed, fired, raced,
                       upsets>>
    BY <1>7 DEF Hooks!SyncTrust, Hooks!Ends
  <2>2. Hooks!Entry(o) \in installed /\ Hooks!Entry(o) \in Definitions /\ Hooks!Entry(o).of = o
    BY <1>0, <1>7, <2>1, EntryIs DEF Recorded
  <2>3. Hooks!StillVerified(o, Hooks!Entry(o)) \in {trust[o].verified, Hooks!None}
    BY DEF Hooks!StillVerified
  <2>4. /\ trust'[o].definition = Hooks!Entry(o)
        /\ trust'[o].verified \in {trust[o].verified, Hooks!None}
        /\ \A x \in Owners : x # o => trust'[x] = trust[x]
        /\ trust' \in [Owners -> [definition : Definitions \cup {Hooks!None},
                                  verified : Definitions \cup {Hooks!None}]]
    BY <1>0, <2>1, <2>2, <2>3 DEF HookTypes
  <2>5. /\ job'[o].at = "idle" /\ job'[o].read.user = {} /\ job' \in [Owners -> Jobs]
        /\ \A x \in Owners : x # o => job'[x] = job[x]
    BY <1>0, <2>1, NothingIs DEF HookTypes
  <2>6. HookTypes'
    BY <1>0, <2>1, <2>4, <2>5 DEF HookTypes
  <2>7. Recorded'
    <3>1. \A x \in Owners : Hooks!Entry(x)' = Hooks!Entry(x)
      BY <2>1 DEF Hooks!Entry
    <3> QED BY <1>0, <1>7, <2>1, <2>2, <2>4, <2>5, <3>1 DEF Recorded
  <2>8. file = "notify" => CommandKept'
    <3> SUFFICES ASSUME file = "notify"
                 PROVE  CommandKept'
      OBVIOUS
    <3>1. CommandKept
      BY <1>0, <1>7
    <3>2. \A x \in Owners : Forwards(x) => Forwards(x)'
      BY <2>1, <2>5 DEF Forwards
    <3>3. \A x \in Owners :
            /\ job'[x].at = "forward" => job'[x].read.user # {}
            /\ job'[x].at \in {"write", "replace"} /\ job'[x].read.user # {} =>
                 forward[x] = job'[x].read.user
            /\ wanted = {} => forward[x] = {} /\ job'[x].read.user = {}
      BY <2>5, <3>1 DEF CommandKept
    <3>4. content.own # Hooks!None => content.own.of \in Owners
      BY <1>0, <1>7 DEF Recorded, HookTypes, Definitions
    <3> QED BY <2>1, <3>1, <3>2, <3>3, <3>4 DEF CommandKept
  <2> QED BY <1>0, <1>7, <2>1, <2>6, <2>7, <2>8 DEF HooksInv
<1>8. ASSUME ~raced, NEW o \in Owners, Hooks!Uninstall(o)
      PROVE  HooksInv'
  <2>1. /\ file = "settings" /\ content' = [content EXCEPT !.own = Hooks!None]
        /\ UNCHANGED <<file, temporary, forward, job, build, trust, wanted, installed, fired,
                       raced, upsets>>
    BY <1>8 DEF Hooks!Uninstall
  <2>2. content' \in Hooks!Contents /\ content'.own = Hooks!None /\ content'.user = content.user
    BY <1>0, <2>1 DEF HookTypes, Hooks!Contents
  <2>3. HookTypes'
    BY <1>0, <2>1, <2>2 DEF HookTypes
  <2>4. Recorded'
    BY <1>0, <1>8, <2>1, <2>2 DEF Recorded, Hooks!Entry
  <2> QED BY <1>0, <1>8, <2>1, <2>2, <2>3, <2>4 DEF HooksInv
<1>9. ASSUME ~raced, NEW o \in Owners, Hooks!Fire(o)
      PROVE  HooksInv'
  <2>1. /\ file = "hooks" /\ fired' = fired \cup {d \in installed : d.of = o}
        /\ trust' = [trust EXCEPT ![o].verified = trust[o].definition]
        /\ UNCHANGED <<file, content, temporary, forward, job, build, wanted, installed, raced,
                       upsets>>
    BY <1>9 DEF Hooks!Fire
  <2>2. /\ trust'[o].definition = trust[o].definition
        /\ trust'[o].verified = trust[o].definition
        /\ \A x \in Owners : x # o => trust'[x] = trust[x]
        /\ trust' \in [Owners -> [definition : Definitions \cup {Hooks!None},
                                  verified : Definitions \cup {Hooks!None}]]
    BY <1>0, <2>1 DEF HookTypes
  <2>3. HookTypes'
    BY <1>0, <2>1, <2>2 DEF HookTypes
  <2>4. Recorded'
    <3>1. \A x \in Owners : Hooks!Entry(x)' = Hooks!Entry(x)
      BY <2>1 DEF Hooks!Entry
    <3> QED BY <1>0, <1>9, <2>1, <2>2, <3>1 DEF Recorded
  <2> QED BY <1>0, <1>9, <2>1, <2>3, <2>4 DEF HooksInv
<1>10. ASSUME ~raced, NEW o \in Owners, Hooks!Update(o)
       PROVE  HooksInv'
  <2>1. /\ job[o].at = "idle" /\ build' = [build EXCEPT ![o] = 2]
        /\ UNCHANGED <<file, content, temporary, forward, job, trust, wanted, installed, fired,
                       raced>>
    BY <1>10 DEF Hooks!Update
  <2>2. HookTypes'
    BY <1>0, <2>1 DEF HookTypes
  <2>3. \A x \in Owners : x # o => Hooks!Entry(x)' = Hooks!Entry(x)
    BY <1>0, <2>1 DEF HookTypes, Hooks!Entry
  <2>4. Recorded'
    BY <1>0, <1>10, <2>1, <2>3 DEF Recorded
  <2>5. CommandKept' <=> CommandKept
    BY <2>1 DEF CommandKept, Forwards
  <2> QED BY <1>0, <1>10, <2>1, <2>2, <2>4, <2>5 DEF HooksInv
<1>11. ASSUME ~raced, Hooks!Edit
       PROVE  HooksInv'
  <2>1. PICK set \in Hooks!Wants, ok \in BOOLEAN, keeps \in BOOLEAN :
          /\ file = "notify" => set # {} /\ ~keeps
          /\ wanted' = set
          /\ content' = [ok |-> ok, user |-> set, own |-> IF keeps THEN content.own ELSE Hooks!None]
    BY <1>11 DEF Hooks!Edit
  <2>2. UNCHANGED <<file, temporary, forward, job, build, trust, installed, fired, raced>>
    BY <1>11 DEF Hooks!Edit
  <2>3. /\ set \subseteq Entries \cup Commands
        /\ content'.user = wanted' /\ content'.own \in {content.own, Hooks!None}
        /\ file = "notify" => content'.own = Hooks!None /\ wanted' # {}
        /\ content' \in Hooks!Contents
    <3>1. set \subseteq Entries \cup Commands
      BY DEF Hooks!Wants
    <3>2. content.own \in Definitions \cup {Hooks!None}
      BY <1>0 DEF HookTypes, Hooks!Contents, Definitions
    <3>3. content' \in Hooks!Contents
      BY <2>1, <3>1, <3>2 DEF Hooks!Contents, Definitions
    <3> QED BY <2>1, <3>1, <3>3
  <2>4. HookTypes'
    BY <1>0, <2>1, <2>2, <2>3 DEF HookTypes
  <2>5. Recorded'
    BY <1>0, <1>11, <2>2, <2>3 DEF Recorded, Hooks!Entry
  <2>6. file = "notify" => CommandKept'
    BY <1>0, <1>11, <2>2, <2>3 DEF CommandKept
  <2> QED BY <2>2, <2>3, <2>4, <2>5, <2>6 DEF HooksInv
<1> QED
  BY <1>1, <1>2, <1>3, <1>4, <1>5, <1>6, <1>7, <1>8, <1>9, <1>10, <1>11 DEF Hooks!Next

\* At most one owner among the definitions installed.
LEMMA OneOwner ==
  ASSUME HookTypes, Hooks!Cardinality({d.of : d \in installed}) <= 1,
         NEW c \in installed
  PROVE  \A d \in installed : d.of = c.of
<1> DEFINE S == {d.of : d \in installed}
           f == [d \in installed |-> d.of]
<1>1. IsFiniteSet(S)
  <2>1. f \in Surjection(installed, S)
    BY DEF Surjection
  <2>2. IsFiniteSet(installed)
    BY DEF HookTypes
  <2> HIDE DEF f, S
  <2> QED BY <2>1, <2>2, FS_Surjection
<1>2. Cardinality(S) <= 1
  BY DEF Hooks!Cardinality, Cardinality, Hooks!IsFiniteSet, IsFiniteSet
<1>3. c.of \in S
  OBVIOUS
<1>4. \A d \in installed : d.of \in S
  OBVIOUS
<1> HIDE DEF S
<1>5. Cardinality(S) \in Nat /\ (Cardinality(S) = 0 <=> S = {})
  BY <1>1, FS_CardinalityType, FS_EmptySet
<1>6. Cardinality(S) = 1
  BY <1>2, <1>3, <1>5
<1>7. \E x : S = {x}
  BY <1>1, <1>6, FS_Singleton
<1> QED BY <1>3, <1>4, <1>7

\* What the user put into a file outlives every installation, and the hooks count
\* as verified only once one of those installed has been heard of.
THEOREM HooksAreKept == Spec => []HooksKept
<1>1. Init => HooksInv
  <2> SUFFICES ASSUME Init
               PROVE  HooksInv
    OBVIOUS
  <2>1. Hooks!Init
    BY PartsInit
  <2>2. wanted \subseteq Entries \cup Commands
    BY <2>1 DEF Hooks!Init, Hooks!Wants
  <2>3. content \in Hooks!Contents /\ content.user = wanted /\ content.own = Hooks!None
    BY <2>1, <2>2 DEF Hooks!Init, Hooks!Contents
  <2>4. \A o \in Owners : job[o] = Hooks!Idle /\ forward[o] = {}
    BY <2>1 DEF Hooks!Init
  <2>5. HookTypes
    BY <2>1, <2>2, <2>3, NothingIs, FS_EmptySet DEF HookTypes, Hooks!Init
  <2>6. Recorded /\ CommandKept
    BY <2>1, <2>3, <2>4, NothingIs DEF Recorded, CommandKept, Hooks!Init
  <2> QED BY <2>3, <2>5, <2>6 DEF HooksInv
<1>2. HooksInv /\ [Next]_vars => HooksInv'
  BY PartSteps, HooksStep
<1>3. HooksInv => HooksKept
  <2> SUFFICES ASSUME HooksInv, ~raced
               PROVE  HooksKept
    BY DEF HooksKept, Hooks!UsersKept, Hooks!TrustEarned
  <2>0. HookTypes /\ Recorded /\ (file # "notify" => content.user = wanted)
        /\ (file = "notify" => CommandKept)
    BY DEF HooksInv
  <2>1. Hooks!TrustEarned
    BY <2>0 DEF Recorded, Hooks!TrustEarned
  <2>2. file = "notify" => wanted \in {content.user} \cup {forward[o] : o \in Owners}
    BY <2>0 DEF CommandKept, Forwards
  <2>3. file = "notify" /\ Hooks!Cardinality({d.of : d \in installed}) <= 1
          => Hooks!Notified = wanted
    <3> SUFFICES ASSUME file = "notify", Hooks!Cardinality({d.of : d \in installed}) <= 1
                 PROVE  Hooks!Notified = wanted
      OBVIOUS
    <3>1. CASE content.own = Hooks!None
      BY <2>0, <3>1 DEF CommandKept, Hooks!Notified
    <3>2. CASE content.own # Hooks!None
      <4>1. content.own \in installed
        BY <2>0, <3>2 DEF Recorded
      <4>2. \A d \in installed : d.of = content.own.of
        BY <2>0, <4>1, OneOwner
      <4> QED BY <2>0, <3>2, <4>2 DEF CommandKept, Forwards, Hooks!Notified
    <3> QED BY <3>1, <3>2
  <2>4. Hooks!UsersKept
    BY <2>0, <2>2, <2>3 DEF Hooks!UsersKept
  <2> QED BY <2>1, <2>4 DEF HooksKept
<1> QED BY <1>1, <1>2, <1>3, PTL DEF Spec

-----------------------------------------------------------------------------
(* RolloutMirror.                                                          *)

MirrorRow == [kind : {"remark", "answer"}, text : Texts]
Saying    == {<<>>} \cup (Texts \X {"said"})
WatchRec  == [on : BOOLEAN, offset : Nat, started : BOOLEAN, remark : Saying, final : Saying]
PollRec   == [at : {"idle", "read", "apply"}, size : Nat, rows : Seq(Nat)]

MirrorTypes ==
  /\ rollout \in Seq(MirrorRow) /\ Len(rollout) <= MaxRows
  /\ half \in BOOLEAN /\ (half => Len(rollout) # 0)
  /\ watch \in WatchRec /\ poll \in PollRec
  /\ ~watch.on => watch.offset = 0
  /\ poll.at = "apply" <=> poll.rows # <<>>
  /\ synced \in {<<>>} \cup ({"row"} \X Nat) \cup ({"text"} \X Texts)
  /\ told \in [Mirror!Rows -> Nat] /\ shown \subseteq Mirror!Written

\* The poll has row i still to apply; row i stands whole in the file.
InPoll(i)    == \E k \in DOMAIN poll.rows : poll.rows[k] = i
WholeRow(i)  == i \in Mirror!Written /\ 2 * i <= Mirror!FileSize
Answers(j, x) == rollout[j] = [kind |-> "answer", text |-> x]

\* The cursor and the poll are past row j.
Behind(j) ==
  /\ WholeRow(j) /\ 2 * j <= watch.offset
  /\ \A k \in DOMAIN poll.rows : j < poll.rows[k]

\* What a poll has to apply was not told, and comes in the order of the file.
Polled ==
  /\ poll.at # "idle" => watch.on
  /\ \A k \in DOMAIN poll.rows :
       /\ WholeRow(poll.rows[k]) /\ 2 * poll.rows[k] <= watch.offset
       /\ told[poll.rows[k]] = 0
  /\ \A k, m \in DOMAIN poll.rows : k < m => poll.rows[k] < poll.rows[m]

\* What was told is behind the cursor and the poll.
ToldBehind ==
  /\ watch.on => watch.offset <= Mirror!FileSize
  /\ \A i \in Mirror!Rows :
       /\ told[i] <= 1
       /\ told[i] = 1 => WholeRow(i) /\ ~InPoll(i) /\ (watch.on => 2 * i <= watch.offset)

\* The answer remembered as the last one is one that was shown or gone past.
Remembered ==
  /\ \A j \in Nat : synced = <<"row", j>> =>
       WholeRow(j) /\ rollout[j].kind = "answer" /\ ~InPoll(j) /\ (watch.on => 2 * j <= watch.offset)
  /\ \A x \in Texts : synced = <<"text", x>> => \E j \in shown : Answers(j, x)
  /\ \A x \in Texts : watch.on /\ watch.final = <<x, "said">> =>
       \E j \in Mirror!Written : Answers(j, x) /\ (j \in shown \/ Behind(j))

Handled(i) == told[i] = 1 \/ i \in missed \/ Mirror!Repeats(i) \/ i \in shown

\* An answer that begins before the cursor and is not in the poll was dealt with.
Passed == \A i \in Mirror!Written :
  rollout[i].kind = "answer" /\ watch.on /\ 2 * i - 1 <= watch.offset /\ ~InPoll(i) => Handled(i)

MirrorInv == MirrorTypes /\ Polled /\ ToldBehind /\ Remembered /\ Passed

\* The file's rows and its size, of which a row cut off has half.
LEMMA FileFacts ==
  ASSUME MirrorTypes
  PROVE  /\ Len(rollout) \in Nat /\ Mirror!Written = 1 .. Len(rollout)
         /\ Mirror!Written \subseteq Mirror!Rows /\ Mirror!Rows \subseteq Nat
         /\ Mirror!FileSize \in Nat /\ Mirror!FileSize <= 2 * Len(rollout)
         /\ Mirror!Latest \in Nat /\ Mirror!Latest <= Len(rollout)
         /\ 2 * Mirror!Latest <= Mirror!FileSize /\ Mirror!FileSize <= 2 * Mirror!Latest + 1
         /\ watch.offset \in Nat
         /\ \A i \in Mirror!Written : rollout[i] \in MirrorRow
<1>1. Len(rollout) \in Nat /\ MaxRows \in Nat /\ Len(rollout) <= MaxRows
  BY DesktopAssumption DEF MirrorTypes
<1>2. half \in BOOLEAN /\ (half => Len(rollout) # 0)
  BY DEF MirrorTypes
<1>3. PICK n \in Nat : n = Len(rollout)
  BY <1>1
<1>4. /\ Mirror!FileSize \in Nat /\ Mirror!FileSize <= 2 * n
      /\ Mirror!Latest \in Nat /\ Mirror!Latest <= n
      /\ 2 * Mirror!Latest <= Mirror!FileSize /\ Mirror!FileSize <= 2 * Mirror!Latest + 1
  <2>1. CASE half
    BY <1>2, <1>3, <2>1 DEF Mirror!FileSize, Mirror!Latest
  <2>2. CASE ~half
    BY <1>2, <1>3, <2>2 DEF Mirror!FileSize, Mirror!Latest
  <2> QED BY <2>1, <2>2
<1>5. watch.offset \in Nat
  BY DEF MirrorTypes, WatchRec
<1>6. \A i \in 1 .. Len(rollout) : rollout[i] \in MirrorRow
  BY DEF MirrorTypes
<1> QED BY <1>1, <1>3, <1>4, <1>5, <1>6 DEF Mirror!Written, Mirror!Rows

\* A file that grows, or a watch that goes on where it is, changes nothing.
LEMMA MirrorGrows ==
  ASSUME MirrorInv, MirrorTypes',
         Mirror!FileSize <= Mirror!FileSize', Len(rollout) <= Len(rollout'),
         \A i \in Mirror!Written : rollout'[i] = rollout[i],
         watch'.on = watch.on, watch'.offset = watch.offset, watch'.final = watch.final,
         poll'.rows = poll.rows, poll'.at # "idle" => watch'.on,
         UNCHANGED <<synced, told, shown, missed>>
  PROVE  MirrorInv'
<1>1. MirrorTypes
  BY DEF MirrorInv
<1>2. /\ Mirror!Written = 1 .. Len(rollout) /\ Mirror!Written' = 1 .. Len(rollout')
      /\ Len(rollout) \in Nat /\ Len(rollout') \in Nat
      /\ Mirror!FileSize \in Nat /\ Mirror!FileSize' \in Nat
      /\ Mirror!FileSize <= 2 * Len(rollout)
      /\ watch.offset \in Nat /\ Mirror!Rows \subseteq Nat
  BY <1>1, FileFacts DEF Mirror!Written, MirrorTypes, Mirror!FileSize
<1>3. Mirror!Written \subseteq Mirror!Written'
  BY <1>2
<1>4. \A i : /\ WholeRow(i) => WholeRow(i)'
             /\ InPoll(i)' <=> InPoll(i)
  BY <1>2, <1>3 DEF WholeRow, InPoll
<1>5. Polled'
  BY <1>4 DEF MirrorInv, Polled
<1>6. ToldBehind'
  <2>1. watch'.on => watch'.offset <= Mirror!FileSize'
    BY <1>2 DEF MirrorInv, ToldBehind
  <2> QED BY <1>4, <2>1 DEF MirrorInv, ToldBehind, Mirror!Rows
<1>7. Remembered'
  <2>1. \A j \in Nat : synced' = <<"row", j>> =>
          /\ WholeRow(j)' /\ rollout'[j].kind = "answer" /\ ~InPoll(j)'
          /\ watch'.on => 2 * j <= watch'.offset
    BY <1>4 DEF MirrorInv, Remembered, WholeRow
  <2>2. \A x \in Texts : \A j \in Mirror!Written : Answers(j, x) => Answers(j, x)'
    BY DEF Answers
  <2>3. \A j : Behind(j) => Behind(j)'
    BY <1>4 DEF Behind
  <2>4. shown \subseteq Mirror!Written
    BY <1>1 DEF MirrorTypes
  <2>5. \A x \in Texts : synced' = <<"text", x>> => \E j \in shown' : Answers(j, x)'
    BY <2>2, <2>4 DEF MirrorInv, Remembered
  <2>6. \A x \in Texts : watch'.on /\ watch'.final = <<x, "said">> =>
          \E j \in Mirror!Written' : Answers(j, x)' /\ (j \in shown' \/ Behind(j)')
    BY <1>3, <2>2, <2>3 DEF MirrorInv, Remembered
  <2> QED BY <2>1, <2>5, <2>6 DEF Remembered
<1>8. Passed'
  <2> SUFFICES ASSUME NEW i \in Mirror!Written', rollout'[i].kind = "answer", watch'.on,
                      2 * i - 1 <= watch'.offset, ~InPoll(i)'
               PROVE  Handled(i)'
    BY DEF Passed
  <2>1. watch.offset <= Mirror!FileSize
    BY DEF MirrorInv, ToldBehind
  <2>2. i \in Mirror!Written
    BY <1>2, <2>1
  <2>3. Handled(i)
    BY <1>4, <2>2 DEF MirrorInv, Passed
  <2>4. Mirror!Repeats(i) => Mirror!Repeats(i)'
    <3>1. \A j \in 1 .. i - 1 : j \in Mirror!Written
      BY <1>2, <2>2
    <3>2. shown \subseteq Mirror!Written
      BY <1>1 DEF MirrorTypes
    <3> QED BY <2>2, <3>1, <3>2 DEF Mirror!Repeats
  <2> QED BY <2>3, <2>4 DEF Handled
<1> QED BY <1>5, <1>6, <1>7, <1>8 DEF MirrorInv

\* Codex appends to the file, a row at a time or by half.
LEMMA AppendsKeep ==
  ASSUME MirrorInv, NEW k \in {"remark", "answer"}, NEW text \in Texts, NEW cut_ \in BOOLEAN,
         Mirror!Appends(k, text, cut_)
  PROVE  MirrorInv'
<1>1. MirrorTypes /\ rollout \in Seq(MirrorRow) /\ Len(rollout) \in Nat /\ MaxRows \in Nat
  BY FileFacts, DesktopAssumption DEF MirrorInv, MirrorTypes
<1>2. PICK row : row = [kind |-> k, text |-> text]
  OBVIOUS
<1>3. row \in MirrorRow
  BY <1>2 DEF MirrorRow
<1>4. /\ rollout' = Append(rollout, row) /\ half' = cut_ /\ ~half /\ Len(rollout) < MaxRows
      /\ UNCHANGED <<watch, poll, synced, told, shown, missed>>
  BY <1>2 DEF Mirror!Appends
<1>5. /\ rollout' \in Seq(MirrorRow) /\ Len(rollout') = Len(rollout) + 1
      /\ \A i \in 1 .. Len(rollout) : rollout'[i] = rollout[i]
  BY <1>1, <1>3, <1>4, AppendProperties
<1>6. /\ Mirror!FileSize = 2 * Len(rollout)
      /\ Mirror!FileSize' = 2 * Len(rollout') - (IF cut_ THEN 1 ELSE 0)
  BY <1>1, <1>4 DEF Mirror!FileSize
<1>7. Mirror!FileSize <= Mirror!FileSize' /\ Len(rollout) <= Len(rollout')
  BY <1>1, <1>5, <1>6
<1>8. Mirror!Written = 1 .. Len(rollout) /\ Mirror!Written \subseteq Mirror!Written'
  BY <1>1, <1>5 DEF Mirror!Written
<1>9. Len(rollout') <= MaxRows /\ (half' => Len(rollout') # 0)
  BY <1>1, <1>4, <1>5
<1>10. MirrorTypes'
  BY <1>1, <1>4, <1>5, <1>8, <1>9 DEF MirrorTypes, Mirror!Rows
<1>11. poll'.at # "idle" => watch'.on
  BY <1>4 DEF MirrorInv, Polled
<1> QED BY <1>4, <1>5, <1>7, <1>8, <1>10, <1>11, MirrorGrows

\* The rest of a row, a turn that starts, a poll that looks at the size.
LEMMA QuietKeeps ==
  ASSUME MirrorInv, Mirror!AppendRest \/ Mirror!LiveStart \/ Mirror!Stat \/ UNCHANGED mirror
  PROVE  MirrorInv'
<1>1. MirrorTypes
  BY DEF MirrorInv
<1>2. /\ UNCHANGED <<rollout, synced, told, shown, missed>>
      /\ half' = half \/ half' = FALSE
  BY DEF Mirror!AppendRest, Mirror!LiveStart, Mirror!Stat, mirror
<1>3. /\ watch' \in WatchRec
      /\ watch'.on = watch.on /\ watch'.offset = watch.offset /\ watch'.final = watch.final
  <2>1. CASE watch' = watch
    BY <1>1, <2>1 DEF MirrorTypes
  <2>2. CASE Mirror!Stat /\ Mirror!Idle(watch)
    <3>1. PICK ends : watch' = [watch EXCEPT !.started = @ /\ ~ends]
      BY <2>2 DEF Mirror!Idle
    <3>2. PICK still : still = (watch.started /\ ~ends)
      OBVIOUS
    <3>3. still \in BOOLEAN
      BY <3>2
    <3>4. watch' = [watch EXCEPT !.started = still]
      BY <3>1, <3>2
    <3> QED BY <1>1, <3>3, <3>4 DEF MirrorTypes, WatchRec
  <2> QED BY <2>1, <2>2 DEF Mirror!AppendRest, Mirror!LiveStart, Mirror!Stat, mirror
<1>4. /\ poll' \in PollRec /\ poll'.rows = poll.rows
      /\ poll'.at # "idle" => watch.on
      /\ poll'.at = "apply" <=> poll.at = "apply"
  <2>1. CASE poll' = poll
    BY <1>1, <2>1 DEF MirrorInv, MirrorTypes, Polled
  <2>2. CASE Mirror!Stat /\ poll' # poll
    <3>1. /\ poll = Mirror!Waits /\ watch.on
          /\ poll' = [Mirror!Waits EXCEPT !.at = "read", !.size = Mirror!FileSize]
      BY <2>2 DEF Mirror!Stat
    <3>2. Mirror!FileSize \in Nat
      BY <1>1, FileFacts
    <3>3. <<>> \in Seq(Nat)
      OBVIOUS
    <3> QED BY <3>1, <3>2, <3>3 DEF Mirror!Waits, PollRec
  <2> QED BY <2>1, <2>2 DEF Mirror!AppendRest, Mirror!LiveStart, Mirror!Stat, mirror
<1>5. half' \in BOOLEAN /\ (half' => half)
  <2>1. half \in BOOLEAN
    BY <1>1 DEF MirrorTypes
  <2>2. CASE half' = half
    BY <2>1, <2>2
  <2>3. CASE half' = FALSE
    BY <2>3
  <2> QED BY <1>2, <2>2, <2>3
<1>6. Len(rollout) \in Nat /\ Mirror!FileSize <= Mirror!FileSize' /\ Mirror!Written' = Mirror!Written
  <2>1. Len(rollout) \in Nat
    BY <1>1, FileFacts
  <2> QED BY <1>2, <1>5, <2>1 DEF Mirror!FileSize, Mirror!Written
<1>7. MirrorTypes'
  <2>1. poll'.at # "apply" => poll'.rows = <<>>
    BY <1>1, <1>4 DEF MirrorTypes
  <2> QED BY <1>1, <1>2, <1>3, <1>4, <1>5, <1>6, <2>1 DEF MirrorTypes, Mirror!Rows
<1>8. Len(rollout) <= Len(rollout')
  BY <1>2, <1>6
<1> QED BY <1>2, <1>3, <1>4, <1>6, <1>7, <1>8, MirrorGrows

\* The app-server's events show an answer.
LEMMA LiveAnswerKeeps ==
  ASSUME MirrorInv, NEW i \in Mirror!Rows, Mirror!LiveAnswer(i)
  PROVE  MirrorInv'
<1>1. /\ MirrorTypes /\ i \in Mirror!Written /\ rollout[i].kind = "answer"
      /\ rollout[i] \in MirrorRow
      /\ shown' = shown \cup {i} /\ synced' = <<"text", rollout[i].text>>
      /\ UNCHANGED <<rollout, half, watch, poll, told, missed>>
  BY FileFacts DEF Mirror!LiveAnswer, MirrorInv
<1>2. PICK text : text = rollout[i].text
  OBVIOUS
<1>3. text \in Texts /\ Answers(i, text)
  BY <1>1, <1>2 DEF MirrorRow, Answers
<1>4. Mirror!Written' = Mirror!Written /\ Mirror!FileSize' = Mirror!FileSize
  BY <1>1 DEF Mirror!Written, Mirror!FileSize
<1>5. MirrorTypes'
  BY <1>1, <1>2, <1>3, <1>4 DEF MirrorTypes, Mirror!Rows
<1>6. Polled' /\ ToldBehind'
  BY <1>1, <1>4 DEF MirrorInv, Polled, ToldBehind, WholeRow, InPoll, Mirror!Rows
<1>7. \A j : Behind(j)' <=> Behind(j)
  BY <1>1, <1>4 DEF Behind, WholeRow
<1>8. Remembered'
  <2>1. \A j : synced' # <<"row", j>>
    BY <1>1
  <2>2. \A x \in Texts : synced' = <<"text", x>> => x = text
    BY <1>1, <1>2
  <2>3. \A x, j : Answers(j, x)' <=> Answers(j, x)
    BY <1>1 DEF Answers
  <2>4. \A x \in Texts : watch'.on /\ watch'.final = <<x, "said">> =>
          \E j \in Mirror!Written' : Answers(j, x)' /\ (j \in shown' \/ Behind(j)')
    BY <1>1, <1>4, <1>7, <2>3 DEF MirrorInv, Remembered
  <2> QED BY <1>1, <1>3, <2>1, <2>2, <2>3, <2>4 DEF Remembered
<1>9. Passed'
  <2>1. \A j \in Mirror!Written : Handled(j) => Handled(j)'
    BY <1>1 DEF Handled, Mirror!Repeats
  <2> QED BY <1>1, <1>4, <2>1 DEF MirrorInv, Passed, InPoll
<1> QED BY <1>5, <1>6, <1>8, <1>9 DEF MirrorInv

\* No watch and no poll, as the program starts.
LEMMA IdleTypes == Mirror!NoWatch \in WatchRec /\ Mirror!Waits \in PollRec
<1>1. <<>> \in Seq(Nat)
  OBVIOUS
<1> QED BY <1>1 DEF Mirror!NoWatch, Mirror!Waits, WatchRec, PollRec, Saying

\* A watch that ends, and a restart.
LEMMA UnwatchKeeps ==
  ASSUME MirrorInv, Mirror!Expire \/ Mirror!Restart
  PROVE  MirrorInv'
<1>1. MirrorTypes
  BY DEF MirrorInv
<1>2. /\ watch' = Mirror!NoWatch /\ poll' = Mirror!Waits
      /\ synced' = synced \/ synced' = <<>>
      /\ UNCHANGED <<rollout, half, told, shown>>
  BY DEF Mirror!Expire, Mirror!Restart
<1>3. ~watch'.on /\ poll'.rows = <<>> /\ poll'.at = "idle"
  BY <1>2 DEF Mirror!NoWatch, Mirror!Waits
<1>4. Mirror!Written' = Mirror!Written /\ Mirror!FileSize' = Mirror!FileSize
  BY <1>2 DEF Mirror!Written, Mirror!FileSize
<1>5. MirrorTypes'
  BY <1>1, <1>2, <1>3, <1>4, IdleTypes DEF MirrorTypes, Mirror!Rows, Mirror!NoWatch
<1>6. DOMAIN poll'.rows = {}
  BY <1>3
<1>7. \A i : ~InPoll(i)'
  BY <1>6 DEF InPoll
<1>8. Polled' /\ ToldBehind' /\ Passed'
  BY <1>2, <1>3, <1>4, <1>6, <1>7 DEF MirrorInv, Polled, ToldBehind, Passed, WholeRow, Mirror!Rows
<1>9. Remembered'
  BY <1>2, <1>3, <1>4, <1>7 DEF MirrorInv, Remembered, WholeRow, Answers
<1> QED BY <1>5, <1>8, <1>9 DEF MirrorInv

\* The cursor moves on and what it passes is noted as missed.
LEMMA CursorMoves ==
  ASSUME MirrorInv, MirrorTypes', Remembered',
         UNCHANGED <<rollout, half, poll, told, shown>>, watch'.on,
         watch'.offset <= Mirror!FileSize, 2 * Mirror!Latest <= watch'.offset,
         missed \subseteq missed',
         \A i \in Mirror!Written :
           2 * i - 1 <= watch'.offset => i \in missed' \/ (watch.on /\ 2 * i - 1 <= watch.offset)
  PROVE  MirrorInv'
<1>1. Mirror!Written' = Mirror!Written /\ Mirror!FileSize' = Mirror!FileSize
  BY DEF Mirror!Written, Mirror!FileSize
<1>2. \A i : (WholeRow(i)' <=> WholeRow(i)) /\ (InPoll(i)' <=> InPoll(i))
  BY <1>1 DEF WholeRow, InPoll
<1>3. watch'.offset \in Nat
  BY DEF MirrorTypes, WatchRec
<1>4. \A i : WholeRow(i) => i \in Nat /\ 2 * i <= watch'.offset
  <2>1. ASSUME NEW i, WholeRow(i)
        PROVE  i \in Nat /\ 2 * i <= watch'.offset
    <3>1. i \in Nat /\ 2 * i <= Mirror!FileSize
      BY <2>1, FileFacts DEF MirrorInv, WholeRow
    <3>2. Mirror!FileSize <= 2 * Mirror!Latest + 1 /\ Mirror!Latest \in Nat /\ Mirror!FileSize \in Nat
      BY FileFacts DEF MirrorInv
    <3>3. i <= Mirror!Latest
      BY <3>1, <3>2
    <3> QED BY <1>3, <3>1, <3>2, <3>3
  <2> QED BY <2>1
<1>5. Polled'
  BY <1>2, <1>4 DEF MirrorInv, Polled
<1>6. ToldBehind'
  BY <1>1, <1>2, <1>4 DEF MirrorInv, ToldBehind, Mirror!Rows
<1>7. \A i \in Mirror!Written : Handled(i) => Handled(i)'
  BY DEF Handled, Mirror!Repeats
<1>8. Passed'
  BY <1>1, <1>2, <1>7 DEF MirrorInv, Passed, Handled
<1> QED BY <1>5, <1>6, <1>8 DEF MirrorInv

\* A send sets a new baseline.
LEMMA SeedKeeps ==
  ASSUME MirrorInv, Mirror!Seed
  PROVE  MirrorInv'
<1>1. MirrorTypes
  BY DEF MirrorInv
<1>2. /\ Mirror!FileSize \in Nat /\ watch \in WatchRec /\ watch.on
      /\ watch' = [watch EXCEPT !.offset = Mirror!FileSize]
      /\ missed' = missed \cup Mirror!Before(Mirror!FileSize)
      /\ UNCHANGED <<rollout, half, poll, synced, told, shown>>
  BY <1>1, FileFacts DEF Mirror!Seed, MirrorTypes
<1>3. /\ watch' \in WatchRec /\ watch'.on /\ watch'.offset = Mirror!FileSize
      /\ watch'.final = watch.final
  BY <1>2 DEF WatchRec
<1>4. Mirror!Written' = Mirror!Written /\ Mirror!FileSize' = Mirror!FileSize
  BY <1>2 DEF Mirror!Written, Mirror!FileSize
<1>5. MirrorTypes'
  BY <1>1, <1>2, <1>3, <1>4 DEF MirrorTypes, Mirror!Rows
<1>6. Remembered'
  <2>1. \A j : Behind(j) => Behind(j)'
    BY <1>2, <1>3, <1>4 DEF Behind, WholeRow
  <2> QED BY <1>2, <1>3, <1>4, <2>1 DEF MirrorInv, Remembered, WholeRow, InPoll, Answers
<1>7. \A i \in Mirror!Written :
        2 * i - 1 <= watch'.offset => i \in missed' \/ (watch.on /\ 2 * i - 1 <= watch.offset)
  <2>1. watch.offset \in Nat /\ Mirror!Written \subseteq Nat
    BY <1>1, FileFacts
  <2> QED BY <1>2, <1>3, <2>1 DEF Mirror!Before
<1>8. 2 * Mirror!Latest <= Mirror!FileSize
  BY <1>1, FileFacts
<1> QED BY <1>2, <1>3, <1>5, <1>6, <1>7, <1>8, CursorMoves

\* A thread is watched from the end of its file.
LEMMA WatchKeeps ==
  ASSUME MirrorInv, Mirror!Watch
  PROVE  MirrorInv'
<1>1. MirrorTypes
  BY DEF MirrorInv
<1>2. PICK live \in BOOLEAN :
        LET last == live /\ Mirror!Latest # 0
            said == IF last THEN rollout[Mirror!Latest].kind ELSE "none"
            from == IF said = "remark" THEN 2 * Mirror!Latest ELSE Mirror!FileSize
            now  == IF said = "answer" THEN <<"row", Mirror!Latest>> ELSE synced
        IN /\ watch' = [Mirror!NoWatch EXCEPT !.on = TRUE, !.offset = from,
                          !.remark = IF said = "remark" THEN Mirror!Said(Mirror!Latest) ELSE <<>>,
                          !.final = IF now = <<>> THEN <<>>
                                    ELSE IF now[1] = "row" THEN Mirror!Said(now[2])
                                    ELSE <<now[2], "said">>]
           /\ synced' = now
           /\ missed' = missed \cup Mirror!Before(from)
  BY DEF Mirror!Watch
<1>3. PICK said : said = IF live /\ Mirror!Latest # 0 THEN rollout[Mirror!Latest].kind ELSE "none"
  OBVIOUS
<1>4. PICK from : from = IF said = "remark" THEN 2 * Mirror!Latest ELSE Mirror!FileSize
  OBVIOUS
<1>5. PICK now : now = IF said = "answer" THEN <<"row", Mirror!Latest>> ELSE synced
  OBVIOUS
<1>6. PICK remark : remark = IF said = "remark" THEN Mirror!Said(Mirror!Latest) ELSE <<>>
  OBVIOUS
<1>7. PICK last : last = IF now = <<>> THEN <<>>
                         ELSE IF now[1] = "row" THEN Mirror!Said(now[2]) ELSE <<now[2], "said">>
  OBVIOUS
<1>8. /\ watch' = [Mirror!NoWatch EXCEPT !.on = TRUE, !.offset = from, !.remark = remark, !.final = last]
      /\ synced' = now /\ missed' = missed \cup Mirror!Before(from)
      /\ ~watch.on /\ poll = Mirror!Waits
      /\ UNCHANGED <<rollout, half, poll, told, shown>>
  BY <1>2, <1>3, <1>4, <1>5, <1>6, <1>7 DEF Mirror!Watch
<1>9. /\ Mirror!Latest \in Nat /\ Mirror!FileSize \in Nat /\ Mirror!Latest <= Len(rollout)
      /\ 2 * Mirror!Latest <= Mirror!FileSize /\ Mirror!FileSize <= 2 * Mirror!Latest + 1
      /\ Mirror!Written = 1 .. Len(rollout) /\ Len(rollout) \in Nat
      /\ watch.offset \in Nat
  BY <1>1, FileFacts
<1>10. from \in Nat /\ from <= Mirror!FileSize /\ 2 * Mirror!Latest <= from
  BY <1>4, <1>9
<1>11. \A i \in Mirror!Written : rollout[i] \in MirrorRow
  BY <1>1, FileFacts
<1>12. said \in {"remark", "answer"} => Mirror!Latest \in Mirror!Written
  BY <1>3, <1>9
<1>13. \/ now = <<>>
       \/ \E j \in Mirror!Written : now = <<"row", j>> /\ WholeRow(j) /\ rollout[j].kind = "answer"
       \/ \E x \in Texts : now = <<"text", x>> /\ synced = now
  <2>1. CASE said = "answer"
    <3>1. rollout[Mirror!Latest].kind = "answer"
      BY <1>3, <2>1
    <3> QED BY <1>5, <1>9, <1>12, <2>1, <3>1 DEF WholeRow
  <2>2. CASE said # "answer"
    <3>1. now = synced
      BY <1>5, <2>2
    <3>2. \A j \in Nat : synced = <<"row", j>> => WholeRow(j) /\ rollout[j].kind = "answer"
      BY DEF MirrorInv, Remembered
    <3>3. synced \in {<<>>} \cup ({"row"} \X Nat) \cup ({"text"} \X Texts)
      BY <1>1 DEF MirrorTypes
    <3> QED BY <3>1, <3>2, <3>3 DEF WholeRow
  <2> QED BY <2>1, <2>2
<1>14. remark \in Saying
  BY <1>6, <1>11, <1>12 DEF Saying, Mirror!Said, MirrorRow
<1>15. /\ last \in Saying
       /\ \A x \in Texts : last = <<x, "said">> =>
            \/ \E j \in Mirror!Written : Answers(j, x) /\ WholeRow(j)
            \/ synced = <<"text", x>>
  <2>1. CASE now = <<>>
    BY <1>7, <2>1 DEF Saying
  <2>2. ASSUME NEW j \in Mirror!Written, now = <<"row", j>>, WholeRow(j), rollout[j].kind = "answer"
        PROVE  <1>15!1 /\ <1>15!2
    <3>1. last = <<rollout[j].text, "said">>
      BY <1>7, <2>2 DEF Mirror!Said
    <3>2. rollout[j] \in MirrorRow
      BY <1>11
    <3>3. Answers(j, rollout[j].text) /\ rollout[j].text \in Texts
      BY <2>2, <3>2 DEF MirrorRow, Answers
    <3> QED BY <2>2, <3>1, <3>3 DEF Saying
  <2>3. ASSUME NEW x \in Texts, now = <<"text", x>>, synced = now
        PROVE  <1>15!1 /\ <1>15!2
    <3>1. last = <<x, "said">>
      BY <1>7, <2>3
    <3> QED BY <2>3, <3>1 DEF Saying
  <2> QED BY <1>13, <2>1, <2>2, <2>3
<1>16. /\ watch' \in WatchRec /\ watch'.on /\ watch'.offset = from /\ watch'.final = last
  BY <1>8, <1>10, <1>14, <1>15 DEF Mirror!NoWatch, WatchRec, Saying
<1>17. Mirror!Written' = Mirror!Written /\ Mirror!FileSize' = Mirror!FileSize
  BY <1>8 DEF Mirror!Written, Mirror!FileSize
<1>18. MirrorTypes'
  <2>1. synced' \in {<<>>} \cup ({"row"} \X Nat) \cup ({"text"} \X Texts)
    BY <1>8, <1>9, <1>13
  <2> QED BY <1>1, <1>8, <1>16, <1>17, <2>1 DEF MirrorTypes, Mirror!Rows
<1>19. DOMAIN poll.rows = {}
  BY <1>8 DEF Mirror!Waits
<1>20. \A j : WholeRow(j) => 2 * j <= from /\ Behind(j)' /\ WholeRow(j)' /\ ~InPoll(j)'
  <2>1. ASSUME NEW j, WholeRow(j)
        PROVE  2 * j <= from
    <3>1. j \in Nat /\ 2 * j <= Mirror!FileSize
      BY <1>9, <2>1 DEF WholeRow
    <3> QED BY <1>9, <1>10, <3>1
  <2> QED BY <1>8, <1>16, <1>17, <1>19, <2>1 DEF Behind, WholeRow, InPoll
<1>21. Remembered'
  <2>1. \A j \in Nat : synced' = <<"row", j>> =>
          /\ WholeRow(j)' /\ rollout'[j].kind = "answer" /\ ~InPoll(j)'
          /\ watch'.on => 2 * j <= watch'.offset
    BY <1>8, <1>13, <1>16, <1>20
  <2>2. \A x \in Texts : synced' = <<"text", x>> => \E j \in shown' : Answers(j, x)'
    <3>1. \A x \in Texts : now = <<"text", x>> => synced = now
      BY <1>13
    <3> QED BY <1>8, <3>1 DEF MirrorInv, Remembered, Answers
  <2>3. \A x \in Texts : watch'.on /\ watch'.final = <<x, "said">> =>
          \E j \in Mirror!Written' : Answers(j, x)' /\ (j \in shown' \/ Behind(j)')
    <3>1. ASSUME NEW x \in Texts, last = <<x, "said">>
          PROVE  \E j \in Mirror!Written' : Answers(j, x)' /\ (j \in shown' \/ Behind(j)')
      <4>1. CASE synced = <<"text", x>>
        <5>1. PICK j \in shown : Answers(j, x)
          BY <4>1 DEF MirrorInv, Remembered
        <5> QED BY <1>1, <1>8, <1>17, <5>1 DEF Answers, MirrorTypes
      <4>2. CASE \E j \in Mirror!Written : Answers(j, x) /\ WholeRow(j)
        BY <1>8, <1>17, <1>20, <4>2 DEF Answers
      <4> QED BY <1>15, <3>1, <4>1, <4>2
    <3> QED BY <1>16, <3>1
  <2> QED BY <2>1, <2>2, <2>3 DEF Remembered
<1>22. \A i \in Mirror!Written :
         2 * i - 1 <= watch'.offset => i \in missed' \/ (watch.on /\ 2 * i - 1 <= watch.offset)
  <2>1. watch.offset = 0
    BY <1>1, <1>8 DEF MirrorTypes
  <2>2. \A i \in Mirror!Written : i \in Nat /\ i # 0
    BY <1>9
  <2>3. \A i \in Mirror!Written : 2 * i - 1 <= from => i \in Mirror!Before(from)
    BY <1>10, <2>1, <2>2 DEF Mirror!Before
  <2> QED BY <1>8, <1>16, <2>3
<1> QED BY <1>8, <1>10, <1>16, <1>18, <1>21, <1>22, CursorMoves

\* A poll reads what stands whole behind the cursor.
LEMMA ReadKeeps ==
  ASSUME MirrorInv, Mirror!Read
  PROVE  MirrorInv'
<1>1. /\ MirrorTypes /\ watch.on /\ poll.rows = <<>> /\ watch \in WatchRec
  BY DEF MirrorInv, MirrorTypes, Polled, Mirror!Read
<1>2. /\ Mirror!Latest \in Nat /\ Mirror!FileSize \in Nat
      /\ 2 * Mirror!Latest <= Mirror!FileSize /\ Mirror!FileSize <= 2 * Mirror!Latest + 1
      /\ Mirror!Latest <= Len(rollout)
      /\ Mirror!Written = 1 .. Len(rollout) /\ Len(rollout) \in Nat
      /\ watch.offset \in Nat /\ Mirror!Rows \subseteq Nat
  BY <1>1, FileFacts
<1>3. PICK start : start = (watch.offset + 1) \div 2
  OBVIOUS
<1>4. start \in Nat /\ watch.offset <= 2 * start /\ 2 * start <= watch.offset + 1
  BY <1>2, <1>3
<1>5. PICK whole : whole = [k \in 1 .. Mirror!Latest - start |-> start + k]
  OBVIOUS
<1>6. PICK moved : moved = [watch EXCEPT !.offset = Mirror!FileSize]
  OBVIOUS
<1>7. /\ missed' = missed \cup {i \in Mirror!Written : 2 * i - 1 \in {watch.offset, Mirror!FileSize}}
      /\ IF whole = <<>>
         THEN Mirror!Idle(moved) /\ poll' = Mirror!Waits
         ELSE watch' = moved /\ poll' = [Mirror!Waits EXCEPT !.at = "apply", !.rows = whole]
      /\ UNCHANGED <<rollout, half, synced, told, shown>>
  BY <1>3, <1>5, <1>6 DEF Mirror!Read, Mirror!CursorAfter
<1>8. /\ moved \in WatchRec /\ moved.on /\ moved.offset = Mirror!FileSize
      /\ moved.final = watch.final
  BY <1>1, <1>2, <1>6 DEF WatchRec
<1>9. /\ watch' \in WatchRec /\ watch'.on /\ watch'.offset = Mirror!FileSize
      /\ watch'.final = watch.final
  <2>1. CASE whole = <<>>
    <3>1. PICK ends : watch' = [moved EXCEPT !.started = @ /\ ~ends]
      BY <1>7, <2>1 DEF Mirror!Idle
    <3>2. PICK still : still = (moved.started /\ ~ends)
      OBVIOUS
    <3>3. still \in BOOLEAN
      BY <3>2
    <3>4. watch' = [moved EXCEPT !.started = still]
      BY <3>1, <3>2
    <3> QED BY <1>8, <3>3, <3>4 DEF WatchRec
  <2>2. CASE whole # <<>>
    BY <1>7, <1>8, <2>2
  <2> QED BY <2>1, <2>2
<1>10. /\ DOMAIN whole = 1 .. Mirror!Latest - start
       /\ \A k \in DOMAIN whole : whole[k] = start + k
       /\ whole \in Seq(Nat)
  <2>1. CASE start <= Mirror!Latest
    <3>1. PICK n \in Nat : n = Mirror!Latest - start
      BY <1>2, <1>4, <2>1
    <3>2. whole \in [1 .. n -> Nat]
      BY <1>4, <1>5, <3>1
    <3>3. whole \in Seq(Nat)
      BY <3>2
    <3> QED BY <1>5, <3>3
  <2>2. CASE ~(start <= Mirror!Latest)
    <3>1. 1 .. Mirror!Latest - start = {} /\ 1 .. 0 = {}
      BY <1>2, <1>4, <2>2
    <3>2. whole = <<>>
      BY <1>5, <3>1
    <3>3. whole \in Seq(Nat)
      BY <3>2
    <3> QED BY <1>5, <3>3
  <2> QED BY <2>1, <2>2
<1>11. /\ poll' \in PollRec /\ poll'.rows = whole
       /\ poll'.at = "apply" <=> whole # <<>>
  <2>1. CASE whole = <<>>
    BY <1>7, <1>10, <2>1, IdleTypes DEF Mirror!Waits
  <2>2. CASE whole # <<>>
    <3>1. poll' = [at |-> "apply", size |-> 0, rows |-> whole]
      BY <1>7, <2>2 DEF Mirror!Waits
    <3> QED BY <1>10, <2>2, <3>1 DEF PollRec
  <2> QED BY <2>1, <2>2
<1>12. Mirror!Written' = Mirror!Written /\ Mirror!FileSize' = Mirror!FileSize
  BY <1>7 DEF Mirror!Written, Mirror!FileSize
<1>13. MirrorTypes'
  BY <1>1, <1>7, <1>9, <1>11, <1>12 DEF MirrorTypes, Mirror!Rows
<1>14. \A k \in DOMAIN poll'.rows :
         poll'.rows[k] = start + k /\ k \in Nat /\ k # 0 /\ start + k <= Mirror!Latest
  BY <1>2, <1>4, <1>10, <1>11
<1>15. \A i \in Nat : InPoll(i)' <=> start < i /\ i <= Mirror!Latest
  <2>1. ASSUME NEW i \in Nat, start < i, i <= Mirror!Latest
        PROVE  InPoll(i)'
    <3>1. i - start \in DOMAIN poll'.rows
      BY <1>2, <1>4, <1>10, <1>11, <2>1
    <3>2. poll'.rows[i - start] = i
      BY <1>4, <1>14, <2>1, <3>1
    <3> QED BY <3>1, <3>2 DEF InPoll
  <2>2. ASSUME NEW i \in Nat, InPoll(i)'
        PROVE  start < i /\ i <= Mirror!Latest
    <3>1. PICK k \in DOMAIN poll'.rows : poll'.rows[k] = i
      BY <2>2 DEF InPoll
    <3> QED BY <1>4, <1>14, <3>1
  <2> QED BY <2>1, <2>2
<1>16. \A i : WholeRow(i)' <=> WholeRow(i)
  BY <1>12 DEF WholeRow
<1>17. \A i : WholeRow(i) /\ 2 * i <= watch.offset => i \in Nat /\ i <= start /\ ~InPoll(i)'
  <2>1. ASSUME NEW i, WholeRow(i), 2 * i <= watch.offset
        PROVE  i \in Nat /\ i <= start
    <3>1. i \in Nat
      BY <1>2, <2>1 DEF WholeRow
    <3> QED BY <1>2, <1>4, <2>1, <3>1
  <2>2. \A i \in Nat : i <= start => ~InPoll(i)'
    BY <1>2, <1>4, <1>15
  <2> QED BY <2>1, <2>2
<1>18. Polled'
  <2>1. ASSUME NEW k \in DOMAIN poll'.rows, NEW i, i = poll'.rows[k]
        PROVE  WholeRow(i)' /\ 2 * i <= watch'.offset /\ told'[i] = 0
    <3>2. i = start + k /\ k \in Nat /\ k # 0 /\ i <= Mirror!Latest
      BY <1>14, <2>1
    <3>3. i \in Nat /\ i # 0 /\ start < i
      BY <1>4, <3>2
    <3>4. i \in Mirror!Written /\ 2 * i <= Mirror!FileSize
      BY <1>2, <3>2, <3>3
    <3>5. i \in Mirror!Rows
      BY <1>1, <3>4, FileFacts
    <3>6. told[i] # 1
      BY <1>1, <1>17, <3>5, <1>15, <3>2, <3>3 DEF MirrorInv, ToldBehind
    <3>7. told[i] \in Nat /\ told[i] <= 1
      BY <1>1, <3>5 DEF MirrorInv, ToldBehind, MirrorTypes
    <3>8. told'[i] = 0
      BY <1>7, <3>6, <3>7
    <3>9. WholeRow(i)' /\ 2 * i <= watch'.offset
      BY <1>9, <1>16, <3>4 DEF WholeRow
    <3> QED BY <3>8, <3>9
  <2>2. \A k, m \in DOMAIN poll'.rows : k < m => poll'.rows[k] < poll'.rows[m]
    BY <1>4, <1>14
  <2>3. \A k \in DOMAIN poll'.rows : \A i : i = poll'.rows[k] =>
          WholeRow(i)' /\ 2 * i <= watch'.offset /\ told'[i] = 0
    BY <2>1
  <2> QED BY <1>9, <2>2, <2>3 DEF Polled, WholeRow
<1>19. ToldBehind'
  <2>1. ASSUME NEW i \in Mirror!Rows, told[i] = 1
        PROVE  WholeRow(i)' /\ ~InPoll(i)' /\ 2 * i <= watch'.offset
    <3>1. WholeRow(i) /\ 2 * i <= watch.offset
      BY <1>1, <2>1 DEF MirrorInv, ToldBehind
    <3> QED BY <1>9, <1>16, <1>17, <3>1 DEF WholeRow
  <2>2. \A i \in Mirror!Rows : told[i] <= 1
    BY DEF MirrorInv, ToldBehind
  <2>3. watch'.offset <= Mirror!FileSize'
    BY <1>2, <1>9, <1>12
  <2> QED BY <1>7, <2>1, <2>2, <2>3 DEF ToldBehind, Mirror!Rows
<1>20. Remembered'
  <2>1. ASSUME NEW j \in Nat, synced' = <<"row", j>>
        PROVE  /\ WholeRow(j)' /\ rollout'[j].kind = "answer" /\ ~InPoll(j)'
               /\ 2 * j <= watch'.offset
    <3>1. WholeRow(j) /\ rollout[j].kind = "answer" /\ 2 * j <= watch.offset
      BY <1>1, <1>7, <2>1 DEF MirrorInv, Remembered
    <3> QED BY <1>7, <1>9, <1>16, <1>17, <3>1 DEF WholeRow
  <2>2. \A x \in Texts : synced' = <<"text", x>> => \E j \in shown' : Answers(j, x)'
    BY <1>7 DEF MirrorInv, Remembered, Answers
  <2>3. \A j : Behind(j) => Behind(j)'
    <3>1. ASSUME NEW j, Behind(j)
          PROVE  Behind(j)'
      <4>1. WholeRow(j) /\ j \in Nat /\ j <= start
        BY <1>17, <3>1 DEF Behind
      <4>2. \A k \in DOMAIN poll'.rows : j < poll'.rows[k]
        BY <1>4, <1>14, <4>1
      <4> QED BY <1>9, <1>16, <4>1, <4>2 DEF Behind, WholeRow
    <3> QED BY <3>1
  <2>4. \A x \in Texts : watch'.on /\ watch'.final = <<x, "said">> =>
          \E j \in Mirror!Written' : Answers(j, x)' /\ (j \in shown' \/ Behind(j)')
    BY <1>1, <1>7, <1>9, <1>12, <2>3 DEF MirrorInv, Remembered, Answers
  <2> QED BY <2>1, <2>2, <2>4 DEF Remembered
<1>21. Passed'
  <2> SUFFICES ASSUME NEW i \in Mirror!Written, rollout[i].kind = "answer",
                      2 * i - 1 <= Mirror!FileSize, ~InPoll(i)'
               PROVE  Handled(i)'
    BY <1>7, <1>9, <1>12 DEF Passed
  <2>1. i \in Nat
    BY <1>2
  <2>2. Handled(i) => Handled(i)'
    BY <1>7 DEF Handled, Mirror!Repeats
  <2>3. CASE i <= start
    <3>1. 2 * i - 1 <= watch.offset
      BY <1>2, <1>4, <2>1, <2>3
    <3>2. ~InPoll(i)
      BY <1>1 DEF InPoll
    <3> QED BY <1>1, <2>2, <3>1, <3>2 DEF MirrorInv, Passed
  <2>4. CASE Mirror!Latest < i
    <3>1. Mirror!Latest + 1 <= i
      BY <1>2, <2>1, <2>4
    <3>2. 2 * Mirror!Latest + 1 <= 2 * i - 1
      BY <1>2, <2>1, <3>1
    <3>3. 2 * i - 1 = Mirror!FileSize
      BY <1>2, <2>1, <3>2
    <3> QED BY <1>7, <3>3 DEF Handled
  <2> QED BY <1>2, <1>4, <1>15, <2>1, <2>3, <2>4
<1> QED BY <1>13, <1>18, <1>19, <1>20, <1>21 DEF MirrorInv

\* The first of several rows, and what stays of them.
LEMMA FirstRow ==
  ASSUME NEW s \in Seq(Nat), s # <<>>, \A k, m \in DOMAIN s : k < m => s[k] < s[m]
  PROVE  /\ 1 \in DOMAIN s /\ Head(s) = s[1] /\ Tail(s) \in Seq(Nat)
         /\ \A k \in DOMAIN Tail(s) : k + 1 \in DOMAIN s /\ Tail(s)[k] = s[k + 1]
         /\ \A k \in DOMAIN Tail(s) : Head(s) < Tail(s)[k]
         /\ \A k, m \in DOMAIN Tail(s) : k < m => Tail(s)[k] < Tail(s)[m]
         /\ \A i : (\E k \in DOMAIN s : s[k] = i) =>
                     i = Head(s) \/ \E k \in DOMAIN Tail(s) : Tail(s)[k] = i
<1>1. /\ Len(s) \in Nat /\ Len(s) # 0 /\ DOMAIN s = 1 .. Len(s)
  OBVIOUS
<1>2. /\ Head(s) = s[1] /\ Tail(s) \in Seq(Nat) /\ Len(Tail(s)) = Len(s) - 1
      /\ \A k \in 1 .. Len(Tail(s)) : Tail(s)[k] = s[k + 1]
  BY HeadTailProperties
<1>3. DOMAIN Tail(s) = 1 .. Len(s) - 1
  BY <1>1, <1>2
<1>4. \A k \in DOMAIN Tail(s) : k \in Nat /\ k # 0 /\ k + 1 \in DOMAIN s /\ Tail(s)[k] = s[k + 1]
  BY <1>1, <1>2, <1>3
<1>5. 1 \in DOMAIN s
  BY <1>1
<1>6. \A k \in DOMAIN Tail(s) : Head(s) < Tail(s)[k]
  BY <1>2, <1>4, <1>5
<1>7. \A k, m \in DOMAIN Tail(s) : k < m => Tail(s)[k] < Tail(s)[m]
  BY <1>4
<1>8. ASSUME NEW k \in DOMAIN s
      PROVE  s[k] = Head(s) \/ \E m \in DOMAIN Tail(s) : Tail(s)[m] = s[k]
  <2>1. CASE k = 1
    BY <1>2, <2>1
  <2>2. CASE k # 1
    <3>1. k - 1 \in DOMAIN Tail(s) /\ (k - 1) + 1 = k
      BY <1>1, <1>3, <2>2
    <3> QED BY <1>4, <3>1
  <2> QED BY <2>1, <2>2
<1> QED BY <1>2, <1>4, <1>5, <1>6, <1>7, <1>8

\* The next row of a poll is applied.
LEMMA ApplyKeeps ==
  ASSUME MirrorInv, Mirror!Apply
  PROVE  MirrorInv'
<1>1. /\ MirrorTypes /\ poll.rows # <<>> /\ poll.rows \in Seq(Nat) /\ watch.on
      /\ watch \in WatchRec /\ poll.at = "apply" /\ poll \in PollRec
  BY DEF MirrorInv, MirrorTypes, Polled, PollRec, Mirror!Apply
<1>2. \A k, m \in DOMAIN poll.rows : k < m => poll.rows[k] < poll.rows[m]
  BY DEF MirrorInv, Polled
<1>3. PICK r : r = Mirror!Row
  OBVIOUS
<1>4. PICK s : s = Tail(poll.rows)
  OBVIOUS
<1>5. /\ 1 \in DOMAIN poll.rows /\ r = poll.rows[1] /\ s \in Seq(Nat)
      /\ \A k \in DOMAIN s : k + 1 \in DOMAIN poll.rows /\ s[k] = poll.rows[k + 1]
      /\ \A k \in DOMAIN s : r < s[k]
      /\ \A k, m \in DOMAIN s : k < m => s[k] < s[m]
      /\ \A i : InPoll(i) => i = r \/ \E k \in DOMAIN s : s[k] = i
  <2>1. poll.rows \in Seq(Nat) /\ poll.rows # <<>>
    BY <1>1
  <2>2. r = Head(poll.rows)
    BY <1>3 DEF Mirror!Row
  <2>3. \A i : InPoll(i) => i = Head(poll.rows) \/ \E k \in DOMAIN Tail(poll.rows) : Tail(poll.rows)[k] = i
    BY <1>2, <2>1, FirstRow DEF InPoll
  <2>4. /\ 1 \in DOMAIN poll.rows /\ Head(poll.rows) = poll.rows[1] /\ Tail(poll.rows) \in Seq(Nat)
        /\ \A k \in DOMAIN Tail(poll.rows) :
             k + 1 \in DOMAIN poll.rows /\ Tail(poll.rows)[k] = poll.rows[k + 1]
        /\ \A k \in DOMAIN Tail(poll.rows) : Head(poll.rows) < Tail(poll.rows)[k]
        /\ \A k, m \in DOMAIN Tail(poll.rows) : k < m => Tail(poll.rows)[k] < Tail(poll.rows)[m]
    BY <1>2, <2>1, FirstRow
  <2> QED BY <1>4, <2>2, <2>3, <2>4
<1>6. /\ WholeRow(r) /\ 2 * r <= watch.offset /\ told[r] = 0 /\ InPoll(r)
  BY <1>5 DEF MirrorInv, Polled, InPoll
<1>7. /\ r \in Mirror!Written /\ r \in Nat /\ r \in Mirror!Rows /\ Mirror!Rows \subseteq Nat
      /\ rollout[r] \in MirrorRow
  BY <1>1, <1>6, FileFacts DEF WholeRow
<1>8. PICK x : x = rollout[r].text
  OBVIOUS
<1>9. x \in Texts /\ Mirror!Said(r) = <<x, "said">> /\ (rollout[r].kind = "answer" => Answers(r, x))
  BY <1>7, <1>8 DEF MirrorRow, Answers, Mirror!Said
<1>10. /\ poll' \in PollRec /\ poll'.rows = s
       /\ poll'.at = "apply" <=> s # <<>>
  BY <1>1, <1>4, <1>5, IdleTypes DEF Mirror!Apply, PollRec, Mirror!Waits
<1>11. UNCHANGED <<rollout, half, shown, missed>>
  BY DEF Mirror!Apply
<1>12. told' = told \/ told' = [told EXCEPT ![r] = @ + 1]
  BY <1>3 DEF Mirror!Apply, Mirror!ApplyRemark, Mirror!ApplyAnswer, Mirror!Tells
<1>13. /\ watch'.on = watch.on /\ watch'.offset = watch.offset /\ watch' \in WatchRec
       /\ rollout[r].kind = "answer" => watch'.final = <<x, "said">>
       /\ rollout[r].kind # "answer" => watch'.final = watch.final
  <2>1. CASE Mirror!ApplyRemark
    <3>1. rollout[r].kind # "answer"
      BY <1>3, <2>1 DEF Mirror!ApplyRemark
    <3>2. \/ watch' = [watch EXCEPT !.remark = <<x, "said">>]
          \/ watch' = [watch EXCEPT !.started = TRUE, !.remark = <<x, "said">>]
      BY <1>3, <1>9, <2>1 DEF Mirror!ApplyRemark
    <3>3. <<x, "said">> \in Saying
      BY <1>9 DEF Saying
    <3>4. CASE watch' = [watch EXCEPT !.remark = <<x, "said">>]
      BY <1>1, <3>1, <3>3, <3>4 DEF WatchRec
    <3>5. CASE watch' = [watch EXCEPT !.started = TRUE, !.remark = <<x, "said">>]
      BY <1>1, <3>1, <3>3, <3>5 DEF WatchRec
    <3> QED BY <3>2, <3>4, <3>5
  <2>2. CASE Mirror!ApplyAnswer
    <3>1. rollout[r].kind = "answer"
      BY <1>3, <2>2 DEF Mirror!ApplyAnswer
    <3>2. PICK was : watch' = [watch EXCEPT !.started = ~was /\ ~(~was /\ watch.final # <<x, "said">>),
                                              !.final = <<x, "said">>]
      BY <1>3, <1>9, <2>2 DEF Mirror!ApplyAnswer
    <3>3. PICK st : st = (~was /\ ~(~was /\ watch.final # <<x, "said">>))
      OBVIOUS
    <3>4. st \in BOOLEAN
      BY <3>3
    <3>5. watch' = [watch EXCEPT !.started = st, !.final = <<x, "said">>]
      BY <3>2, <3>3
    <3> QED BY <1>1, <1>9, <3>1, <3>4, <3>5 DEF WatchRec, Saying
  <2> QED BY <2>1, <2>2 DEF Mirror!Apply
<1>14. /\ Mirror!Written' = Mirror!Written /\ Mirror!FileSize' = Mirror!FileSize
       /\ \A i : WholeRow(i)' <=> WholeRow(i)
       /\ \A i, y : Answers(i, y)' <=> Answers(i, y)
  BY <1>11 DEF Mirror!Written, Mirror!FileSize, WholeRow, Answers
<1>15. /\ \A i : InPoll(i)' => InPoll(i)
       /\ \A i : InPoll(i) => i = r \/ InPoll(i)'
       /\ ~InPoll(r)'
  <2>1. \A i : InPoll(i)' <=> \E k \in DOMAIN s : s[k] = i
    BY <1>10 DEF InPoll
  <2>2. \A k \in DOMAIN s : s[k] # r
    <3>1. \A k \in DOMAIN s : s[k] \in Nat /\ r < s[k]
      BY <1>5
    <3> QED BY <1>7, <3>1
  <2>3. ASSUME NEW i, InPoll(i)'
        PROVE  InPoll(i)
    <3>1. PICK k \in DOMAIN s : s[k] = i
      BY <2>1, <2>3
    <3>2. k + 1 \in DOMAIN poll.rows /\ poll.rows[k + 1] = i
      BY <1>5, <3>1
    <3> QED BY <3>2 DEF InPoll
  <2> QED BY <1>5, <2>1, <2>2, <2>3
<1>16. \A i \in Mirror!Rows :
         /\ told'[i] \in Nat /\ told'[i] <= 1
         /\ i # r => told'[i] = told[i]
         /\ told[i] = 1 => told'[i] = 1
  <2>1. told \in [Mirror!Rows -> Nat] /\ \A i \in Mirror!Rows : told[i] <= 1
    BY <1>1 DEF MirrorInv, MirrorTypes, ToldBehind
  <2> QED BY <1>6, <1>7, <1>12, <2>1
<1>17. /\ synced' = synced \/ (synced' = <<"row", r>> /\ rollout[r].kind = "answer")
       /\ rollout[r].kind = "answer" =>
            \/ synced \in {<<"row", r>>, <<"text", x>>}
            \/ told'[r] = 1
            \/ watch.final = <<x, "said">>
  <2>1. CASE Mirror!ApplyRemark
    BY <1>3, <2>1 DEF Mirror!ApplyRemark
  <2>2. CASE Mirror!ApplyAnswer
    <3>1. told \in [Mirror!Rows -> Nat]
      BY <1>1 DEF MirrorTypes
    <3>2. rollout[r].kind = "answer" /\ (synced' = synced \/ synced' = <<"row", r>>)
      BY <1>3, <2>2 DEF Mirror!ApplyAnswer
    <3>3. ~(synced \in {<<"row", r>>, <<"text", x>>}) /\ watch.final # <<x, "said">> =>
            told' = [told EXCEPT ![r] = @ + 1]
      BY <1>3, <1>8, <1>9, <2>2 DEF Mirror!ApplyAnswer, Mirror!Tells
    <3>4. told' = [told EXCEPT ![r] = @ + 1] => told'[r] = 1
      BY <1>6, <1>7, <3>1
    <3> QED BY <3>2, <3>3, <3>4
  <2> QED BY <2>1, <2>2 DEF Mirror!Apply
<1>18. MirrorTypes'
  <2>1. told' \in [Mirror!Rows -> Nat]
    BY <1>1, <1>7, <1>12 DEF MirrorTypes
  <2>2. synced' \in {<<>>} \cup ({"row"} \X Nat) \cup ({"text"} \X Texts)
    BY <1>1, <1>7, <1>17 DEF MirrorTypes
  <2>3. ~watch'.on => watch'.offset = 0
    BY <1>1, <1>13
  <2> QED BY <1>1, <1>10, <1>11, <1>13, <1>14, <2>1, <2>2, <2>3 DEF MirrorTypes, Mirror!Rows
<1>19. \A k \in DOMAIN s : s[k] \in Nat /\ InPoll(s[k]) /\ s[k] # r
  <2>1. \A k \in DOMAIN s : s[k] \in Nat /\ r < s[k]
    BY <1>5
  <2>2. \A k \in DOMAIN s : InPoll(s[k])
    BY <1>5 DEF InPoll
  <2> QED BY <1>7, <2>1, <2>2
<1>20. Polled'
  <2>1. \A k \in DOMAIN s :
          WholeRow(s[k]) /\ 2 * s[k] <= watch.offset /\ told[s[k]] = 0
    BY <1>5 DEF MirrorInv, Polled
  <2>2. \A k \in DOMAIN s : s[k] \in Mirror!Rows
    BY <1>1, <2>1, FileFacts DEF WholeRow
  <2>3. \A k \in DOMAIN s : told'[s[k]] = 0
    BY <1>16, <1>19, <2>1, <2>2
  <2> QED BY <1>1, <1>5, <1>10, <1>13, <1>14, <2>1, <2>3 DEF Polled, WholeRow
<1>21. ToldBehind'
  <2>1. watch'.offset <= Mirror!FileSize'
    BY <1>1, <1>13, <1>14 DEF MirrorInv, ToldBehind
  <2>2. ASSUME NEW i \in Mirror!Rows, told'[i] = 1
        PROVE  WholeRow(i)' /\ ~InPoll(i)' /\ 2 * i <= watch'.offset
    <3>1. CASE i = r
      BY <1>6, <1>13, <1>14, <1>15, <3>1
    <3>2. CASE i # r
      <4>1. told[i] = 1
        BY <1>16, <2>2, <3>2
      <4> QED BY <1>1, <1>13, <1>14, <1>15, <4>1 DEF MirrorInv, ToldBehind
    <3> QED BY <3>1, <3>2
  <2> QED BY <1>16, <2>1, <2>2 DEF ToldBehind, Mirror!Rows
<1>22. \A j : Behind(j) => Behind(j)' /\ j < r
  BY <1>1, <1>5, <1>10, <1>13, <1>14 DEF Behind
<1>23. Remembered'
  <2>1. ASSUME NEW j \in Nat, synced' = <<"row", j>>
        PROVE  /\ WholeRow(j)' /\ rollout'[j].kind = "answer" /\ ~InPoll(j)'
               /\ 2 * j <= watch'.offset
    <3>1. CASE synced' = synced
      <4>1. WholeRow(j) /\ rollout[j].kind = "answer" /\ ~InPoll(j) /\ 2 * j <= watch.offset
        BY <1>1, <2>1, <3>1 DEF MirrorInv, Remembered
      <4> QED BY <1>11, <1>13, <1>14, <1>15, <4>1
    <3>2. CASE synced' = <<"row", r>> /\ rollout[r].kind = "answer"
      <4>1. j = r
        BY <2>1, <3>2
      <4> QED BY <1>6, <1>11, <1>13, <1>14, <1>15, <3>2, <4>1
    <3> QED BY <1>17, <3>1, <3>2
  <2>2. \A y \in Texts : synced' = <<"text", y>> => \E j \in shown' : Answers(j, y)'
    <3>1. \A y \in Texts : synced' = <<"text", y>> => synced = <<"text", y>>
      BY <1>17
    <3> QED BY <1>11, <1>14, <3>1 DEF MirrorInv, Remembered
  <2>3. ASSUME NEW y \in Texts, watch'.final = <<y, "said">>
        PROVE  \E j \in Mirror!Written' : Answers(j, y)' /\ (j \in shown' \/ Behind(j)')
    <3>1. CASE rollout[r].kind = "answer"
      <4>1. y = x /\ Answers(r, y)'
        BY <1>9, <1>13, <1>14, <2>3, <3>1
      <4>2. Behind(r)'
        BY <1>5, <1>6, <1>10, <1>13, <1>14 DEF Behind
      <4> QED BY <1>7, <1>14, <4>1, <4>2
    <3>2. CASE rollout[r].kind # "answer"
      <4>1. PICK j \in Mirror!Written : Answers(j, y) /\ (j \in shown \/ Behind(j))
        BY <1>1, <1>13, <2>3, <3>2 DEF MirrorInv, Remembered
      <4> QED BY <1>11, <1>14, <1>22, <4>1
    <3> QED BY <3>1, <3>2
  <2> QED BY <2>1, <2>2, <2>3 DEF Remembered
<1>24. Passed'
  <2> SUFFICES ASSUME NEW i \in Mirror!Written, rollout[i].kind = "answer",
                      2 * i - 1 <= watch.offset, ~InPoll(i)'
               PROVE  Handled(i)'
    BY <1>11, <1>13, <1>14 DEF Passed
  <2>1. i \in Mirror!Rows
    BY <1>1, FileFacts
  <2>2. Mirror!Repeats(i)' <=> Mirror!Repeats(i)
    BY <1>11 DEF Mirror!Repeats
  <2>3. CASE i # r
    <3>1. ~InPoll(i)
      BY <1>15, <2>3
    <3>2. Handled(i)
      BY <1>1, <3>1 DEF MirrorInv, Passed
    <3> QED BY <1>11, <1>16, <2>1, <2>2, <3>2 DEF Handled
  <2>4. CASE i = r
    <3>1. Answers(r, x)
      BY <1>9, <2>4
    <3>2. \A j : Answers(j, x) /\ (j \in shown \/ (j \in Nat /\ j # 0 /\ j < r)) =>
            r \in shown \/ Mirror!Repeats(r)
      <4>1. ASSUME NEW j, Answers(j, x), j \in shown \/ (j \in Nat /\ j # 0 /\ j < r)
            PROVE  r \in shown \/ Mirror!Repeats(r)
        <5>1. rollout[j] = rollout[r]
          BY <3>1, <4>1 DEF Answers
        <5>2. j \in shown /\ j # r => Mirror!Repeats(r)
          BY <5>1 DEF Mirror!Repeats
        <5>3. j \in Nat /\ j # 0 /\ j < r => j \in 1 .. r - 1
          BY <1>7
        <5>4. j \in 1 .. r - 1 => Mirror!Repeats(r)
          BY <5>1 DEF Mirror!Repeats
        <5> QED BY <4>1, <5>2, <5>3, <5>4
      <4> QED BY <4>1
    <3>3. CASE synced = <<"row", r>>
      BY <1>6, <1>7, <3>3 DEF MirrorInv, Remembered
    <3>4. CASE synced = <<"text", x>>
      <4>1. PICK j \in shown : Answers(j, x)
        BY <1>9, <3>4 DEF MirrorInv, Remembered
      <4> QED BY <1>11, <2>2, <2>4, <3>2, <4>1 DEF Handled
    <3>5. CASE told'[r] = 1
      BY <2>4, <3>5 DEF Handled
    <3>6. CASE watch.final = <<x, "said">>
      <4>1. PICK j \in Mirror!Written : Answers(j, x) /\ (j \in shown \/ Behind(j))
        BY <1>1, <1>9, <3>6 DEF MirrorInv, Remembered
      <4>2. j \in Nat /\ j # 0
        BY <1>1, FileFacts
      <4>3. Behind(j) => j < r
        BY <1>22
      <4> QED BY <1>11, <2>2, <2>4, <3>2, <4>1, <4>2, <4>3 DEF Handled
    <3> QED BY <1>17, <2>4, <3>3, <3>4, <3>5, <3>6
  <2> QED BY <2>3, <2>4
<1> QED BY <1>18, <1>20, <1>21, <1>23, <1>24 DEF MirrorInv

\* A step of the mirror keeps its invariant.
LEMMA MirrorStep ==
  ASSUME MirrorInv, Mirror!Next \/ UNCHANGED mirror
  PROVE  MirrorInv'
<1>1. ASSUME NEW k \in {"remark", "answer"}, NEW text \in Texts, NEW torn_ \in BOOLEAN,
             Mirror!Appends(k, text, torn_)
      PROVE  MirrorInv'
  BY <1>1, AppendsKeep
<1>2. ASSUME NEW i \in Mirror!Rows, Mirror!LiveAnswer(i)
      PROVE  MirrorInv'
  BY <1>2, LiveAnswerKeeps
<1>3. CASE Mirror!AppendRest \/ Mirror!LiveStart \/ Mirror!Stat \/ UNCHANGED mirror
  BY <1>3, QuietKeeps
<1>4. CASE Mirror!Expire \/ Mirror!Restart
  BY <1>4, UnwatchKeeps
<1>5. CASE Mirror!Watch
  BY <1>5, WatchKeeps
<1>6. CASE Mirror!Seed
  BY <1>6, SeedKeeps
<1>7. CASE Mirror!Read
  BY <1>7, ReadKeeps
<1>8. CASE Mirror!Apply
  BY <1>8, ApplyKeeps
<1> QED BY <1>1, <1>2, <1>3, <1>4, <1>5, <1>6, <1>7, <1>8 DEF Mirror!Next

\* The mirror starts with an empty file and no watch.
LEMMA MirrorStarts == ASSUME Mirror!Init PROVE MirrorInv
<1>1. /\ rollout = <<>> /\ half = FALSE /\ watch = Mirror!NoWatch /\ poll = Mirror!Waits
      /\ synced = <<>> /\ told = [i \in Mirror!Rows |-> 0] /\ shown = {}
  BY DEF Mirror!Init
<1>2. /\ ~watch.on /\ watch.offset = 0 /\ poll.rows = <<>> /\ poll.at = "idle"
  BY <1>1 DEF Mirror!NoWatch, Mirror!Waits
<1>3. Len(rollout) = 0 /\ rollout \in Seq(MirrorRow) /\ 0 <= MaxRows
  BY <1>1, DesktopAssumption
<1>4. \A i : ~InPoll(i)
  BY <1>2 DEF InPoll
<1>5. MirrorTypes
  BY <1>1, <1>2, <1>3, IdleTypes DEF MirrorTypes
<1>6. Polled /\ ToldBehind
  BY <1>1, <1>2 DEF Polled, ToldBehind
<1>7. Remembered
  BY <1>1, <1>2 DEF Remembered
<1>8. Passed
  BY <1>2 DEF Passed
<1> QED BY <1>5, <1>6, <1>7, <1>8 DEF MirrorInv

\* What the invariant says of rows that were told.
LEMMA MirrorTells == ASSUME MirrorInv PROVE RowsTold
<1> SUFFICES ASSUME NEW i \in Mirror!Written
             PROVE  /\ told[i] <= 1
                    /\ rollout[i].kind = "answer" /\ watch.on /\ poll = Mirror!Waits
                         /\ 2 * i <= watch.offset
                       => told[i] = 1 \/ i \in missed \/ Mirror!Repeats(i) \/ i \in shown
  BY DEF RowsTold, Mirror!RowsTold
<1>1. i \in Mirror!Rows /\ i \in Nat /\ watch.offset \in Nat
  BY FileFacts DEF MirrorInv
<1>2. poll = Mirror!Waits => ~InPoll(i)
  BY DEF InPoll, Mirror!Waits
<1>3. 2 * i <= watch.offset => 2 * i - 1 <= watch.offset
  BY <1>1
<1> QED BY <1>1, <1>2, <1>3 DEF MirrorInv, ToldBehind, Passed, Handled

\* Each row of a watched rollout is told once: never twice, however the file grows between
\* two steps of a poll and whatever sends and restarts come, and an answer the mirror has
\* gone past is not lost (sync_watched_thread_once).
THEOREM RowsAreTold == Spec => []RowsTold
<1>1. Init => MirrorInv
  BY PartsInit, MirrorStarts
<1>2. MirrorInv /\ [Next]_vars => MirrorInv'
  BY PartSteps, MirrorStep
<1>3. MirrorInv => RowsTold
  BY MirrorTells
<1> QED BY <1>1, <1>2, <1>3, PTL DEF Spec

-----------------------------------------------------------------------------
(* Accounts.                                                               *)

TaskRec == [kind : {"none", "complete", "refresh"},
            stage : {"none", "exchange", "import", "ask", "renew", "store", "again"},
            signIn : Nat, login : Store!Held \cup {<<>>}]

LoginTypes ==
  /\ listed \subseteq Accounts /\ detail \in [Accounts -> {0} \cup Store!Logins]
  /\ valid \subseteq Store!Held /\ auth \in Store!Held \cup {<<>>}
  /\ task \in [Tasks -> TaskRec] /\ minted \in Nat

\* The provider's next login differs from all that are about.
Bounded ==
  /\ \A a \in Accounts : detail[a] <= minted
  /\ \A x \in valid : x[2] <= minted
  /\ auth # <<>> => auth[2] <= minted
  /\ \A t \in Tasks : task[t].login # <<>> => task[t].login[2] <= minted

\* An action that is about to write a login is the only one that has it, and it is good.
InHand(t) == task[t].stage \in {"import", "store"}

InHands == \A t \in Tasks : InHand(t) =>
  /\ task[t].login \in valid /\ task[t].login # auth
  /\ detail[task[t].login[1]] # task[t].login[2]
  /\ \A u \in Tasks : task[u].login = task[t].login => u = t

\* LastLogin without the logins a sign-in is about to bring in, which may be dropped.
HasLogin(a, v) ==
  /\ <<a, v>> \in valid
  /\ \/ detail[a] = v
     \/ auth = <<a, v>>
     \/ \E t \in Tasks : task[t].login = <<a, v>> /\ task[t].stage = "store"

LastStored == \A a \in listed \ lost : \E v \in Store!Logins : HasLogin(a, v)

LoginInv == LoginTypes /\ Bounded /\ InHands /\ LastStored /\ Store!ListReadable

\* A sign-in that is over is not the pending one.
SignInInv == ended \subseteq 1 .. signIns /\ signIns \in Nat /\ pending \in 0 .. signIns /\ pending \notin ended

\* A login is an account and a number.
LEMMA HeldFacts ==
  /\ Store!Logins \subseteq Nat \ {0}
  /\ <<>> \notin Store!Held
  /\ \A x \in Store!Held : x = <<x[1], x[2]>> /\ x[1] \in Accounts /\ x[2] \in Store!Logins
  /\ \A a \in Accounts, v \in Store!Logins : <<a, v>> \in Store!Held
<1>1. MaxMinted \in Nat
  BY DesktopAssumption
<1> QED BY <1>1 DEF Store!Held, Store!Logins

\* An action that goes on without a new login, ends, or dies.
LEMMA TaskMoves ==
  ASSUME LoginInv, NEW t \in Tasks, NEW new \in TaskRec, new.stage \notin {"import", "store"},
         task' = [task EXCEPT ![t] = new],
         \/ new.login \in {<<>>, task[t].login}
         \/ \E a \in Accounts : detail[a] # 0 /\ new.login = <<a, detail[a]>>,
         UNCHANGED <<listed, detail, auth, valid, minted, torn>>, lost \subseteq lost',
         task[t].stage = "store" => task[t].login[1] \in lost'
  PROVE  LoginInv'
<1>1. LoginTypes /\ Bounded /\ InHands /\ LastStored /\ Store!ListReadable
  BY DEF LoginInv
<1>2. task \in [Tasks -> TaskRec] /\ minted \in Nat /\ valid \subseteq Store!Held
  BY <1>1 DEF LoginTypes
<1>3. /\ task'[t] = new /\ task' \in [Tasks -> TaskRec]
      /\ \A u \in Tasks : u # t => task'[u] = task[u]
  BY <1>2
<1>4. LoginTypes'
  BY <1>1, <1>3 DEF LoginTypes
<1>5. new.login # <<>> => new.login[2] <= minted
  BY <1>1 DEF Bounded
<1>6. Bounded'
  BY <1>1, <1>3, <1>5 DEF Bounded
<1>7. InHands'
  <2> SUFFICES ASSUME NEW u \in Tasks, InHand(u)'
               PROVE  /\ task'[u].login \in valid /\ task'[u].login # auth
                      /\ detail[task'[u].login[1]] # task'[u].login[2]
                      /\ \A w \in Tasks : task'[w].login = task'[u].login => w = u
    BY DEF InHands
  <2>1. u # t /\ task'[u] = task[u] /\ InHand(u)
    BY <1>3 DEF InHand
  <2>2. /\ task[u].login \in valid /\ task[u].login # auth
        /\ detail[task[u].login[1]] # task[u].login[2]
        /\ \A w \in Tasks : task[w].login = task[u].login => w = u
    BY <1>1, <2>1 DEF InHands
  <2>3. task[u].login # <<>>
    BY <1>2, <2>2, HeldFacts
  <2>4. new.login # task[u].login
    BY <2>1, <2>2, <2>3
  <2> QED BY <1>3, <2>1, <2>2, <2>4
<1>8. LastStored'
  <2> SUFFICES ASSUME NEW a \in listed \ lost
               PROVE  a \notin lost' => \E v \in Store!Logins : HasLogin(a, v)'
    BY DEF LastStored
  <2>1. PICK v \in Store!Logins : HasLogin(a, v)
    BY <1>1 DEF LastStored
  <2>2. a \notin lost' => \A u \in Tasks : task[u].login = <<a, v>> /\ task[u].stage = "store" => task'[u] = task[u]
    BY <1>3
  <2>3. a \notin lost' => HasLogin(a, v)'
    BY <2>1, <2>2 DEF HasLogin
  <2> QED BY <2>3
<1>9. Store!ListReadable'
  BY <1>1 DEF Store!ListReadable
<1> QED BY <1>4, <1>6, <1>7, <1>8, <1>9 DEF LoginInv

\* A new login that an action is about to write; it may have used up the one it had.
LEMMA LoginMade ==
  ASSUME LoginInv, NEW t \in Tasks, NEW rec \in TaskRec, NEW new \in Store!Held, NEW old,
         rec.login = new, rec.stage \in {"import", "store"},
         new[2] = minted + 1, minted' = minted + 1,
         task' = [task EXCEPT ![t] = rec], ~InHand(t),
         UNCHANGED <<listed, detail, auth, lost, torn>>,
         valid' = (valid \ {old}) \cup {new},
         old \in valid => old[1] = new[1] /\ rec.stage = "store" /\ old = task[t].login
  PROVE  LoginInv'
<1>1. LoginTypes /\ Bounded /\ InHands /\ LastStored /\ Store!ListReadable
  BY DEF LoginInv
<1>2. /\ task \in [Tasks -> TaskRec] /\ minted \in Nat /\ valid \subseteq Store!Held
      /\ auth \in Store!Held \cup {<<>>} /\ detail \in [Accounts -> {0} \cup Store!Logins]
  BY <1>1 DEF LoginTypes
<1>3. /\ task'[t] = rec /\ task' \in [Tasks -> TaskRec]
      /\ \A u \in Tasks : u # t => task'[u] = task[u]
  BY <1>2
<1>4. LoginTypes'
  BY <1>1, <1>2, <1>3 DEF LoginTypes
<1>5. /\ \A u \in Tasks : task[u].login \in Store!Held \cup {<<>>}
      /\ \A x \in Store!Held : x[2] \in Nat /\ x[1] \in Accounts
      /\ \A a \in Accounts : detail[a] \in Nat
  BY <1>2, HeldFacts DEF TaskRec
<1>6. Bounded'
  BY <1>1, <1>2, <1>3, <1>5, HeldFacts DEF Bounded
<1>7. /\ new # auth /\ detail[new[1]] # new[2]
      /\ \A u \in Tasks : task[u].login # new
  BY <1>1, <1>2, <1>5, HeldFacts DEF Bounded
<1>8. InHands'
  <2> SUFFICES ASSUME NEW u \in Tasks, InHand(u)'
               PROVE  /\ task'[u].login \in valid' /\ task'[u].login # auth
                      /\ detail[task'[u].login[1]] # task'[u].login[2]
                      /\ \A w \in Tasks : task'[w].login = task'[u].login => w = u
    BY DEF InHands
  <2>1. CASE u = t
    BY <1>3, <1>7, <2>1
  <2>2. CASE u # t
    <3>1. task'[u] = task[u] /\ InHand(u)
      BY <1>3, <2>2 DEF InHand
    <3>2. /\ task[u].login \in valid /\ task[u].login # auth
          /\ detail[task[u].login[1]] # task[u].login[2]
          /\ \A w \in Tasks : task[w].login = task[u].login => w = u
      BY <1>1, <3>1 DEF InHands
    <3> QED BY <1>3, <1>7, <2>2, <3>1, <3>2
  <2> QED BY <2>1, <2>2
<1>9. LastStored'
  <2> SUFFICES ASSUME NEW a \in listed \ lost
               PROVE  \E v \in Store!Logins : HasLogin(a, v)'
    BY DEF LastStored
  <2>1. PICK v \in Store!Logins : HasLogin(a, v)
    BY <1>1 DEF LastStored
  <2>2. CASE <<a, v>> = old
    <3>1. old \in valid /\ old[1] = a
      BY <2>1, <2>2 DEF HasLogin
    <3>2. new = <<a, new[2]>> /\ new[2] \in Store!Logins /\ rec.stage = "store"
      BY <3>1, HeldFacts
    <3>3. HasLogin(a, new[2])'
      BY <1>3, <3>2 DEF HasLogin
    <3> QED BY <3>2, <3>3
  <2>3. CASE <<a, v>> # old
    <3>1. \A u \in Tasks : task[u].stage = "store" => task'[u] = task[u]
      BY <1>3 DEF InHand
    <3>2. HasLogin(a, v)'
      BY <2>1, <2>3, <3>1 DEF HasLogin
    <3> QED BY <3>2
  <2> QED BY <2>2, <2>3
<1>10. Store!ListReadable'
  BY <1>1 DEF Store!ListReadable
<1> QED BY <1>4, <1>6, <1>8, <1>9, <1>10 DEF LoginInv

\* What Upsert leaves of the files, whether it works or not.
Upserted(a, v) ==
  \/ lost' = lost \cup {a} /\ UNCHANGED <<listed, detail, torn>>
  \/ detail' = [detail EXCEPT ![a] = v] /\ listed' = listed \cup {a} /\ UNCHANGED <<lost, torn>>
  \/ detail' = [detail EXCEPT ![a] = v] /\ lost' = lost \cup {a} /\ UNCHANGED <<listed, torn>>
  \/ listed' = listed \cup {a} /\ lost' = lost \cup {a} /\ torn' = TRUE /\ UNCHANGED detail

\* A login is written.
LEMMA UpsertKeeps ==
  ASSUME LoginInv, NEW a \in Accounts, NEW v \in Store!Logins, Upserted(a, v),
         valid' \in {valid, valid \cup {<<a, v>>}}, <<a, v>> \in valid',
         minted' \in Nat, minted <= minted', v <= minted',
         task' \in [Tasks -> TaskRec], UNCHANGED auth, auth # <<a, v>>,
         \A u \in Tasks : task'[u].login \in {<<>>, task[u].login},
         \A u \in Tasks : task'[u].stage \in {"import", "store"} => task'[u] = task[u] /\ task[u].login # <<a, v>>,
         \A u \in Tasks : task[u].stage = "store" => task'[u] = task[u] \/ task[u].login = <<a, v>>
  PROVE  LoginInv'
<1>1. LoginTypes /\ Bounded /\ InHands /\ LastStored /\ Store!ListReadable
  BY DEF LoginInv
<1>2. /\ task \in [Tasks -> TaskRec] /\ minted \in Nat /\ valid \subseteq Store!Held
      /\ listed \subseteq Accounts /\ detail \in [Accounts -> {0} \cup Store!Logins]
      /\ auth \in Store!Held \cup {<<>>}
  BY <1>1 DEF LoginTypes
<1>3. /\ detail' = detail \/ detail' = [detail EXCEPT ![a] = v]
      /\ listed' \in {listed, listed \cup {a}} /\ lost \subseteq lost'
      /\ a \notin lost' => detail' = [detail EXCEPT ![a] = v]
  BY DEF Upserted
<1>4. /\ detail' \in [Accounts -> {0} \cup Store!Logins] /\ listed' \subseteq Accounts
      /\ valid' \subseteq Store!Held
      /\ \A b \in Accounts : detail'[b] = detail[b] \/ (b = a /\ detail'[b] = v)
      /\ a \notin lost' => detail'[a] = v
  BY <1>2, <1>3, HeldFacts
<1>5. LoginTypes'
  BY <1>2, <1>4 DEF LoginTypes
<1>6. /\ \A x \in Store!Held : x[2] \in Nat /\ x[1] \in Accounts /\ x = <<x[1], x[2]>>
      /\ \A b \in Accounts : detail[b] \in Nat
      /\ \A u \in Tasks : task[u].login \in Store!Held \cup {<<>>}
      /\ v \in Nat /\ v # 0
  BY <1>2, HeldFacts DEF TaskRec
<1>7. Bounded'
  <2>1. \A b \in Accounts : detail'[b] <= minted'
    BY <1>1, <1>2, <1>4, <1>6 DEF Bounded
  <2>2. \A x \in valid' : x[2] <= minted'
    BY <1>1, <1>2, <1>6 DEF Bounded
  <2>3. auth' # <<>> => auth'[2] <= minted'
    BY <1>1, <1>2, <1>6 DEF Bounded
  <2>4. \A u \in Tasks : task'[u].login # <<>> => task'[u].login[2] <= minted'
    BY <1>1, <1>2, <1>6 DEF Bounded
  <2> QED BY <2>1, <2>2, <2>3, <2>4 DEF Bounded
<1>8. InHands'
  <2> SUFFICES ASSUME NEW u \in Tasks, InHand(u)'
               PROVE  /\ task'[u].login \in valid' /\ task'[u].login # auth
                      /\ detail'[task'[u].login[1]] # task'[u].login[2]
                      /\ \A w \in Tasks : task'[w].login = task'[u].login => w = u
    BY DEF InHands
  <2>1. task'[u] = task[u] /\ task[u].login # <<a, v>> /\ InHand(u)
    BY DEF InHand
  <2>2. /\ task[u].login \in valid /\ task[u].login # auth
        /\ detail[task[u].login[1]] # task[u].login[2]
        /\ \A w \in Tasks : task[w].login = task[u].login => w = u
    BY <1>1, <2>1 DEF InHands
  <2>3. task[u].login \in Store!Held /\ task[u].login # <<>>
    BY <1>2, <2>2, HeldFacts
  <2>4. detail'[task[u].login[1]] # task[u].login[2]
    BY <1>4, <1>6, <2>1, <2>2, <2>3
  <2> QED BY <2>1, <2>2, <2>3, <2>4
<1>9. LastStored'
  <2> SUFFICES ASSUME NEW b \in listed', b \notin lost'
               PROVE  \E w \in Store!Logins : HasLogin(b, w)'
    BY DEF LastStored
  <2>1. CASE b = a
    BY <1>4, <2>1 DEF HasLogin
  <2>2. CASE b # a
    <3>1. PICK w \in Store!Logins : HasLogin(b, w)
      BY <1>1, <1>3, <2>2 DEF LastStored
    <3>2. \A u \in Tasks : task[u].login = <<b, w>> /\ task[u].stage = "store" => task'[u] = task[u]
      BY <2>2
    <3>3. b \in Accounts /\ detail'[b] = detail[b]
      BY <1>2, <1>3, <1>4, <2>2
    <3>4. HasLogin(b, w)'
      BY <3>1, <3>2, <3>3 DEF HasLogin
    <3> QED BY <3>4
  <2> QED BY <2>1, <2>2
<1>10. Store!ListReadable'
  <2>1. \A b \in Accounts : detail[b] # 0 => detail'[b] # 0
    BY <1>4, <1>6
  <2> QED BY <1>1, <1>2, <1>4, <1>6, <2>1 DEF Store!ListReadable, Upserted
<1> QED BY <1>5, <1>7, <1>8, <1>9, <1>10 DEF LoginInv

\* A login that another program made is imported.
LEMMA ImportKeeps ==
  ASSUME LoginInv, NEW a \in Accounts, Store!Import(a)
  PROVE  LoginInv'
<1>1. PICK new \in Store!Held :
        /\ Store!Mints(a, new) /\ valid' = valid \cup {new}
        /\ Store!Upsert(a, new[2], TRUE, TRUE)
  BY DEF Store!Import
<1>2. UNCHANGED <<auth, task>>
  BY DEF Store!Import
<1>3. PICK v : v = new[2]
  OBVIOUS
<1>4. /\ new = <<a, v>> /\ v = minted + 1 /\ minted' = minted + 1 /\ v \in Store!Logins
  BY <1>1, <1>3, HeldFacts DEF Store!Mints
<1>5. Upserted(a, v)
  BY <1>1, <1>3 DEF Store!Upsert, Store!Throws, Store!Puts, Store!Lists, Store!files, Upserted
<1>6. LoginTypes /\ Bounded /\ minted \in Nat /\ task \in [Tasks -> TaskRec]
  BY DEF LoginInv, LoginTypes
<1>7. auth # <<a, v>> /\ \A u \in Tasks : task[u].login # <<a, v>>
  <2>1. <<a, v>> # <<>> /\ ~(v <= minted)
    BY <1>4, <1>6
  <2> QED BY <1>6, <2>1 DEF Bounded
<1>8. /\ valid' \in {valid, valid \cup {<<a, v>>}} /\ <<a, v>> \in valid'
      /\ minted' \in Nat /\ minted <= minted' /\ v <= minted'
  BY <1>1, <1>4, <1>6
<1>9. task' \in [Tasks -> TaskRec] /\ \A u \in Tasks : task'[u] = task[u]
  BY <1>2, <1>6
<1> QED BY <1>2, <1>4, <1>5, <1>7, <1>8, <1>9, UpsertKeeps

\* An action under way writes the login it holds, and ends or goes on with it.
LEMMA HandWrites ==
  ASSUME LoginInv, NEW t \in Tasks, InHand(t), NEW a, NEW v, task[t].login = <<a, v>>,
         Upserted(a, v), UNCHANGED <<auth, minted, valid>>,
         \/ task' = [task EXCEPT ![t] = Store!NoTask]
         \/ task' = [task EXCEPT ![t] = [task[t] EXCEPT !.stage = "again"]]
  PROVE  LoginInv'
<1>1. LoginTypes /\ Bounded /\ InHands
  BY DEF LoginInv
<1>2. /\ task \in [Tasks -> TaskRec] /\ minted \in Nat /\ valid \subseteq Store!Held
      /\ task[t] \in TaskRec
  BY <1>1 DEF LoginTypes
<1>3. /\ <<a, v>> \in valid /\ <<a, v>> # auth
      /\ \A u \in Tasks : task[u].login = <<a, v>> => u = t
  BY <1>1 DEF InHands
<1>4. a \in Accounts /\ v \in Store!Logins /\ v <= minted
  BY <1>1, <1>2, <1>3, HeldFacts DEF Bounded
<1>5. PICK new : task' = [task EXCEPT ![t] = new] /\ new \in {Store!NoTask, [task[t] EXCEPT !.stage = "again"]}
  OBVIOUS
<1>6. new \in TaskRec /\ new.stage \notin {"import", "store"} /\ new.login \in {<<>>, task[t].login}
  <2>1. CASE new = Store!NoTask
    BY <2>1 DEF TaskRec, Store!NoTask
  <2>2. CASE new = [task[t] EXCEPT !.stage = "again"]
    BY <1>2, <2>2 DEF TaskRec
  <2> QED BY <1>5, <2>1, <2>2
<1>7. /\ task'[t] = new /\ task' \in [Tasks -> TaskRec]
      /\ \A u \in Tasks : u # t => task'[u] = task[u]
  BY <1>2, <1>5, <1>6
<1>8. /\ \A u \in Tasks : task'[u].login \in {<<>>, task[u].login}
      /\ \A u \in Tasks : task'[u].stage \in {"import", "store"} => task'[u] = task[u] /\ task[u].login # <<a, v>>
      /\ \A u \in Tasks : task[u].stage = "store" => task'[u] = task[u] \/ task[u].login = <<a, v>>
  BY <1>3, <1>6, <1>7
<1>9. /\ valid' \in {valid, valid \cup {<<a, v>>}} /\ <<a, v>> \in valid'
      /\ minted' \in Nat /\ minted <= minted' /\ v <= minted' /\ auth # <<a, v>>
  BY <1>2, <1>3, <1>4
<1> QED BY <1>4, <1>7, <1>8, <1>9, UpsertKeeps

\* An action under way that has a login to write.
LEMMA HandHeld ==
  ASSUME LoginInv, NEW t \in Tasks
  PROVE  /\ task[t] \in TaskRec
         /\ InHand(t) => task[t].login = <<task[t].login[1], task[t].login[2]>>
<1>1. task[t] \in TaskRec
  BY DEF LoginInv, LoginTypes
<1>2. InHand(t) => task[t].login \in Store!Held
  BY DEF LoginInv, LoginTypes, InHands
<1> QED BY <1>1, <1>2, HeldFacts

\* A sign-in's account is brought in, if the sign-in is still the pending one.
LEMMA CompleteKeeps ==
  ASSUME LoginInv, NEW t \in Tasks, Store!Complete(t)
  PROVE  LoginInv'
<1>1. PICK a, v : a = task[t].login[1] /\ v = task[t].login[2]
  OBVIOUS
<1>2. /\ task' = [task EXCEPT ![t] = Store!NoTask] /\ UNCHANGED <<auth, minted, valid>>
      /\ task[t].stage = "import"
  BY DEF Store!Complete, Store!Done, Store!Becomes, Store!Stage
<1>3. \/ Upserted(a, v)
      \/ UNCHANGED <<listed, detail, lost, torn>>
  BY <1>1 DEF Store!Complete, Store!Upsert, Store!Throws, Store!Puts, Store!Lists, Store!files, Upserted
<1>4. CASE Upserted(a, v)
  BY <1>1, <1>2, <1>4, HandHeld, HandWrites DEF InHand
<1>5. CASE UNCHANGED <<listed, detail, lost, torn>>
  <2>1. Store!NoTask \in TaskRec /\ Store!NoTask.stage = "none" /\ Store!NoTask.login = <<>>
    BY DEF Store!NoTask, TaskRec
  <2> QED BY <1>2, <1>5, <2>1, TaskMoves
<1> QED BY <1>3, <1>4, <1>5

\* A renewed login is kept.
LEMMA StoreKeeps ==
  ASSUME LoginInv, NEW t \in Tasks, Store!Store(t)
  PROVE  LoginInv'
<1>1. PICK a, v : a = task[t].login[1] /\ v = task[t].login[2]
  OBVIOUS
<1>2. UNCHANGED <<auth, minted, valid>> /\ task[t].stage = "store"
  BY DEF Store!Store, Store!Stage
<1>3. /\ Upserted(a, v)
      /\ \/ task' = [task EXCEPT ![t] = Store!NoTask]
         \/ task' = [task EXCEPT ![t] = [task[t] EXCEPT !.stage = "again"]]
  BY <1>1 DEF Store!Store, Store!Upsert, Store!Throws, Store!Puts, Store!Lists, Store!files, Upserted,
     Store!Done, Store!Becomes
<1> QED BY <1>1, <1>2, <1>3, HandHeld, HandWrites DEF InHand

\* An action begins, asks, fails or dies.
LEMMA TaskGoesOn ==
  ASSUME LoginInv, NEW t \in Tasks,
         \/ Store!Callback(t) /\ SignInInv
         \/ \E a \in Accounts : Store!Refresh(t, a)
         \/ Store!Ask(t) \/ Store!Crash(t)
         \/ (Store!Exchange(t) \/ Store!Renew(t)) /\ Store!Done(t) /\ UNCHANGED <<minted, valid>>
  PROVE  LoginInv'
<1>1. task[t] \in TaskRec
  BY HandHeld
<1>2. /\ UNCHANGED <<listed, detail, auth, valid, minted, torn>> /\ lost \subseteq lost'
      /\ task[t].stage = "store" => task[t].login[1] \in lost'
  <2>1. CASE Store!Callback(t) \/ \E a \in Accounts : Store!Refresh(t, a)
    <3>1. /\ UNCHANGED <<listed, detail, auth, valid, minted, torn, lost>>
          /\ task[t] = Store!NoTask
      BY <2>1 DEF Store!Callback, Store!Refresh, Store!files
    <3>2. task[t].stage = "none"
      BY <3>1 DEF Store!NoTask
    <3> QED BY <3>1, <3>2
  <2>2. CASE Store!Ask(t)
    BY <2>2 DEF Store!Ask, Store!Stage, Store!files
  <2>3. CASE Store!Crash(t)
    BY <2>3 DEF Store!Crash, Store!files, Store!Throws
  <2>4. CASE (Store!Exchange(t) \/ Store!Renew(t)) /\ UNCHANGED <<minted, valid>>
    BY <2>4 DEF Store!Exchange, Store!Renew, Store!Stage, Store!files
  <2> QED BY <2>1, <2>2, <2>3, <2>4
<1>3. Store!NoTask \in TaskRec /\ Store!NoTask.stage = "none" /\ Store!NoTask.login = <<>>
  BY DEF Store!NoTask, TaskRec
<1>4. ASSUME NEW new \in TaskRec, new.stage \notin {"import", "store"},
             task' = [task EXCEPT ![t] = new],
             \/ new.login \in {<<>>, task[t].login}
             \/ \E a \in Accounts : detail[a] # 0 /\ new.login = <<a, detail[a]>>
      PROVE  LoginInv'
  BY <1>2, <1>4, TaskMoves
<1>5. CASE Store!Done(t)
  BY <1>3, <1>4, <1>5 DEF Store!Done, Store!Becomes
<1>6. CASE Store!Callback(t) /\ SignInInv
  <2>1. PICK new : new = [Store!NoTask EXCEPT !.kind = "complete", !.stage = "exchange", !.signIn = pending]
    OBVIOUS
  <2>2. task' = [task EXCEPT ![t] = new]
    BY <1>6, <2>1 DEF Store!Callback, Store!Becomes
  <2>3. new = [kind |-> "complete", stage |-> "exchange", signIn |-> pending, login |-> <<>>]
    BY <2>1 DEF Store!NoTask
  <2>4. pending \in Nat
    BY <1>6 DEF SignInInv
  <2>5. new \in TaskRec /\ new.stage = "exchange" /\ new.login = <<>>
    BY <2>3, <2>4 DEF TaskRec
  <2> QED BY <1>4, <2>2, <2>5
<1>7. ASSUME NEW a \in Accounts, Store!Refresh(t, a)
      PROVE  LoginInv'
  <2>1. PICK new : new = [Store!NoTask EXCEPT !.kind = "refresh", !.stage = "ask", !.login = <<a, detail[a]>>]
    OBVIOUS
  <2>2. task' = [task EXCEPT ![t] = new] /\ detail[a] # 0
    BY <1>7, <2>1 DEF Store!Refresh, Store!Becomes
  <2>3. new = [kind |-> "refresh", stage |-> "ask", signIn |-> 0, login |-> <<a, detail[a]>>]
    BY <2>1 DEF Store!NoTask
  <2>4. <<a, detail[a]>> \in Store!Held
    <3>1. detail[a] \in Store!Logins
      BY <2>2 DEF LoginInv, LoginTypes
    <3> QED BY <3>1, HeldFacts
  <2>5. new \in TaskRec /\ new.stage = "ask" /\ new.login = <<a, detail[a]>>
    BY <2>3, <2>4 DEF TaskRec
  <2> QED BY <1>4, <2>2, <2>5
<1>8. CASE Store!Ask(t) /\ ~Store!Done(t)
  <2>1. PICK new : new = [task[t] EXCEPT !.stage = "renew"]
    OBVIOUS
  <2>2. task' = [task EXCEPT ![t] = new]
    BY <1>8, <2>1 DEF Store!Ask, Store!Becomes
  <2>3. new \in TaskRec /\ new.stage = "renew" /\ new.login = task[t].login
    BY <1>1, <2>1 DEF TaskRec
  <2> QED BY <1>4, <2>2, <2>3
<1>9. CASE Store!Crash(t)
  BY <1>5, <1>9 DEF Store!Crash
<1> QED BY <1>5, <1>6, <1>7, <1>8, <1>9

\* The provider hands out a login, for a code or for an old one.
LEMMA HandedOut ==
  ASSUME LoginInv, NEW t \in Tasks,
         Store!Exchange(t) \/ Store!Renew(t),
         ~(Store!Done(t) /\ UNCHANGED <<minted, valid>>)
  PROVE  LoginInv'
<1>1. task[t] \in TaskRec /\ valid \subseteq Store!Held
  BY HandHeld DEF LoginInv, LoginTypes
<1>2. CASE Store!Exchange(t)
  <2>1. PICK a \in Accounts, new \in Store!Held :
          /\ new = <<a, minted + 1>> /\ minted' = minted + 1 /\ valid' = valid \cup {new}
          /\ task' = [task EXCEPT ![t] = [task[t] EXCEPT !.stage = "import", !.login = new]]
    BY <1>2 DEF Store!Exchange, Store!Mints, Store!Becomes
  <2>2. PICK rec : rec = [task[t] EXCEPT !.stage = "import", !.login = new]
    OBVIOUS
  <2>3. rec \in TaskRec /\ rec.stage = "import" /\ rec.login = new
    BY <1>1, <2>2 DEF TaskRec
  <2>4. task[t].stage = "exchange" /\ UNCHANGED <<listed, detail, auth, lost, torn>>
    BY <1>2 DEF Store!Exchange, Store!Stage, Store!files
  <2>5. valid' = (valid \ {<<>>}) \cup {new} /\ <<>> \notin valid
    BY <1>1, <2>1, HeldFacts
  <2>6. new[2] = minted + 1
    BY <2>1
  <2>7. task' = [task EXCEPT ![t] = rec] /\ ~InHand(t) /\ rec.stage \in {"import", "store"}
    BY <2>1, <2>2, <2>3, <2>4 DEF InHand
  <2> QED BY <2>1, <2>3, <2>4, <2>5, <2>6, <2>7, LoginMade
<1>3. CASE Store!Renew(t)
  <2>1. PICK new \in Store!Held :
          /\ Store!Renews(task[t].login, new)
          /\ task' = [task EXCEPT ![t] = [task[t] EXCEPT !.stage = "store", !.login = new]]
    BY <1>3 DEF Store!Renew, Store!Becomes, Store!AfterRenew
  <2>2. PICK old : old = task[t].login
    OBVIOUS
  <2>3. /\ old \in valid /\ new = <<old[1], minted + 1>> /\ minted' = minted + 1
        /\ valid' = (valid \ {old}) \cup {new}
    BY <2>1, <2>2 DEF Store!Renews, Store!Mints
  <2>4. PICK rec : rec = [task[t] EXCEPT !.stage = "store", !.login = new]
    OBVIOUS
  <2>5. rec \in TaskRec /\ rec.stage = "store" /\ rec.login = new
    BY <1>1, <2>4 DEF TaskRec
  <2>6. task[t].stage = "renew" /\ UNCHANGED <<listed, detail, auth, lost, torn>>
    BY <1>3 DEF Store!Renew, Store!Stage, Store!files
  <2>7. new[2] = minted + 1 /\ old[1] = new[1]
    BY <2>3
  <2>8. task' = [task EXCEPT ![t] = rec] /\ ~InHand(t) /\ rec.stage \in {"import", "store"}
    BY <2>1, <2>4, <2>5, <2>6 DEF InHand
  <2> QED BY <2>2, <2>3, <2>5, <2>6, <2>7, <2>8, LoginMade
<1> QED BY <1>2, <1>3

\* An account is applied to codex.
LEMMA ApplyLoginKeeps ==
  ASSUME LoginInv, NEW a \in Accounts, Store!Apply(a)
  PROVE  LoginInv'
<1>1. LoginTypes /\ Bounded /\ InHands /\ LastStored /\ Store!ListReadable
  BY DEF LoginInv
<1>2. /\ detail[a] # 0 /\ UNCHANGED <<listed, detail, task, minted, valid, torn>>
      /\ \/ /\ auth' = <<a, detail[a]>>
            /\ IF Store!RenewedByCodex THEN lost' = lost \cup {auth[1]} ELSE UNCHANGED lost
         \/ UNCHANGED <<auth, lost>>
  BY DEF Store!Apply, Store!files, Store!Throws
<1>3. <<a, detail[a]>> \in Store!Held /\ detail[a] <= minted
  <2>1. detail[a] \in Store!Logins
    BY <1>1, <1>2 DEF LoginTypes
  <2> QED BY <1>1, <2>1, HeldFacts DEF Bounded
<1>4. auth' \in {auth, <<a, detail[a]>>} /\ lost \subseteq lost'
  BY <1>2
<1>5. LoginTypes' /\ Bounded' /\ Store!ListReadable'
  <2>1. LoginTypes'
    BY <1>1, <1>2, <1>3, <1>4 DEF LoginTypes
  <2>2. <<a, detail[a]>>[2] <= minted
    BY <1>3
  <2>3. auth' # <<>> => auth'[2] <= minted
    BY <1>1, <1>4, <2>2 DEF Bounded
  <2>4. Bounded'
    BY <1>1, <1>2, <2>3 DEF Bounded
  <2> QED BY <1>1, <1>2, <2>1, <2>4 DEF Store!ListReadable
<1>6. InHands'
  <2>1. \A t \in Tasks : InHand(t) => task[t].login # <<a, detail[a]>>
    BY <1>1 DEF InHands
  <2> QED BY <1>1, <1>2, <1>4, <2>1 DEF InHands, InHand
<1>7. LastStored'
  <2> SUFFICES ASSUME NEW b \in listed \ lost, b \notin lost'
               PROVE  \E v \in Store!Logins : HasLogin(b, v)'
    BY <1>2, <1>4 DEF LastStored
  <2>1. PICK v \in Store!Logins : HasLogin(b, v)
    BY <1>1 DEF LastStored
  <2>2. CASE auth = <<b, v>> /\ auth' # auth
    <3>1. auth # <<>> /\ auth \in valid /\ auth[1] = b /\ auth[2] = v
      BY <2>1, <2>2 DEF HasLogin
    <3>2. ~Store!RenewedByCodex
      BY <1>2, <2>2, <3>1
    <3>3. detail[b] = v
      BY <3>1, <3>2 DEF Store!RenewedByCodex
    <3> QED BY <1>2, <2>1, <3>3 DEF HasLogin
  <2>3. CASE ~(auth = <<b, v>> /\ auth' # auth)
    BY <1>2, <2>1, <2>3 DEF HasLogin
  <2> QED BY <2>2, <2>3
<1> QED BY <1>5, <1>6, <1>7 DEF LoginInv

\* Codex renews the login it has.
LEMMA CodexRenewsKeeps ==
  ASSUME LoginInv, Store!CodexRenews
  PROVE  LoginInv'
<1>1. LoginTypes /\ Bounded /\ InHands /\ LastStored /\ Store!ListReadable
  BY DEF LoginInv
<1>2. PICK new \in Store!Held : Store!Renews(auth, new) /\ auth' = new
  BY DEF Store!CodexRenews
<1>3. PICK old : old = auth
  OBVIOUS
<1>4. /\ old \in valid /\ new = <<old[1], minted + 1>> /\ minted' = minted + 1
      /\ valid' = (valid \ {old}) \cup {new} /\ auth' = new
      /\ UNCHANGED <<listed, detail, task, lost, torn>>
  BY <1>2, <1>3 DEF Store!CodexRenews, Store!Renews, Store!Mints, Store!files
<1>5. /\ task \in [Tasks -> TaskRec] /\ minted \in Nat /\ valid \subseteq Store!Held
      /\ \A u \in Tasks : task[u].login \in Store!Held \cup {<<>>}
      /\ \A x \in Store!Held : x[2] \in Nat /\ x[1] \in Accounts
      /\ \A a \in Accounts : detail[a] \in Nat
  BY <1>1, HeldFacts DEF LoginTypes, TaskRec
<1>6. new[2] = minted + 1 /\ new[1] = old[1] /\ new[2] \in Store!Logins /\ new = <<old[1], new[2]>>
  BY <1>4, HeldFacts
<1>7. LoginTypes'
  BY <1>1, <1>4, <1>5 DEF LoginTypes
<1>8. Bounded'
  BY <1>1, <1>4, <1>5, <1>6, HeldFacts DEF Bounded
<1>9. \A u \in Tasks : task[u].login # new
  BY <1>1, <1>5, <1>6, HeldFacts DEF Bounded
<1>10. InHands'
  BY <1>1, <1>3, <1>4, <1>9 DEF InHands, InHand
<1>11. LastStored'
  <2> SUFFICES ASSUME NEW a \in listed \ lost
               PROVE  \E v \in Store!Logins : HasLogin(a, v)'
    BY <1>4 DEF LastStored
  <2>1. PICK v \in Store!Logins : HasLogin(a, v)
    BY <1>1 DEF LastStored
  <2>2. CASE <<a, v>> = old
    <3>1. HasLogin(a, new[2])'
      BY <1>4, <1>6, <2>2 DEF HasLogin
    <3> QED BY <1>6, <3>1
  <2>3. CASE <<a, v>> # old
    BY <1>3, <1>4, <2>1, <2>3 DEF HasLogin
  <2> QED BY <2>2, <2>3
<1>12. Store!ListReadable'
  BY <1>1, <1>4 DEF Store!ListReadable
<1> QED BY <1>7, <1>8, <1>10, <1>11, <1>12 DEF LoginInv

\* A step of the account feature keeps the logins.
LEMMA LoginStep ==
  ASSUME LoginInv, SignInInv, Store!Next \/ UNCHANGED accounts
  PROVE  LoginInv'
<1>1. ASSUME NEW a \in Accounts, Store!Import(a) \/ Store!Apply(a)
      PROVE  LoginInv'
  BY <1>1, ImportKeeps, ApplyLoginKeeps
<1>2. ASSUME NEW t \in Tasks,
             \/ Store!Callback(t) \/ Store!Exchange(t) \/ Store!Complete(t)
             \/ \E a \in Accounts : Store!Refresh(t, a)
             \/ Store!Ask(t) \/ Store!Renew(t) \/ Store!Store(t) \/ Store!Crash(t)
      PROVE  LoginInv'
  BY <1>2, TaskGoesOn, HandedOut, CompleteKeeps, StoreKeeps
<1>3. CASE Store!Start \/ Store!Cancel \/ UNCHANGED accounts
  <2>1. UNCHANGED <<listed, detail, auth, task, minted, valid, lost, torn>>
    BY <1>3 DEF Store!Start, Store!Cancel, Store!files, accounts
  <2> QED BY <2>1 DEF LoginInv, LoginTypes, Bounded, InHands, InHand, LastStored, HasLogin, Store!ListReadable
<1>4. CASE Store!CodexRenews
  BY <1>4, CodexRenewsKeeps
<1> QED BY <1>1, <1>2, <1>3, <1>4 DEF Store!Next

\* A step keeps the sign-ins, and what it brings in is not over.
LEMMA SignInStep ==
  ASSUME SignInInv, Store!Next \/ UNCHANGED accounts
  PROVE  SignInInv' /\ \A i \in brought' \ brought : i \notin ended
<1>1. CASE Store!Start
  <2>1. /\ signIns' = signIns + 1 /\ pending' = signIns + 1
        /\ ended' = ended \cup ({pending} \ {0}) /\ brought' = brought
    BY <1>1 DEF Store!Start
  <2> QED BY <2>1 DEF SignInInv
<1>2. CASE Store!Cancel
  <2>1. /\ pending # 0 /\ pending' = 0 /\ ended' = ended \cup {pending}
        /\ signIns' = signIns /\ brought' = brought
    BY <1>2 DEF Store!Cancel, Store!Drops
  <2> QED BY <2>1 DEF SignInInv
<1>3. ASSUME NEW t \in Tasks, Store!Complete(t)
      PROVE  SignInInv' /\ \A i \in brought' \ brought : i \notin ended
  <2>1. PICK j : j = task[t].signIn
    OBVIOUS
  <2>2. /\ signIns' = signIns /\ ended' = ended
        /\ pending' \in {0, pending}
        /\ brought' = brought \/ (pending = j /\ brought' = brought \cup {j})
    BY <1>3, <2>1 DEF Store!Complete, Store!Upsert, Store!StillPending
  <2> QED BY <2>2 DEF SignInInv
<1>4. CASE \/ UNCHANGED accounts \/ Store!CodexRenews
           \/ \E a \in Accounts : Store!Import(a) \/ Store!Apply(a)
           \/ \E t \in Tasks :
                \/ Store!Callback(t) \/ Store!Exchange(t)
                \/ \E a \in Accounts : Store!Refresh(t, a)
                \/ Store!Ask(t) \/ Store!Renew(t) \/ Store!Store(t) \/ Store!Crash(t)
  <2>1. UNCHANGED <<signIns, pending, ended, brought>>
    BY <1>4 DEF accounts, Store!CodexRenews, Store!Import, Store!Apply, Store!Callback, Store!Exchange,
       Store!Refresh, Store!Ask, Store!Renew, Store!Store, Store!Crash, Store!oauth
  <2> QED BY <2>1 DEF SignInInv
<1> QED BY <1>1, <1>2, <1>3, <1>4 DEF Store!Next

\* The account feature starts without accounts.
LEMMA LoginStarts == ASSUME Store!Init PROVE LoginInv /\ SignInInv
<1>1. Store!NoTask \in TaskRec /\ Store!NoTask.stage = "none" /\ Store!NoTask.login = <<>>
  BY DEF Store!NoTask, TaskRec
<1>2. LoginTypes
  BY <1>1 DEF Store!Init, LoginTypes
<1>3. Bounded /\ InHands
  BY <1>1 DEF Store!Init, Bounded, InHands, InHand
<1> QED BY <1>2, <1>3 DEF Store!Init, LoginInv, LastStored, Store!ListReadable, SignInInv

\* What the invariant says of the logins kept.
LEMMA LoginsKept == ASSUME LoginInv PROVE Store!LoginKept
<1>1. Store!LastLogin
  BY DEF LoginInv, LastStored, HasLogin, Store!LastLogin
<1> QED BY <1>1 DEF LoginInv, Store!LoginKept

\* An account listed keeps its file and the login it was last given, wherever an action fails,
\* dies or crosses another between two requests; and a sign-in that was cancelled, or replaced
\* by another, brings no account in (accounts.py, oauth.complete, accounts.refresh).
THEOREM LoginsAreRight == Spec => LoginsRight
<1>1. Init => LoginInv /\ SignInInv
  BY PartsInit, LoginStarts
<1>2. LoginInv /\ SignInInv /\ [Next]_vars => LoginInv' /\ SignInInv'
  BY PartSteps, LoginStep, SignInStep
<1>3. LoginInv => Store!LoginKept
  BY LoginsKept
<1>4. SignInInv /\ [Next]_vars => [\A i \in brought' \ brought : i \notin ended]_Store!vars
  BY PartSteps, SignInStep
<1> QED BY <1>1, <1>2, <1>3, <1>4, PTL DEF Spec, LoginsRight, Store!CancelledStaysOut

-----------------------------------------------------------------------------
(* SessionAssets.                                                          *)

ManifestFun == [Assets!Packages -> Assets!Manifests]
FilesFun    == [Assets!Packages -> SUBSET Sessions]
StoreFun    == UNION {[there -> SUBSET Sessions] : there \in SUBSET Assets!Stores}
FoundRec    == [home : SUBSET Sessions, index : SUBSET Sessions, manifest : ManifestFun,
                files : FilesFun, repaired : SUBSET Sessions, rows : StoreFun]
OpRec       == [kind : Assets!Kinds, stage : Assets!Stages \cup Assets!Backs, todo : SUBSET Sessions,
                at : [Sessions -> Nat], done : SUBSET Sessions, entries : SUBSET Sessions,
                written : SUBSET Nat, then : FoundRec, store : Assets!Stores \cup {0},
                beside : SUBSET Sessions]

AssetTypes ==
  /\ home \in SUBSET Sessions /\ index \in SUBSET Sessions /\ known \in SUBSET Sessions
  /\ repaired \in SUBSET Sessions
  /\ stored \in StoreFun /\ rows \in StoreFun /\ DOMAIN rows = DOMAIN stored
  /\ manifest \in ManifestFun /\ files \in FilesFun
  /\ made \in 0 .. MaxPackages /\ scarred \in BOOLEAN
  /\ op = Assets!Idle \/ op \in OpRec

\* A package holds the session and names it.
PackedIn(s, m, f) == \E p \in Assets!Packages : s \in f[p] /\ m[p][s] # "out"

AllSafe == \A s \in known : s \in home \/ PackedIn(s, manifest, files)

\* The packages that are not made yet are empty.
FreshIn(m, f) == \A p \in Assets!Packages : p > made => m[p] = Assets!NoManifest /\ f[p] = {}

\* What an action under way has done to the home, beside what codex wrote there.
HomeKept ==
  /\ op.then.home \subseteq home \cup op.done
  /\ op.kind # "trash" => op.then.home \subseteq home
  /\ op.kind = "trash" => op.todo \cup op.done \subseteq op.then.home
  /\ op.kind = "repair" => op.done \subseteq op.then.home \cup op.beside
  /\ op.kind \in {"restore", "import"} => op.done \subseteq home /\ (op.todo \cup op.done) \cap op.then.home = {}
  /\ op.kind = "import" => (op.todo \cup op.done) \cap op.beside = {}

HomeGrown ==
  LET extra == home \ (op.then.home \cup op.done \cup op.beside) IN
  /\ op.kind # "import" \/ op.stage \notin Assets!Backs => extra = {}
  /\ \A x, y \in extra : x = y

\* Which action takes back what.
Backwards ==
  /\ op.stage \in {"remanifest", "reindex", "remove"} => op.done = {} /\ op.kind # "repair"
  /\ op.stage = "remanifest" => op.kind = "restore"
  /\ op.stage = "remove" => op.kind = "trash"
  /\ op.kind = "trash" => op.stage \in {"manifest", "move", "index"} \cup Assets!Backs
  /\ op.stage = "index" => op.kind # "repair" /\ op.todo = {}

\* What it has done to the packages.
TrashPack ==
  /\ made \in Assets!Packages
  /\ op.then.manifest[made] = Assets!NoManifest /\ op.then.files[made] = {}
  /\ \A p \in Assets!Packages : p # made => manifest[p] = op.then.manifest[p] /\ files[p] = op.then.files[p]
  /\ files[made] = op.done
  /\ op.stage \in {"move", "index"} => \A s \in op.todo \cup op.done : manifest[made][s] # "out"
  /\ op.stage = "manifest" => op.done = {}

RestorePack ==
  /\ \A p \in Assets!Packages, s \in Sessions :
       s \in files[p] <=> s \in op.then.files[p] /\ ~(s \in op.done /\ op.at[s] = p)
  /\ \A s \in op.todo \cup op.done :
       /\ op.at[s] \in Assets!Packages /\ op.at[s] <= made
       /\ s \in op.then.files[op.at[s]] /\ op.then.manifest[op.at[s]][s] # "out"
  /\ op.stage \notin Assets!Backs =>
       /\ \A p \in Assets!Packages, s \in Sessions :
            manifest[p][s] = op.then.manifest[p][s] \/ (op.at[s] = p /\ s \in op.done)
       /\ \A s \in Sessions : op.at[s] # 0 => s \in op.todo \cup op.done
  /\ op.stage = "manifests" => op.todo = {}
  /\ op.stage = "reindex" => manifest = op.then.manifest
  /\ FreshIn(op.then.manifest, op.then.files)

Packs ==
  /\ op.kind = "trash" => TrashPack
  /\ op.kind = "restore" => RestorePack
  /\ op.kind \in {"import", "repair"} => manifest = op.then.manifest /\ files = op.then.files

\* And to the index, the rollouts and the rows: those of the databases before the one a repair
\* is at are all repaired, the others are as they were found but for what it is doing.
IndexKept == op.kind = "repair" \/ op.stage = "remove" => index \ op.beside = op.then.index \ op.beside

Covered(s, st, n, h) == s \in h /\ \E d \in DOMAIN st : d < n /\ s \in st[d]

RowsAre(rw, st, n, was, by) ==
  /\ DOMAIN rw = DOMAIN st /\ DOMAIN was = DOMAIN st
  /\ \A d \in DOMAIN st, s \in Sessions \ by : s \in rw[d] <=> s \in (IF d < n THEN st[d] ELSE was[d])

RowsKept ==
  /\ IF op.kind = "repair" THEN op.store \in DOMAIN stored /\ op.done \subseteq stored[op.store] ELSE op.store = 0
  /\ RowsAre(rows, stored, op.store, op.then.rows, op.beside)
  /\ \A s \in Sessions \ op.beside :
       /\ op.kind # "repair" \/ s \notin op.done =>
            (s \in repaired <=> s \in op.then.repaired \/ Covered(s, stored, op.store, op.then.home))
       /\ op.kind = "repair" /\ s \in op.done =>
            s \notin op.then.repaired /\ ~Covered(s, stored, op.store, op.then.home)

\* Each session that was here is where it was found, or written by codex since.
KnownFound ==
  ~scarred => \A s \in known : \/ s \in home /\ s \in op.beside
                               \/ s \in op.then.home
                               \/ PackedIn(s, op.then.manifest, op.then.files)

UnderWay == HomeKept /\ HomeGrown /\ Backwards /\ Packs /\ IndexKept /\ RowsKept /\ KnownFound

AssetsInv ==
  /\ AssetTypes /\ FreshIn(manifest, files)
  /\ op.kind = "none" /\ ~scarred => AllSafe
  /\ op.kind # "none" => UnderWay

\* No action, and what a new one starts from.
LEMMA IdleFields ==
  /\ Assets!Idle.kind = "none" /\ Assets!Idle.stage = "none" /\ Assets!Idle.then = <<>>
  /\ Assets!Idle.store = 0 /\ Assets!Idle.todo = {} /\ Assets!Idle.done = {} /\ Assets!Idle.beside = {}
BY DEF Assets!Idle

\* An action under way has its record.
LEMMA OpIs ==
  ASSUME AssetTypes
  PROVE  /\ op.kind # "none" => op \in OpRec /\ op.then \in FoundRec
         /\ op.kind = "none" => op = Assets!Idle
<1>1. op \in OpRec => op.kind # "none"
  BY DEF OpRec, Assets!Kinds
<1>2. op \in OpRec => op.then \in FoundRec
  BY DEF OpRec
<1> QED BY <1>1, <1>2, IdleFields DEF AssetTypes

\* While an action goes on, each session is somewhere.
LEMMA UnderWaySafe ==
  ASSUME AssetsInv, op.kind # "none", op.stage \notin Assets!Backs, ~scarred
  PROVE  AllSafe
<1>1. /\ AssetTypes /\ HomeKept /\ Packs /\ KnownFound /\ Backwards
      /\ op \in OpRec
  BY OpIs DEF AssetsInv, UnderWay
<1>2. op.kind \in {"trash", "restore", "import", "repair"} /\ op.stage \in Assets!Stages
  BY <1>1 DEF OpRec, Assets!Kinds
<1>3. ASSUME NEW s \in known, s \in op.then.home
      PROVE  s \in home \/ PackedIn(s, manifest, files)
  <2>1. CASE op.kind = "trash"
    <3>1. TrashPack /\ (s \in home \/ s \in op.done)
      BY <1>1, <1>3, <2>1 DEF HomeKept, Packs
    <3>2. op.stage \in {"manifest", "move", "index"}
      BY <1>1, <2>1 DEF Backwards
    <3> QED BY <3>1, <3>2 DEF TrashPack, PackedIn
  <2>2. CASE op.kind # "trash"
    BY <1>1, <1>3, <2>2 DEF HomeKept
  <2> QED BY <2>1, <2>2
<1>4. ASSUME NEW s \in known, PackedIn(s, op.then.manifest, op.then.files)
      PROVE  s \in home \/ PackedIn(s, manifest, files)
  <2>1. PICK p \in Assets!Packages : s \in op.then.files[p] /\ op.then.manifest[p][s] # "out"
    BY <1>4 DEF PackedIn
  <2>2. CASE op.kind = "trash"
    <3>1. TrashPack
      BY <1>1, <2>2 DEF Packs
    <3>2. p # made
      BY <2>1, <3>1 DEF TrashPack
    <3> QED BY <2>1, <3>1, <3>2 DEF TrashPack, PackedIn
  <2>3. CASE op.kind = "restore"
    <3>1. RestorePack /\ op.done \subseteq home /\ s \in Sessions
      BY <1>1, <2>3 DEF HomeKept, Packs, AssetTypes
    <3>2. CASE s \in op.done
      BY <3>1, <3>2
    <3>3. CASE s \notin op.done
      BY <2>1, <3>1, <3>3 DEF RestorePack, PackedIn
    <3> QED BY <3>2, <3>3
  <2>4. CASE op.kind \in {"import", "repair"}
    BY <1>1, <1>4, <2>4 DEF Packs
  <2> QED BY <1>2, <2>2, <2>3, <2>4
<1> QED BY <1>1, <1>3, <1>4 DEF KnownFound, AllSafe

\* An action that is over leaves the invariant to what is safe.
LEMMA Over ==
  ASSUME AssetsInv, op' = Assets!Idle,
         home' \in SUBSET Sessions, index' \in SUBSET Sessions, known' \in SUBSET Sessions,
         repaired' \in SUBSET Sessions,
         stored' \in StoreFun, rows' \in StoreFun, DOMAIN rows' = DOMAIN stored',
         manifest' \in ManifestFun, files' \in FilesFun, UNCHANGED made, scarred' \in BOOLEAN,
         FreshIn(manifest', files'), ~scarred' => AllSafe'
  PROVE  AssetsInv'
<1>1. op'.kind = "none"
  BY IdleFields
<1>2. made' \in 0 .. MaxPackages
  BY DEF AssetsInv, AssetTypes
<1>3. FreshIn(manifest, files)'
  BY DEF FreshIn
<1> QED BY <1>1, <1>2, <1>3 DEF AssetsInv, AssetTypes

\* The process dies.
LEMMA DiesKeeps ==
  ASSUME AssetsInv, Assets!Crash
  PROVE  AssetsInv'
<1>1. /\ op.kind # "none" /\ op' = Assets!Idle /\ scarred' = (scarred \/ op.stage \in Assets!Backs)
      /\ UNCHANGED <<home, index, manifest, files, made, repaired, stored, rows, known>>
  BY DEF Assets!Crash, Assets!assets
<1>2. AssetTypes /\ FreshIn(manifest, files)
  BY DEF AssetsInv
<1>3. scarred' \in BOOLEAN
  BY <1>1
<1>4. ~scarred' => AllSafe
  BY <1>1, UnderWaySafe
<1>5. ~scarred' => AllSafe'
  BY <1>1, <1>4 DEF AllSafe, PackedIn
<1> QED BY <1>1, <1>2, <1>3, <1>5, Over DEF AssetTypes, FreshIn

\* An action begins: what it found is what there is.
LEMMA BeginKeeps ==
  ASSUME AssetsInv, op.kind = "none", op'.kind # "none", op' \in OpRec, op'.then = Assets!Found,
         op'.done = {}, op'.beside = {},
         UNCHANGED <<home, index, manifest, files, repaired, stored, rows, known, scarred>>,
         made' \in 0 .. MaxPackages, made <= made',
         op'.kind = "trash" => op'.todo \subseteq home,
         op'.kind \in {"restore", "import"} => op'.todo \cap home = {},
         op'.stage \in {"manifest", "move", "index", "back"},
         IF op'.kind = "repair" THEN op'.store \in DOMAIN stored ELSE op'.store = 0,
         \A d \in DOMAIN stored : ~(d < op'.store),
         op'.stage = "index" => op'.kind # "repair" /\ op'.todo = {},
         op'.kind = "trash" => op'.stage = "manifest" /\ made' = made + 1 /\ made' \in Assets!Packages,
         op'.kind = "restore" =>
           /\ \A s \in op'.todo : /\ op'.at[s] \in Assets!Packages /\ op'.at[s] <= made
                                  /\ s \in files[op'.at[s]] /\ manifest[op'.at[s]][s] # "out"
           /\ op'.stage = "move" => \A s \in Sessions : op'.at[s] # 0 => s \in op'.todo
           /\ op'.stage \in {"move", "back"}
  PROVE  AssetsInv'
<1>1. /\ AssetTypes /\ FreshIn(manifest, files) /\ (~scarred => AllSafe) /\ made \in Nat
      /\ made' \in Nat /\ MaxPackages \in Nat
  BY DesktopAssumption DEF AssetsInv, AssetTypes
<1>2. /\ op'.then.home = home /\ op'.then.index = index /\ op'.then.manifest = manifest
      /\ op'.then.files = files /\ op'.then.repaired = repaired /\ op'.then.rows = rows
  BY DEF Assets!Found
<1>3. AssetTypes'
  BY <1>1 DEF AssetTypes
<1>4. FreshIn(manifest, files)'
  <2>1. \A p \in Assets!Packages : p > made' => p > made
    BY <1>1 DEF Assets!Packages
  <2> QED BY <1>1, <2>1 DEF FreshIn
<1>5. HomeKept' /\ HomeGrown'
  BY <1>2 DEF HomeKept, HomeGrown
<1>6. Backwards' /\ IndexKept'
  BY <1>2 DEF Backwards, IndexKept
<1>11. RowsKept'
  <2>1. RowsAre(rows, stored, op'.store, rows, {}) /\ \A s : ~Covered(s, stored, op'.store, home)
    BY <1>1 DEF RowsAre, Covered, AssetTypes
  <2> QED BY <1>2, <2>1 DEF RowsKept
<1>7. KnownFound'
  BY <1>1, <1>2 DEF KnownFound, AllSafe, PackedIn
<1>8. op'.kind = "trash" => TrashPack'
  <2>1. CASE op'.kind = "trash"
    <3>1. made' > made /\ made' \in Assets!Packages
      BY <1>1, <2>1
    <3>2. manifest[made'] = Assets!NoManifest /\ files[made'] = {}
      BY <1>1, <3>1 DEF FreshIn
    <3> QED BY <1>2, <2>1, <3>1, <3>2 DEF TrashPack
  <2> QED BY <2>1
<1>9. op'.kind = "restore" => RestorePack'
  <2>1. CASE op'.kind = "restore"
    <3>1. FreshIn(op.then.manifest, op.then.files)'
      BY <1>2, <1>4 DEF FreshIn
    <3>2. op'.stage \notin Assets!Backs => op'.stage = "move"
      BY <2>1 DEF Assets!Backs
    <3>3. \A s \in op'.todo \cup op'.done :
            /\ op'.at[s] \in Assets!Packages /\ op'.at[s] <= made'
            /\ s \in op'.then.files[op'.at[s]] /\ op'.then.manifest[op'.at[s]][s] # "out"
      <4>1. ASSUME NEW s \in op'.todo
            PROVE  op'.at[s] <= made'
        <5>1. op'.at[s] \in Nat /\ op'.at[s] <= made
          BY <2>1 DEF OpRec
        <5> QED BY <1>1, <5>1
      <4> QED BY <1>2, <2>1, <4>1
    <3>4. /\ \A p \in Assets!Packages, s \in Sessions :
               s \in files'[p] <=> s \in op'.then.files[p] /\ ~(s \in op'.done /\ op'.at[s] = p)
          /\ op'.stage \notin Assets!Backs =>
               /\ \A p \in Assets!Packages, s \in Sessions :
                    manifest'[p][s] = op'.then.manifest[p][s] \/ (op'.at[s] = p /\ s \in op'.done)
               /\ \A s \in Sessions : op'.at[s] # 0 => s \in op'.todo \cup op'.done
          /\ op'.stage = "manifests" => op'.todo = {}
          /\ op'.stage = "reindex" => manifest' = op'.then.manifest
      BY <1>2, <2>1, <3>2
    <3> QED BY <3>1, <3>3, <3>4 DEF RestorePack
  <2> QED BY <2>1
<1>10. Packs'
  BY <1>2, <1>8, <1>9 DEF Packs
<1> QED BY <1>3, <1>4, <1>5, <1>6, <1>7, <1>10, <1>11 DEF AssetsInv, UnderWay

\* The databases come in their order.
LEMMA StoresIn ==
  ASSUME AssetTypes
  PROVE  DOMAIN stored \subseteq Assets!Stores /\ \A d \in DOMAIN stored : d \in Nat /\ ~(d < 0)
<1>1. PICK there \in SUBSET Assets!Stores : stored \in [there -> SUBSET Sessions]
  BY DEF AssetTypes, StoreFun
<1>2. \A d \in Assets!Stores : d \in Nat /\ ~(d < 0)
  BY DEF Assets!Stores
<1> QED BY <1>1, <1>2

\* Sessions go into the trash, a package is brought in, the home is repaired.
LEMMA BeginsKeep ==
  ASSUME AssetsInv, NEW want \in SUBSET Sessions,
         Assets!Trash(want) \/ Assets!Import(want) \/ Assets!Repair
  PROVE  AssetsInv'
<1>1. AssetTypes /\ made \in Nat /\ made <= MaxPackages /\ MaxPackages \in Nat
  BY DesktopAssumption DEF AssetsInv, AssetTypes
<1>2. Assets!Found \in FoundRec
  BY <1>1 DEF Assets!Found, FoundRec, AssetTypes
<1>3. [s \in Sessions |-> 0] \in [Sessions -> Nat] /\ \A d \in DOMAIN stored : ~(d < 0)
  BY <1>1, StoresIn
<1>4. CASE Assets!Trash(want)
  <2>1. PICK td : td = want \cap home
    OBVIOUS
  <2>2. PICK at : at = [s \in Sessions |-> made + 1]
    OBVIOUS
  <2>3. op' = [kind |-> "trash", stage |-> "manifest", todo |-> td, at |-> at, done |-> {},
               entries |-> index \ td, written |-> {}, then |-> Assets!Found, store |-> 0, beside |-> {}]
    BY <1>4, <2>1, <2>2 DEF Assets!Trash, Assets!Begun, Assets!Idle, Assets!TrashStage
  <2>4. td \in SUBSET Sessions /\ index \ td \in SUBSET Sessions /\ at \in [Sessions -> Nat] /\ td \subseteq home
    BY <1>1, <2>1, <2>2 DEF AssetTypes
  <2>5. op' \in OpRec
    BY <1>2, <2>3, <2>4 DEF OpRec, Assets!Kinds, Assets!Stages
  <2>6. /\ op.kind = "none" /\ made < MaxPackages /\ made' = made + 1
        /\ UNCHANGED <<home, index, manifest, files, repaired, stored, rows, known, scarred>>
    BY <1>4 DEF Assets!Trash
  <2>7. made' \in 0 .. MaxPackages /\ made <= made' /\ made' \in Assets!Packages
    BY <1>1, <2>6 DEF Assets!Packages
  <2> QED BY <1>3, <2>3, <2>4, <2>5, <2>6, <2>7, BeginKeeps
<1>5. CASE Assets!Import(want)
  <2>1. PICK td : td = want \ home
    OBVIOUS
  <2>2. PICK st : st = IF td = {} THEN "index" ELSE "move"
    OBVIOUS
  <2>3. op' = [kind |-> "import", stage |-> st, todo |-> td, at |-> [s \in Sessions |-> 0], done |-> {},
               entries |-> index, written |-> {}, then |-> Assets!Found, store |-> 0, beside |-> {}]
    BY <1>5, <2>1, <2>2 DEF Assets!Import, Assets!Begun, Assets!Idle
  <2>4. td \in SUBSET Sessions /\ td \cap home = {} /\ index \in SUBSET Sessions
    BY <1>1, <2>1 DEF AssetTypes
  <2>5. op' \in OpRec
    BY <1>2, <1>3, <2>2, <2>3, <2>4 DEF OpRec, Assets!Kinds, Assets!Stages
  <2>6. /\ op.kind = "none"
        /\ UNCHANGED <<home, index, manifest, files, made, repaired, stored, rows, known, scarred>>
    BY <1>5 DEF Assets!Import, Assets!assets
  <2> QED BY <1>1, <1>3, <2>2, <2>3, <2>4, <2>5, <2>6, BeginKeeps
<1>6. CASE Assets!Repair
  <2>1. PICK d \in Assets!Following(0) :
          op' = [Assets!Begun EXCEPT !.kind = "repair", !.stage = "move", !.store = d]
    BY <1>6 DEF Assets!Repair
  <2>2. op' = [kind |-> "repair", stage |-> "move", todo |-> {}, at |-> [s \in Sessions |-> 0], done |-> {},
               entries |-> {}, written |-> {}, then |-> Assets!Found, store |-> d, beside |-> {}]
    BY <2>1 DEF Assets!Begun, Assets!Idle
  <2>3. d \in DOMAIN stored /\ d \in Assets!Stores /\ \A e \in DOMAIN stored : ~(e < d)
    <3>1. \A e \in Assets!Stores : e > 0 /\ e \in Nat
      BY DEF Assets!Stores
    <3> QED BY <1>1, <3>1, StoresIn DEF Assets!Following
  <2>4. op' \in OpRec
    BY <1>2, <1>3, <2>2, <2>3 DEF OpRec, Assets!Kinds, Assets!Stages
  <2>5. /\ op.kind = "none"
        /\ UNCHANGED <<home, index, manifest, files, made, repaired, stored, rows, known, scarred>>
    BY <1>6 DEF Assets!Repair, Assets!assets
  <2> QED BY <1>1, <2>2, <2>3, <2>4, <2>5, BeginKeeps
<1> QED BY <1>4, <1>5, <1>6

\* Sessions are restored.
LEMMA RestoreBegins ==
  ASSUME AssetsInv, NEW want \in SUBSET Sessions, Assets!Restore(want)
  PROVE  AssetsInv'
<1>1. AssetTypes /\ made \in Nat /\ made <= MaxPackages /\ MaxPackages \in Nat
  BY DesktopAssumption DEF AssetsInv, AssetTypes
<1>2. Assets!Found \in FoundRec
  BY <1>1 DEF Assets!Found, FoundRec, AssetTypes
<1>3. /\ op.kind = "none"
      /\ UNCHANGED <<home, index, manifest, files, made, repaired, stored, rows, known, scarred>>
  BY DEF Assets!Restore, Assets!assets
<1>6. \A d \in DOMAIN stored : ~(d < 0)
  BY <1>1, StoresIn
<1>4. CASE Assets!Unsafe(want)
  <2>1. op' = [kind |-> "restore", stage |-> "back", todo |-> {}, at |-> [s \in Sessions |-> 0], done |-> {},
               entries |-> {}, written |-> {}, then |-> Assets!Found, store |-> 0, beside |-> {}]
    BY <1>4 DEF Assets!Restore, Assets!Begun, Assets!Idle
  <2>2. op' \in OpRec
    BY <1>2, <2>1 DEF OpRec, Assets!Kinds, Assets!Backs
  <2>3. made' \in 0 .. MaxPackages /\ made <= made'
    BY <1>1, <1>3
  <2> QED BY <1>3, <1>6, <2>1, <2>2, <2>3, BeginKeeps
<1>5. CASE ~Assets!Unsafe(want)
  <2>1. PICK at \in Assets!Plans(want) :
          op' = [Assets!Begun EXCEPT !.kind = "restore", !.stage = "move",
                   !.todo = {s \in Sessions : at[s] # 0}, !.at = at, !.entries = index,
                   !.written = {at[s] : s \in {s \in Sessions : at[s] # 0}}]
    BY <1>5 DEF Assets!Restore
  <2>2. PICK td : td = {s \in Sessions : at[s] # 0}
    OBVIOUS
  <2>3. PICK wr : wr = {at[s] : s \in td}
    OBVIOUS
  <2>4. op' = [kind |-> "restore", stage |-> "move", todo |-> td, at |-> at, done |-> {},
               entries |-> index, written |-> wr, then |-> Assets!Found, store |-> 0, beside |-> {}]
    BY <2>1, <2>2, <2>3 DEF Assets!Begun, Assets!Idle
  <2>5. at \in [Sessions -> 0 .. made]
    BY DEF Assets!Plans
  <2>6. at \in [Sessions -> Nat] /\ td \in SUBSET Sessions /\ wr \in SUBSET Nat
    BY <1>1, <2>2, <2>3, <2>5
  <2>7. op' \in OpRec
    BY <1>1, <1>2, <2>4, <2>6 DEF OpRec, Assets!Kinds, Assets!Stages, AssetTypes
  <2>8. ASSUME NEW s \in td
        PROVE  /\ s \notin home /\ at[s] \in Assets!Packages /\ at[s] <= made
               /\ s \in files[at[s]] /\ manifest[at[s]][s] # "out"
    <3>1. s \in Sessions /\ at[s] # 0
      BY <2>2, <2>8
    <3>2. s \in want \ home /\ s \in Assets!Items(at[s])
      BY <3>1 DEF Assets!Plans
    <3>3. at[s] \in 1 .. made
      BY <1>1, <2>5, <3>1
    <3>4. s \in files[at[s]]
      BY <1>5, <3>2, <3>3 DEF Assets!Unsafe
    <3>5. manifest[at[s]][s] # "out"
      BY <3>2 DEF Assets!Items
    <3>6. at[s] \in Assets!Packages
      BY <1>1, <3>3 DEF Assets!Packages
    <3> QED BY <1>1, <3>2, <3>3, <3>4, <3>5, <3>6
  <2> QED BY <1>1, <1>3, <1>6, <2>2, <2>4, <2>7, <2>8, BeginKeeps
<1> QED BY <1>4, <1>5

\* A record of which one field is another.
LEMMA OpStage ==
  ASSUME NEW o \in OpRec, NEW st \in Assets!Stages \cup Assets!Backs, NEW q, q = [o EXCEPT !.stage = st]
  PROVE  /\ q \in OpRec /\ q.stage = st /\ q.kind = o.kind /\ q.then = o.then /\ q.todo = o.todo
         /\ q.at = o.at /\ q.done = o.done /\ q.entries = o.entries /\ q.written = o.written
         /\ q.store = o.store /\ q.beside = o.beside
BY DEF OpRec

\* A step of an action between its writes that moves no rollout: a write of the index or of a
\* manifest, or the turn to taking back.
LEMMA StageTurns ==
  ASSUME AssetsInv, op.kind # "none",
         NEW st \in Assets!Stages \cup Assets!Backs, op' = [op EXCEPT !.stage = st],
         op.stage \in Assets!Backs => st \in Assets!Backs,
         UNCHANGED <<home, files, made, repaired, stored, rows, known, scarred>>,
         manifest' \in ManifestFun, FreshIn(manifest', files), index' \in SUBSET Sessions,
         Backwards', Packs', IndexKept'
  PROVE  AssetsInv'
<1>1. AssetTypes /\ UnderWay /\ op \in OpRec
  BY OpIs DEF AssetsInv
<1>2. /\ op' \in OpRec /\ op'.stage = st /\ op'.kind = op.kind /\ op'.then = op.then /\ op'.todo = op.todo
      /\ op'.done = op.done /\ op'.store = op.store /\ op'.beside = op.beside
  BY <1>1, OpStage
<1>3. AssetTypes'
  BY <1>1, <1>2 DEF AssetTypes
<1>4. HomeKept' /\ HomeGrown'
  BY <1>1, <1>2 DEF UnderWay, HomeKept, HomeGrown
<1>5. RowsKept' /\ KnownFound'
  BY <1>1, <1>2 DEF UnderWay, RowsKept, KnownFound, PackedIn
<1>6. FreshIn(manifest, files)'
  BY DEF FreshIn
<1> QED BY <1>2, <1>3, <1>4, <1>5, <1>6 DEF AssetsInv, UnderWay

\* A write fails: what was done is taken back.
LEMMA FailsKeeps ==
  ASSUME AssetsInv, op.kind # "none", op.stage \notin Assets!Backs, Assets!Fails,
         UNCHANGED <<home, files, made, repaired, stored, rows, known>>,
         manifest' \in ManifestFun, index' \in SUBSET Sessions,
         op.kind = "repair" => UNCHANGED index,
         \/ UNCHANGED manifest
         \/ op.kind = "trash" /\ \A p \in Assets!Packages : p # made => manifest'[p] = manifest[p]
         \/ op.kind = "restore" /\ FreshIn(manifest', files)
  PROVE  AssetsInv'
<1>1. AssetTypes /\ UnderWay /\ op \in OpRec /\ FreshIn(manifest, files)
  BY OpIs DEF AssetsInv
<1>2. op' = [op EXCEPT !.stage = "back"] /\ UNCHANGED scarred /\ "back" \in Assets!Stages \cup Assets!Backs
  BY DEF Assets!Fails, Assets!Backs
<1>3. /\ op' \in OpRec /\ op'.stage = "back" /\ op'.kind = op.kind /\ op'.then = op.then /\ op'.todo = op.todo
      /\ op'.done = op.done /\ op'.store = op.store /\ op'.beside = op.beside /\ op'.at = op.at
  BY <1>1, <1>2, OpStage
<1>4. FreshIn(manifest', files)
  <2>1. made \in Nat
    BY <1>1, DesktopAssumption DEF AssetTypes
  <2>2. \A p \in Assets!Packages : p > made => p # made
    BY <2>1 DEF Assets!Packages
  <2> QED BY <1>1, <2>2 DEF FreshIn
<1>5. Backwards' /\ IndexKept'
  <2>1. op'.kind = "trash" => op'.stage \in {"manifest", "move", "index"} \cup Assets!Backs
    BY <1>3 DEF Assets!Backs
  <2> QED BY <1>1, <1>3, <2>1 DEF UnderWay, Backwards, IndexKept
<1>6. Packs'
  <2>1. op'.kind = "trash" => TrashPack'
    BY <1>1, <1>3 DEF UnderWay, Packs, TrashPack
  <2>2. op'.kind = "restore" => RestorePack'
    <3>1. FreshIn(op.then.manifest, op.then.files) => FreshIn(op.then.manifest, op.then.files)'
      BY <1>3 DEF FreshIn
    <3>2. op'.stage \in Assets!Backs
      BY <1>3 DEF Assets!Backs
    <3> QED BY <1>1, <1>3, <3>1, <3>2 DEF UnderWay, Packs, RestorePack
  <2>3. op'.kind \in {"import", "repair"} => manifest' = op'.then.manifest /\ files' = op'.then.files
    BY <1>1, <1>3 DEF UnderWay, Packs
  <2> QED BY <2>1, <2>2, <2>3 DEF Packs
<1> QED BY <1>2, <1>4, <1>5, <1>6, StageTurns DEF Assets!Backs

\* trash: the package's manifest is written.
LEMMA TrashManifestKeeps ==
  ASSUME AssetsInv, Assets!TrashManifest
  PROVE  AssetsInv'
<1>1. AssetTypes /\ UnderWay /\ op \in OpRec /\ FreshIn(manifest, files)
  BY OpIs DEF AssetsInv, Assets!TrashManifest
<1>2. /\ op.kind = "trash" /\ op.stage = "manifest"
      /\ UNCHANGED <<home, index, files, made, repaired, stored, rows, known>>
  BY DEF Assets!TrashManifest
<1>3. PICK new : new = [s \in Sessions |->
                          IF s \notin op.todo \cup op.done THEN "out"
                          ELSE IF s \in op.then.index THEN "noted" ELSE "plain"]
  OBVIOUS
<1>4. new \in Assets!Manifests /\ \A s \in op.todo \cup op.done : new[s] # "out"
  BY <1>1, <1>3 DEF Assets!Manifests, OpRec
<1>5. PICK changed : changed = [manifest EXCEPT ![made] = new]
  OBVIOUS
<1>6. TrashPack /\ made \in Assets!Packages /\ made \in Nat
  BY <1>1, <1>2, DesktopAssumption DEF UnderWay, Packs, TrashPack, AssetTypes
<1>7. /\ changed \in ManifestFun /\ changed[made] = new
      /\ \A p \in Assets!Packages : p # made => changed[p] = manifest[p]
  BY <1>1, <1>4, <1>5, <1>6 DEF AssetTypes, ManifestFun
<1>8. \/ /\ manifest' = changed
         /\ Assets!GoesTo(IF op.todo = {} THEN "index" ELSE "move")
      \/ manifest' \in {manifest, changed} /\ Assets!Fails
  BY <1>3, <1>5 DEF Assets!TrashManifest, Assets!Writes
<1>9. CASE manifest' = changed /\ Assets!GoesTo(IF op.todo = {} THEN "index" ELSE "move")
  <2>1. PICK st : st = IF op.todo = {} THEN "index" ELSE "move"
    OBVIOUS
  <2>2. /\ op' = [op EXCEPT !.stage = st] /\ UNCHANGED scarred /\ st \in Assets!Stages \cup Assets!Backs
        /\ st \in {"index", "move"} /\ (st = "index" => op.todo = {})
    BY <1>9, <2>1 DEF Assets!GoesTo, Assets!Stages
  <2>3. /\ op' \in OpRec /\ op'.stage = st /\ op'.kind = op.kind /\ op'.then = op.then /\ op'.todo = op.todo
        /\ op'.done = op.done /\ op'.store = op.store /\ op'.beside = op.beside
    BY <1>1, <2>2, OpStage
  <2>4. FreshIn(manifest', files)
    <3>1. \A p \in Assets!Packages : p > made => p # made
      BY <1>6 DEF Assets!Packages
    <3> QED BY <1>1, <1>7, <1>9, <3>1 DEF FreshIn
  <2>5. Backwards' /\ IndexKept'
    BY <1>2, <2>2, <2>3 DEF Backwards, IndexKept
  <2>6. TrashPack'
    BY <1>2, <1>4, <1>6, <1>7, <1>9, <2>3 DEF TrashPack
  <2>7. Packs'
    BY <1>2, <2>3, <2>6 DEF Packs
  <2>8. index' \in SUBSET Sessions /\ manifest' \in ManifestFun /\ op.stage \notin Assets!Backs /\ op.kind # "none"
    BY <1>1, <1>2, <1>7, <1>9 DEF AssetTypes, Assets!Backs
  <2> QED BY <1>2, <2>2, <2>4, <2>5, <2>7, <2>8, StageTurns
<1>10. CASE manifest' \in {manifest, changed} /\ Assets!Fails
  <2>1. index' \in SUBSET Sessions /\ manifest' \in ManifestFun /\ op.stage \notin Assets!Backs /\ op.kind # "none"
    BY <1>1, <1>2, <1>7, <1>10 DEF AssetTypes, Assets!Backs
  <2>2. UNCHANGED manifest \/ \A p \in Assets!Packages : p # made => manifest'[p] = manifest[p]
    BY <1>7, <1>10
  <2> QED BY <1>2, <1>10, <2>1, <2>2, FailsKeeps
<1> QED BY <1>8, <1>9, <1>10

\* trash: a rollout is moved into the package, or cannot be.
LEMMA TrashMoveKeeps ==
  ASSUME AssetsInv, Assets!TrashMove
  PROVE  AssetsInv'
<1>1. AssetTypes /\ UnderWay /\ op \in OpRec /\ FreshIn(manifest, files)
  BY OpIs DEF AssetsInv, Assets!TrashMove
<1>2. /\ op.kind = "trash" /\ op.stage = "move" /\ op.stage \notin Assets!Backs /\ op.kind # "none"
      /\ UNCHANGED <<index, manifest, made, repaired, stored, rows, known>>
  BY DEF Assets!TrashMove, Assets!Backs
<1>3. TrashPack /\ made \in Assets!Packages /\ made \in Nat
  BY <1>1, <1>2, DesktopAssumption DEF UnderWay, Packs, TrashPack, AssetTypes
<1>4. CASE Assets!Fails /\ UNCHANGED <<home, files>>
  BY <1>1, <1>2, <1>4, FailsKeeps DEF AssetTypes
<1>5. ASSUME NEW s \in op.todo \cap home,
             home' = home \ {s}, files' = [files EXCEPT ![made] = @ \cup {s}],
             op' = [op EXCEPT !.todo = @ \ {s}, !.done = @ \cup {s},
                      !.stage = IF op.todo # {s} THEN "move"
                                ELSE IF Assets!TrashStage = "move" THEN "manifest" ELSE "index"],
             UNCHANGED scarred
      PROVE  AssetsInv'
  <2>1. PICK st : st = IF op.todo # {s} THEN "move" ELSE "index"
    OBVIOUS
  <2>2. op' = [op EXCEPT !.todo = op.todo \ {s}, !.done = op.done \cup {s}, !.stage = st]
    BY <1>5, <2>1 DEF Assets!TrashStage
  <2>3. st \in {"move", "index"} /\ (st = "index" => op.todo \ {s} = {}) /\ s \in Sessions
    BY <1>1, <2>1 DEF OpRec
  <2>4. /\ op' \in OpRec /\ op'.stage = st /\ op'.kind = op.kind /\ op'.then = op.then
        /\ op'.todo = op.todo \ {s} /\ op'.done = op.done \cup {s} /\ op'.store = op.store /\ op'.beside = op.beside
    BY <1>1, <2>2, <2>3 DEF OpRec, Assets!Stages
  <2>5. /\ files' \in FilesFun /\ files'[made] = op.done \cup {s}
        /\ \A p \in Assets!Packages : p # made => files'[p] = files[p]
    BY <1>1, <1>3, <1>5, <2>3 DEF AssetTypes, FilesFun, TrashPack
  <2>6. AssetTypes'
    BY <1>1, <1>2, <1>5, <2>4, <2>5 DEF AssetTypes
  <2>7. FreshIn(manifest, files)'
    <3>1. \A p \in Assets!Packages : p > made => p # made
      BY <1>3 DEF Assets!Packages
    <3> QED BY <1>1, <1>2, <2>5, <3>1 DEF FreshIn
  <2>8. HomeKept' /\ HomeGrown'
    BY <1>1, <1>2, <1>5, <2>4 DEF UnderWay, HomeKept, HomeGrown
  <2>9. Backwards' /\ IndexKept' /\ RowsKept'
    BY <1>1, <1>2, <2>3, <2>4 DEF UnderWay, Backwards, IndexKept, RowsKept
  <2>10. KnownFound'
    <3>1. s \in op.then.home
      BY <1>1, <1>2 DEF UnderWay, HomeKept
    <3> QED BY <1>1, <1>2, <1>5, <2>4, <3>1 DEF UnderWay, KnownFound, PackedIn
  <2>11. TrashPack'
    BY <1>2, <1>3, <2>3, <2>4, <2>5 DEF TrashPack
  <2>12. Packs'
    BY <1>2, <2>4, <2>11 DEF Packs
  <2> QED BY <1>2, <2>4, <2>6, <2>7, <2>8, <2>9, <2>10, <2>12 DEF AssetsInv, UnderWay
<1> QED BY <1>4, <1>5 DEF Assets!TrashMove

\* restore: a rollout is moved back into the home, or cannot be.
LEMMA RestoreMoveKeeps ==
  ASSUME AssetsInv, Assets!RestoreMove
  PROVE  AssetsInv'
<1>1. AssetTypes /\ UnderWay /\ op \in OpRec /\ FreshIn(manifest, files)
  BY OpIs DEF AssetsInv, Assets!RestoreMove
<1>2. /\ op.kind = "restore" /\ op.stage = "move" /\ op.stage \notin Assets!Backs /\ op.kind # "none"
      /\ UNCHANGED <<index, manifest, made, repaired, stored, rows, known>>
  BY DEF Assets!RestoreMove, Assets!Backs
<1>3. RestorePack
  BY <1>1, <1>2 DEF UnderWay, Packs
<1>4. CASE Assets!Fails /\ UNCHANGED <<home, files>>
  BY <1>1, <1>2, <1>4, FailsKeeps DEF AssetTypes
<1>5. ASSUME NEW s \in op.todo,
             home' = home \cup {s}, files' = [files EXCEPT ![op.at[s]] = @ \ {s}],
             op' = [op EXCEPT !.todo = @ \ {s}, !.done = @ \cup {s},
                      !.entries = IF manifest[op.at[s]][s] = "noted" THEN @ \cup {s} ELSE @,
                      !.stage = IF op.todo = {s} THEN "manifests" ELSE "move"],
             UNCHANGED scarred
      PROVE  AssetsInv'
  <2>1. PICK st : st = IF op.todo = {s} THEN "manifests" ELSE "move"
    OBVIOUS
  <2>2. PICK en : en = IF manifest[op.at[s]][s] = "noted" THEN op.entries \cup {s} ELSE op.entries
    OBVIOUS
  <2>3. op' = [op EXCEPT !.todo = op.todo \ {s}, !.done = op.done \cup {s}, !.entries = en, !.stage = st]
    BY <1>5, <2>1, <2>2
  <2>4. /\ st \in {"move", "manifests"} /\ (st = "manifests" => op.todo \ {s} = {}) /\ s \in Sessions
        /\ en \in SUBSET Sessions
    BY <1>1, <2>1, <2>2 DEF OpRec
  <2>5. /\ op' \in OpRec /\ op'.stage = st /\ op'.kind = op.kind /\ op'.then = op.then /\ op'.at = op.at
        /\ op'.todo = op.todo \ {s} /\ op'.done = op.done \cup {s} /\ op'.store = op.store /\ op'.beside = op.beside
    BY <1>1, <2>3, <2>4 DEF OpRec, Assets!Stages
  <2>6. PICK p \in Assets!Packages : p = op.at[s]
    BY <1>3 DEF RestorePack
  <2>7. /\ files' \in FilesFun
        /\ \A r \in Assets!Packages, x \in Sessions :
             x \in files'[r] <=> x \in files[r] /\ ~(x = s /\ r = p)
    BY <1>1, <1>5, <2>6 DEF AssetTypes, FilesFun
  <2>8. AssetTypes'
    BY <1>1, <1>2, <1>5, <2>4, <2>5, <2>7 DEF AssetTypes
  <2>9. FreshIn(manifest, files)'
    <3>1. \A r \in Assets!Packages : files'[r] \subseteq Sessions
      BY <2>7 DEF FilesFun
    <3> QED BY <1>1, <1>2, <2>7, <3>1 DEF FreshIn
  <2>10. HomeKept' /\ HomeGrown'
    <3>1. s \notin op.then.home
      BY <1>1, <1>2 DEF UnderWay, HomeKept
    <3>2. HomeKept'
      BY <1>1, <1>2, <1>5, <2>5, <3>1 DEF UnderWay, HomeKept
    <3>3. home' \ (op'.then.home \cup op'.done \cup op'.beside) \subseteq home \ (op.then.home \cup op.done \cup op.beside)
      BY <1>5, <2>5
    <3> QED BY <1>1, <1>2, <3>2, <3>3 DEF UnderWay, HomeGrown
  <2>11. Backwards' /\ IndexKept' /\ RowsKept'
    BY <1>1, <1>2, <2>4, <2>5 DEF UnderWay, Backwards, IndexKept, RowsKept
  <2>12. KnownFound'
    BY <1>1, <1>2, <1>5, <2>5 DEF UnderWay, KnownFound, PackedIn
  <2>13. RestorePack'
    <3>1. \A r \in Assets!Packages, x \in Sessions :
            x \in files'[r] <=> x \in op'.then.files[r] /\ ~(x \in op'.done /\ op'.at[x] = r)
      BY <1>3, <2>5, <2>6, <2>7 DEF RestorePack
    <3>2. \A x \in op'.todo \cup op'.done :
            /\ op'.at[x] \in Assets!Packages /\ op'.at[x] <= made'
            /\ x \in op'.then.files[op'.at[x]] /\ op'.then.manifest[op'.at[x]][x] # "out"
      BY <1>2, <1>3, <2>5 DEF RestorePack
    <3>3. /\ \A r \in Assets!Packages, x \in Sessions :
               manifest'[r][x] = op'.then.manifest[r][x] \/ (op'.at[x] = r /\ x \in op'.done)
          /\ \A x \in Sessions : op'.at[x] # 0 => x \in op'.todo \cup op'.done
      BY <1>2, <1>3, <2>5 DEF RestorePack
    <3>4. FreshIn(op.then.manifest, op.then.files)'
      BY <1>2, <1>3, <2>5 DEF RestorePack, FreshIn
    <3>5. (op'.stage = "manifests" => op'.todo = {}) /\ op'.stage # "reindex"
      BY <2>4, <2>5
    <3> QED BY <3>1, <3>2, <3>3, <3>4, <3>5 DEF RestorePack
  <2>14. Packs'
    BY <1>2, <2>5, <2>13 DEF Packs
  <2> QED BY <1>2, <2>5, <2>8, <2>9, <2>10, <2>11, <2>12, <2>14 DEF AssetsInv, UnderWay
<1> QED BY <1>4, <1>5 DEF Assets!RestoreMove

\* restore: a manifest is written without the sessions that are back.
LEMMA RestoreManifestKeeps ==
  ASSUME AssetsInv, Assets!RestoreManifest
  PROVE  AssetsInv'
<1>1. AssetTypes /\ UnderWay /\ op \in OpRec /\ FreshIn(manifest, files)
  BY OpIs DEF AssetsInv, Assets!RestoreManifest
<1>2. /\ op.kind = "restore" /\ op.stage = "manifests" /\ op.stage \notin Assets!Backs /\ op.kind # "none"
      /\ UNCHANGED <<home, index, files, made, repaired, stored, rows, known>>
  BY DEF Assets!RestoreManifest, Assets!Backs
<1>3. RestorePack /\ op.todo = {} /\ op.at \in [Sessions -> Nat]
  BY <1>1, <1>2 DEF UnderWay, Packs, RestorePack, OpRec
<1>4. PICK p \in op.written :
        Assets!Writes(manifest,
              [manifest EXCEPT ![p] = [s \in Sessions |->
                 IF op.at[s] = p THEN "out" ELSE manifest[p][s]]],
              op' = [op EXCEPT !.written = @ \ {p},
                       !.stage = IF op.written = {p} THEN "index" ELSE @] /\ UNCHANGED scarred,
              Assets!Fails)
  BY DEF Assets!RestoreManifest
<1>5. PICK new : new = [s \in Sessions |-> IF op.at[s] = p THEN "out" ELSE manifest[p][s]]
  OBVIOUS
<1>6. PICK changed : changed = [manifest EXCEPT ![p] = new]
  OBVIOUS
<1>7. p \in Assets!Packages => new \in Assets!Manifests
  BY <1>1, <1>5 DEF AssetTypes, ManifestFun, Assets!Manifests
<1>8. changed \in ManifestFun
  BY <1>1, <1>6, <1>7 DEF AssetTypes, ManifestFun
<1>9. \A r \in Assets!Packages, x \in Sessions :
        changed[r][x] = IF r = p /\ op.at[x] = p THEN "out" ELSE manifest[r][x]
  BY <1>1, <1>5, <1>6 DEF AssetTypes, ManifestFun
<1>10. FreshIn(changed, files)
  <2>1. \A r \in Assets!Packages : manifest[r] = Assets!NoManifest => changed[r] = Assets!NoManifest
    <3>1. ASSUME NEW r \in Assets!Packages, manifest[r] = Assets!NoManifest
          PROVE  changed[r] = Assets!NoManifest
      <4>1. \A x \in Sessions : changed[r][x] = "out"
        BY <1>9, <3>1 DEF Assets!NoManifest
      <4>2. changed[r] \in Assets!Manifests
        BY <1>8 DEF ManifestFun
      <4> QED BY <4>1, <4>2 DEF Assets!NoManifest, Assets!Manifests
    <3> QED BY <3>1
  <2> QED BY <1>1, <2>1 DEF FreshIn
<1>11. \/ /\ manifest' = changed
          /\ op' = [op EXCEPT !.written = @ \ {p}, !.stage = IF op.written = {p} THEN "index" ELSE @]
          /\ UNCHANGED scarred
       \/ manifest' \in {manifest, changed} /\ Assets!Fails
  BY <1>4, <1>5, <1>6 DEF Assets!Writes
<1>12. CASE manifest' \in {manifest, changed} /\ Assets!Fails
  <2>1. index' \in SUBSET Sessions /\ manifest' \in ManifestFun
    BY <1>1, <1>2, <1>8, <1>12 DEF AssetTypes
  <2>2. FreshIn(manifest', files)
    BY <1>1, <1>10, <1>12
  <2> QED BY <1>2, <1>12, <2>1, <2>2, FailsKeeps
<1>13. CASE /\ manifest' = changed
            /\ op' = [op EXCEPT !.written = @ \ {p}, !.stage = IF op.written = {p} THEN "index" ELSE @]
            /\ UNCHANGED scarred
  <2>1. PICK st : st = IF op.written = {p} THEN "index" ELSE op.stage
    OBVIOUS
  <2>2. op' = [op EXCEPT !.written = op.written \ {p}, !.stage = st]
    BY <1>13, <2>1
  <2>3. st \in {"index", "manifests"}
    BY <1>2, <2>1
  <2>4. /\ op' \in OpRec /\ op'.stage = st /\ op'.kind = op.kind /\ op'.then = op.then /\ op'.at = op.at
        /\ op'.todo = op.todo /\ op'.done = op.done /\ op'.store = op.store /\ op'.beside = op.beside
    BY <1>1, <2>2, <2>3 DEF OpRec, Assets!Stages
  <2>5. AssetTypes'
    BY <1>1, <1>2, <1>8, <1>13, <2>4 DEF AssetTypes
  <2>6. FreshIn(manifest, files)'
    BY <1>2, <1>10, <1>13 DEF FreshIn
  <2>7. HomeKept' /\ HomeGrown'
    BY <1>1, <1>2, <2>4 DEF UnderWay, HomeKept, HomeGrown
  <2>8. Backwards' /\ IndexKept' /\ RowsKept'
    BY <1>1, <1>2, <1>3, <2>3, <2>4 DEF UnderWay, Backwards, IndexKept, RowsKept
  <2>9. KnownFound'
    BY <1>1, <1>2, <1>13, <2>4 DEF UnderWay, KnownFound, PackedIn
  <2>10. RestorePack'
    <3>1. /\ \A r \in Assets!Packages, x \in Sessions :
               x \in files'[r] <=> x \in op'.then.files[r] /\ ~(x \in op'.done /\ op'.at[x] = r)
          /\ \A x \in op'.todo \cup op'.done :
               /\ op'.at[x] \in Assets!Packages /\ op'.at[x] <= made'
               /\ x \in op'.then.files[op'.at[x]] /\ op'.then.manifest[op'.at[x]][x] # "out"
      BY <1>2, <1>3, <2>4 DEF RestorePack
    <3>2. \A x \in Sessions : op'.at[x] # 0 => x \in op'.done
      BY <1>2, <1>3, <2>4 DEF RestorePack
    <3>3. \A r \in Assets!Packages, x \in Sessions :
            manifest'[r][x] = op'.then.manifest[r][x] \/ (op'.at[x] = r /\ x \in op'.done)
      <4>1. \A r \in Assets!Packages : r # 0
        BY DEF Assets!Packages
      <4> QED BY <1>2, <1>3, <1>9, <1>13, <2>4, <3>2, <4>1 DEF RestorePack
    <3>4. FreshIn(op.then.manifest, op.then.files)'
      BY <1>2, <1>3, <2>4 DEF RestorePack, FreshIn
    <3>5. op'.todo = {} /\ op'.stage # "reindex"
      BY <1>3, <2>3, <2>4
    <3> QED BY <3>1, <3>2, <3>3, <3>4, <3>5 DEF RestorePack
  <2>11. Packs'
    BY <1>2, <2>4, <2>10 DEF Packs
  <2> QED BY <1>2, <2>4, <2>5, <2>6, <2>7, <2>8, <2>9, <2>11 DEF AssetsInv, UnderWay
<1> QED BY <1>11, <1>12, <1>13

\* import: an item is written, or fails, perhaps when it stands in its place already.
LEMMA ImportWriteKeeps ==
  ASSUME AssetsInv, Assets!ImportWrite
  PROVE  AssetsInv'
<1>1. AssetTypes /\ UnderWay /\ op \in OpRec /\ FreshIn(manifest, files)
  BY OpIs DEF AssetsInv, Assets!ImportWrite
<1>2. /\ op.kind = "import" /\ op.stage = "move" /\ op.stage \notin Assets!Backs /\ op.kind # "none"
      /\ UNCHANGED <<index, manifest, files, made, repaired, stored, rows, known>>
  BY DEF Assets!ImportWrite, Assets!Backs
<1>3. CASE Assets!Fails /\ UNCHANGED home
  BY <1>1, <1>2, <1>3, FailsKeeps DEF AssetTypes
<1>5. ASSUME NEW s \in op.todo, NEW td, NEW dn, NEW en \in SUBSET Sessions, NEW st,
             home' = home \cup {s}, UNCHANGED scarred,
             op' = [op EXCEPT !.todo = td, !.done = dn, !.entries = en, !.stage = st],
             \/ td = op.todo \ {s} /\ dn = op.done \cup {s} /\ st \in {"index", "move"}
                  /\ (st = "index" => td = {})
             \/ td = op.todo /\ dn = op.done /\ st = "back"
      PROVE  AssetsInv'
  <2>1. s \in Sessions /\ td \in SUBSET Sessions /\ dn \in SUBSET Sessions
    BY <1>1, <1>5 DEF OpRec
  <2>2. /\ op' \in OpRec /\ op'.stage = st /\ op'.kind = op.kind /\ op'.then = op.then
        /\ op'.todo = td /\ op'.done = dn /\ op'.store = op.store /\ op'.beside = op.beside
    BY <1>1, <1>5, <2>1 DEF OpRec, Assets!Stages, Assets!Backs
  <2>3. AssetTypes'
    BY <1>1, <1>2, <1>5, <2>1, <2>2 DEF AssetTypes
  <2>4. FreshIn(manifest, files)'
    BY <1>1, <1>2 DEF FreshIn
  <2>5. HomeKept'
    BY <1>1, <1>2, <1>5, <2>2 DEF UnderWay, HomeKept
  <2>6. HomeGrown'
    <3>1. home \ (op.then.home \cup op.done \cup op.beside) = {}
      BY <1>1, <1>2 DEF UnderWay, HomeGrown
    <3>2. CASE dn = op.done \cup {s}
      <4>1. home' \ (op'.then.home \cup op'.done \cup op'.beside) = {}
        BY <1>5, <2>2, <3>1, <3>2
      <4> QED BY <4>1 DEF HomeGrown
    <3>3. CASE st = "back"
      <4>1. home' \ (op'.then.home \cup op'.done \cup op'.beside) \subseteq {s}
        BY <1>5, <2>2, <3>1, <3>3
      <4>2. op'.stage \in Assets!Backs
        BY <2>2, <3>3 DEF Assets!Backs
      <4> QED BY <1>2, <2>2, <4>1, <4>2 DEF HomeGrown
    <3> QED BY <1>5, <3>2, <3>3
  <2>7. Backwards' /\ IndexKept' /\ RowsKept'
    BY <1>1, <1>2, <1>5, <2>2 DEF UnderWay, Backwards, IndexKept, RowsKept
  <2>8. KnownFound'
    BY <1>1, <1>2, <1>5, <2>2 DEF UnderWay, KnownFound, PackedIn
  <2>9. Packs'
    BY <1>1, <1>2, <2>2 DEF UnderWay, Packs
  <2> QED BY <1>2, <2>2, <2>3, <2>4, <2>5, <2>6, <2>7, <2>8, <2>9 DEF AssetsInv, UnderWay
<1>6. ASSUME NEW s \in op.todo, NEW noted \in BOOLEAN,
             Assets!Writes(home, home \cup {s},
                 op' = [op EXCEPT !.todo = @ \ {s}, !.done = @ \cup {s},
                          !.entries = IF noted THEN @ \cup {s} ELSE @,
                          !.stage = IF op.todo = {s} THEN "index" ELSE "move"]
                   /\ UNCHANGED scarred,
                 Assets!Fails)
      PROVE  AssetsInv'
  <2>1. op.todo \in SUBSET Sessions /\ op.entries \in SUBSET Sessions
    BY <1>1 DEF OpRec
  <2>2. CASE /\ home' = home \cup {s}
             /\ op' = [op EXCEPT !.todo = @ \ {s}, !.done = @ \cup {s},
                          !.entries = IF noted THEN @ \cup {s} ELSE @,
                          !.stage = IF op.todo = {s} THEN "index" ELSE "move"]
             /\ UNCHANGED scarred
    <3>1. PICK en : en = IF noted THEN op.entries \cup {s} ELSE op.entries
      OBVIOUS
    <3>2. PICK st : st = IF op.todo = {s} THEN "index" ELSE "move"
      OBVIOUS
    <3>3. PICK td, dn : td = op.todo \ {s} /\ dn = op.done \cup {s}
      OBVIOUS
    <3>4. op' = [op EXCEPT !.todo = td, !.done = dn, !.entries = en, !.stage = st]
      BY <2>2, <3>1, <3>2, <3>3
    <3>5. en \in SUBSET Sessions
      BY <2>1, <3>1
    <3>6. st \in {"index", "move"} /\ (st = "index" => td = {})
      BY <3>2, <3>3
    <3>7. \/ td = op.todo \ {s} /\ dn = op.done \cup {s} /\ st \in {"index", "move"}
               /\ (st = "index" => td = {})
          \/ td = op.todo /\ dn = op.done /\ st = "back"
      BY <3>3, <3>6
    <3>8. home' = home \cup {s} /\ UNCHANGED scarred
      BY <2>2
    <3> QED BY <1>5, <3>4, <3>5, <3>7, <3>8
  <2>3. CASE home' = home /\ Assets!Fails
    BY <1>3, <2>3
  <2>4. CASE home' = home \cup {s} /\ Assets!Fails
    <3>1. op' = [op EXCEPT !.todo = op.todo, !.done = op.done, !.entries = op.entries, !.stage = "back"]
      BY <1>1, <2>4 DEF OpRec, Assets!Fails
    <3>2. UNCHANGED scarred
      BY <2>4 DEF Assets!Fails
    <3> QED BY <1>5, <2>1, <2>4, <3>1, <3>2
  <2> QED BY <1>6, <2>2, <2>3, <2>4 DEF Assets!Writes
<1> QED BY <1>3, <1>6 DEF Assets!ImportWrite

\* repair: a rollout is rewritten, or that fails.
LEMMA RepairRolloutKeeps ==
  ASSUME AssetsInv, Assets!RepairRollout
  PROVE  AssetsInv'
<1>1. AssetTypes /\ UnderWay /\ op \in OpRec /\ FreshIn(manifest, files)
  BY OpIs DEF AssetsInv, Assets!RepairRollout
<1>2. /\ op.kind = "repair" /\ op.stage = "move" /\ op.stage \notin Assets!Backs /\ op.kind # "none"
      /\ UNCHANGED <<home, index, manifest, files, made, stored, rows, known>>
  BY DEF Assets!RepairRollout, Assets!Backs
<1>3. CASE Assets!Fails /\ UNCHANGED repaired
  BY <1>1, <1>2, <1>3, FailsKeeps DEF AssetTypes
<1>4. ASSUME NEW s \in Assets!Stale(op.store), NEW dn, dn = op.done \cup {s}, NEW st \in {"move", "back"},
             op' = [op EXCEPT !.done = dn, !.stage = st],
             repaired' \in {repaired, repaired \cup {s}}, UNCHANGED scarred
      PROVE  AssetsInv'
  <2>1. s \in Sessions /\ s \in home /\ s \in stored[op.store] /\ s \notin repaired /\ dn \in SUBSET Sessions
    BY <1>1, <1>4 DEF Assets!Stale, AssetTypes, OpRec
  <2>2. /\ op' \in OpRec /\ op'.stage = st /\ op'.kind = op.kind /\ op'.then = op.then
        /\ op'.todo = op.todo /\ op'.done = dn /\ op'.store = op.store /\ op'.beside = op.beside
    BY <1>1, <1>4, <2>1 DEF OpRec, Assets!Stages, Assets!Backs
  <2>3. AssetTypes'
    BY <1>1, <1>2, <1>4, <2>1, <2>2 DEF AssetTypes
  <2>4. FreshIn(manifest, files)'
    BY <1>1, <1>2 DEF FreshIn
  <2>5. home \subseteq op.then.home \cup op.beside
    BY <1>1, <1>2 DEF UnderWay, HomeKept, HomeGrown
  <2>6. HomeKept'
    BY <1>1, <1>2, <1>4, <2>1, <2>2, <2>5 DEF UnderWay, HomeKept
  <2>7. HomeGrown'
    BY <1>2, <2>2, <2>5 DEF HomeGrown
  <2>8. Backwards' /\ IndexKept'
    BY <1>1, <1>2, <2>2 DEF UnderWay, Backwards, IndexKept
  <2>9. RowsKept'
    BY <1>1, <1>2, <1>4, <2>1, <2>2 DEF UnderWay, RowsKept
  <2>10. KnownFound'
    BY <1>1, <1>2, <1>4, <2>2 DEF UnderWay, KnownFound, PackedIn
  <2>11. Packs'
    BY <1>1, <1>2, <2>2 DEF UnderWay, Packs
  <2> QED BY <1>2, <2>2, <2>3, <2>4, <2>6, <2>7, <2>8, <2>9, <2>10, <2>11 DEF AssetsInv, UnderWay
<1>5. ASSUME NEW s \in Assets!Stale(op.store),
             Assets!Writes(repaired, repaired \cup {s},
                 op' = [op EXCEPT !.done = @ \cup {s}] /\ UNCHANGED scarred,
                 op' = [op EXCEPT !.done = @ \cup {s}, !.stage = "back"] /\ UNCHANGED scarred)
      PROVE  AssetsInv'
  <2>1. PICK dn : dn = op.done \cup {s}
    OBVIOUS
  <2>2. CASE op' = [op EXCEPT !.done = @ \cup {s}]
    <3>1. op' = [op EXCEPT !.done = dn, !.stage = "move"]
      BY <1>1, <1>2, <2>1, <2>2 DEF OpRec
    <3> QED BY <1>4, <1>5, <2>1, <3>1 DEF Assets!Writes
  <2>3. CASE op' = [op EXCEPT !.done = @ \cup {s}, !.stage = "back"]
    <3>1. op' = [op EXCEPT !.done = dn, !.stage = "back"]
      BY <2>1, <2>3
    <3> QED BY <1>4, <1>5, <2>1, <3>1 DEF Assets!Writes
  <2> QED BY <1>5, <2>2, <2>3 DEF Assets!Writes
<1> QED BY <1>3, <1>5 DEF Assets!RepairRollout

\* repair: a database's rows are committed, which ends it or leads to the next database.
LEMMA RepairCommitKeeps ==
  ASSUME AssetsInv, Assets!RepairCommit
  PROVE  AssetsInv'
<1>1. AssetTypes /\ UnderWay /\ op \in OpRec /\ FreshIn(manifest, files) /\ op.then \in FoundRec
  BY OpIs DEF AssetsInv, Assets!RepairCommit
<1>2. /\ op.kind = "repair" /\ op.stage = "move" /\ op.stage \notin Assets!Backs /\ op.kind # "none"
      /\ Assets!Stale(op.store) = {}
      /\ UNCHANGED <<home, index, manifest, files, made, repaired, stored, known>>
  BY DEF Assets!RepairCommit, Assets!Backs
<1>3. PICK n : n = op.store
  OBVIOUS
<1>4. n \in DOMAIN stored /\ op.done \subseteq stored[n]
  BY <1>1, <1>2, <1>3 DEF UnderWay, RowsKept
<1>5. /\ rows' \in StoreFun /\ DOMAIN rows' = DOMAIN stored /\ rows'[n] = stored[n]
      /\ \A e \in DOMAIN stored : e # n => rows'[e] = rows[e]
  <2>1. PICK there \in SUBSET Assets!Stores : stored \in [there -> SUBSET Sessions]
    BY <1>1 DEF AssetTypes, StoreFun
  <2>2. rows \in [there -> SUBSET Sessions]
    BY <1>1, <2>1 DEF AssetTypes, StoreFun
  <2>3. rows' = [rows EXCEPT ![n] = stored[n]]
    BY <1>3 DEF Assets!RepairCommit
  <2>4. rows' \in [there -> SUBSET Sessions]
    BY <1>4, <2>1, <2>2, <2>3
  <2> QED BY <1>4, <2>1, <2>2, <2>3, <2>4 DEF StoreFun
<1>6. CASE Assets!Ends
  <2>1. op' = Assets!Idle /\ UNCHANGED scarred
    BY <1>6 DEF Assets!Ends
  <2>2. ~scarred => AllSafe'
    BY <1>2, UnderWaySafe DEF AllSafe, PackedIn
  <2>3. DOMAIN rows' = DOMAIN stored'
    BY <1>2, <1>5
  <2> QED BY <1>1, <1>2, <1>5, <2>1, <2>2, <2>3, Over DEF AssetTypes, FreshIn
<1>7. ASSUME NEW d \in Assets!Following(op.store), op' = [op EXCEPT !.store = d, !.done = {}], UNCHANGED scarred
      PROVE  AssetsInv'
  <2>1. d \in DOMAIN stored /\ d \in Assets!Stores /\ \A e \in DOMAIN stored : e < d <=> e < n \/ e = n
    BY <1>1, <1>3, <1>4, StoresIn DEF Assets!Following
  <2>2. /\ op' \in OpRec /\ op'.stage = op.stage /\ op'.kind = op.kind /\ op'.then = op.then
        /\ op'.todo = op.todo /\ op'.done = {} /\ op'.store = d /\ op'.beside = op.beside
    BY <1>1, <1>7, <2>1 DEF OpRec
  <2>3. AssetTypes'
    BY <1>1, <1>2, <1>5, <1>7, <2>2 DEF AssetTypes
  <2>4. FreshIn(manifest, files)'
    BY <1>1, <1>2 DEF FreshIn
  <2>5. home \subseteq op.then.home \cup op.beside /\ op.then.home \subseteq home
    BY <1>1, <1>2 DEF UnderWay, HomeKept, HomeGrown
  <2>6. HomeKept' /\ HomeGrown'
    BY <1>2, <2>2, <2>5 DEF HomeKept, HomeGrown
  <2>7. Backwards' /\ IndexKept'
    BY <1>1, <1>2, <2>2 DEF UnderWay, Backwards, IndexKept
  <2>8. RowsAre(rows', stored, d, op.then.rows, op.beside)
    BY <1>1, <1>3, <1>5, <2>1 DEF UnderWay, RowsKept, RowsAre
  <2>9. \A s : Covered(s, stored, d, op.then.home) <=>
                 Covered(s, stored, n, op.then.home) \/ (s \in op.then.home /\ s \in stored[n])
    BY <1>4, <2>1 DEF Covered
  <2>10. ASSUME NEW s \in Sessions \ op.beside
         PROVE  s \in repaired <=> s \in op.then.repaired \/ Covered(s, stored, d, op.then.home)
    <3>1. s \in op.then.home /\ s \in stored[n] => s \in repaired
      BY <1>2, <1>3, <2>5 DEF Assets!Stale
    <3>2. s \in op.done => s \in op.then.home /\ s \in stored[n]
      BY <1>1, <1>2, <1>4, <2>10 DEF UnderWay, HomeKept
    <3>3. s \notin op.done => (s \in repaired <=> s \in op.then.repaired \/ Covered(s, stored, n, op.then.home))
      BY <1>1, <1>3, <2>10 DEF UnderWay, RowsKept
    <3> QED BY <2>9, <3>1, <3>2, <3>3
  <2>11. RowsKept'
    BY <1>2, <2>1, <2>2, <2>8, <2>10 DEF RowsKept
  <2>12. KnownFound'
    BY <1>1, <1>2, <1>7, <2>2 DEF UnderWay, KnownFound, PackedIn
  <2>13. Packs'
    BY <1>1, <1>2, <2>2 DEF UnderWay, Packs
  <2> QED BY <1>2, <2>2, <2>3, <2>4, <2>6, <2>7, <2>11, <2>12, <2>13 DEF AssetsInv, UnderWay
<1> QED BY <1>6, <1>7 DEF Assets!RepairCommit

\* The index is written, which ends the action, or that fails.
LEMMA WriteIndexKeeps ==
  ASSUME AssetsInv, Assets!WriteIndex
  PROVE  AssetsInv'
<1>1. /\ op.stage = "index" /\ UNCHANGED <<home, manifest, files, made, repaired, stored, rows>>
      /\ op.stage \notin Assets!Backs
  BY DEF Assets!WriteIndex, Assets!Backs
<1>2. op.kind # "none"
  BY <1>1, OpIs, IdleFields DEF AssetsInv
<1>3. AssetTypes /\ UnderWay /\ op \in OpRec /\ FreshIn(manifest, files) /\ op.kind # "repair"
  BY <1>1, <1>2, OpIs DEF AssetsInv, UnderWay, Backwards
<1>4. op.entries \in SUBSET Sessions /\ index \in SUBSET Sessions /\ op.done \in SUBSET Sessions
  BY <1>3 DEF AssetTypes, OpRec
<1>5. \/ index' = op.entries /\ Assets!Ends /\ known' = known \cup op.done
      \/ index' \in {index, op.entries} /\ Assets!Fails /\ UNCHANGED known
  BY DEF Assets!WriteIndex, Assets!Writes
<1>6. CASE index' \in {index, op.entries} /\ Assets!Fails /\ UNCHANGED known
  BY <1>1, <1>2, <1>3, <1>4, <1>6, FailsKeeps DEF AssetTypes
<1>7. CASE index' = op.entries /\ Assets!Ends /\ known' = known \cup op.done
  <2>1. op' = Assets!Idle /\ UNCHANGED scarred
    BY <1>7 DEF Assets!Ends
  <2>2. ASSUME NEW s \in op.done
        PROVE  s \in home \/ PackedIn(s, manifest, files)
    <3>1. CASE op.kind = "trash"
      BY <1>1, <1>3, <2>2, <3>1 DEF UnderWay, Packs, TrashPack, PackedIn
    <3>2. CASE op.kind # "trash"
      <4>1. op.kind \in {"restore", "import"}
        BY <1>3, <3>2 DEF OpRec, Assets!Kinds
      <4> QED BY <1>3, <2>2, <4>1 DEF UnderWay, HomeKept
    <3> QED BY <3>1, <3>2
  <2>3. ~scarred => AllSafe'
    BY <1>1, <1>2, <1>7, <2>2, UnderWaySafe DEF AllSafe, PackedIn
  <2>4. known' \in SUBSET Sessions
    BY <1>3, <1>4, <1>7 DEF AssetTypes
  <2> QED BY <1>1, <1>3, <1>4, <1>7, <2>1, <2>3, <2>4, Over DEF AssetTypes, FreshIn
<1> QED BY <1>5, <1>6, <1>7

\* Taking back goes on after its moves.
LEMMA MovedBackKeeps ==
  ASSUME AssetsInv, Assets!MovedBack
  PROVE  AssetsInv'
<1>1. /\ op.stage = "back" /\ op.kind # "repair" /\ op.done = {}
      /\ UNCHANGED <<home, index, manifest, files, made, repaired, stored, rows, known>>
      /\ op.stage \in Assets!Backs
  BY DEF Assets!MovedBack, Assets!assets, Assets!Backs
<1>2. op.kind # "none"
  BY <1>1, OpIs, IdleFields DEF AssetsInv
<1>3. AssetTypes /\ UnderWay /\ op \in OpRec /\ FreshIn(manifest, files)
  BY <1>2, OpIs DEF AssetsInv
<1>4. PICK st : st = IF op.kind = "restore" THEN "remanifest" ELSE "reindex"
  OBVIOUS
<1>5. op' = [op EXCEPT !.stage = st] /\ UNCHANGED scarred /\ st \in Assets!Backs /\ st \in {"remanifest", "reindex"}
  BY <1>4 DEF Assets!MovedBack, Assets!GoesTo, Assets!Backs
<1>6. /\ op' \in OpRec /\ op'.stage = st /\ op'.kind = op.kind /\ op'.then = op.then /\ op'.todo = op.todo
      /\ op'.at = op.at /\ op'.done = op.done /\ op'.store = op.store /\ op'.beside = op.beside
  BY <1>3, <1>5, OpStage
<1>7. Backwards' /\ IndexKept'
  BY <1>1, <1>3, <1>4, <1>5, <1>6 DEF UnderWay, Backwards, IndexKept
<1>8. Packs'
  <2>1. op'.kind = "trash" => TrashPack'
    BY <1>1, <1>3, <1>5, <1>6 DEF UnderWay, Packs, TrashPack
  <2>2. op'.kind = "restore" => RestorePack'
    <3>1. FreshIn(op.then.manifest, op.then.files) => FreshIn(op.then.manifest, op.then.files)'
      BY <1>1, <1>6 DEF FreshIn
    <3> QED BY <1>1, <1>3, <1>4, <1>5, <1>6, <3>1 DEF UnderWay, Packs, RestorePack
  <2>3. op'.kind \in {"import", "repair"} => manifest' = op'.then.manifest /\ files' = op'.then.files
    BY <1>1, <1>3, <1>6 DEF UnderWay, Packs
  <2> QED BY <2>1, <2>2, <2>3 DEF Packs
<1>9. manifest' \in ManifestFun /\ index' \in SUBSET Sessions /\ FreshIn(manifest', files)
  BY <1>1, <1>3 DEF AssetTypes
<1> QED BY <1>1, <1>2, <1>5, <1>7, <1>8, <1>9, StageTurns

\* A trash's or a restore's moves are taken back.
LEMMA MoveBackKeeps ==
  ASSUME AssetsInv, Assets!MoveBack
  PROVE  AssetsInv'
<1>1. /\ op.stage = "back" /\ op.kind \in {"trash", "restore"} /\ op.kind # "none"
      /\ op.stage \in Assets!Backs
      /\ UNCHANGED <<index, manifest, made, repaired, stored, rows, known>>
  BY DEF Assets!MoveBack, Assets!Backs
<1>2. AssetTypes /\ UnderWay /\ op \in OpRec /\ FreshIn(manifest, files)
  BY <1>1, OpIs DEF AssetsInv
<1>3. CASE Assets!Breaks /\ UNCHANGED <<home, files>>
  BY <1>1, <1>2, <1>3, Over DEF Assets!Breaks, AssetTypes, FreshIn
<1>4. ASSUME NEW s \in op.done,
             IF op.kind = "trash"
             THEN /\ home' = home \cup {s} /\ files' = [files EXCEPT ![made] = @ \ {s}]
             ELSE /\ home' = home \ {s} /\ files' = [files EXCEPT ![op.at[s]] = @ \cup {s}],
             op' = [op EXCEPT !.done = @ \ {s}], UNCHANGED scarred
      PROVE  AssetsInv'
  <2>1. s \in Sessions
    BY <1>2 DEF OpRec
  <2>2. /\ op' \in OpRec /\ op'.stage = "back" /\ op'.kind = op.kind /\ op'.then = op.then /\ op'.at = op.at
        /\ op'.todo = op.todo /\ op'.done = op.done \ {s} /\ op'.store = op.store /\ op'.beside = op.beside
    BY <1>1, <1>2, <1>4 DEF OpRec
  <2>3. Backwards' /\ IndexKept' /\ RowsKept'
    BY <1>1, <1>2, <2>2 DEF UnderWay, Backwards, IndexKept, RowsKept
  <2>4. CASE op.kind = "trash"
    <3>1. TrashPack /\ s \in op.then.home /\ made \in Assets!Packages /\ made \in Nat
      BY <1>2, <2>4, DesktopAssumption DEF UnderWay, Packs, TrashPack, HomeKept, AssetTypes
    <3>2. /\ files' \in FilesFun /\ files'[made] = op.done \ {s}
          /\ \A p \in Assets!Packages : p # made => files'[p] = files[p]
      BY <1>2, <1>4, <2>4, <3>1 DEF AssetTypes, FilesFun, TrashPack
    <3>3. home' = home \cup {s}
      BY <1>4, <2>4
    <3>4. AssetTypes'
      BY <1>1, <1>2, <1>4, <2>1, <2>2, <3>2, <3>3 DEF AssetTypes
    <3>5. FreshIn(manifest, files)'
      <4>1. \A p \in Assets!Packages : p > made => p # made
        BY <3>1 DEF Assets!Packages
      <4> QED BY <1>1, <1>2, <3>2, <4>1 DEF FreshIn
    <3>6. HomeKept' /\ HomeGrown'
      BY <1>2, <2>2, <2>4, <3>1, <3>3 DEF UnderWay, HomeKept, HomeGrown
    <3>7. KnownFound'
      BY <1>1, <1>2, <1>4, <2>2, <3>3 DEF UnderWay, KnownFound, PackedIn
    <3>8. TrashPack'
      BY <1>1, <2>2, <3>1, <3>2 DEF TrashPack
    <3>9. Packs'
      BY <2>2, <2>4, <3>8 DEF Packs
    <3> QED BY <1>1, <2>2, <2>3, <3>4, <3>5, <3>6, <3>7, <3>9 DEF AssetsInv, UnderWay
  <2>5. CASE op.kind = "restore"
    <3>1. RestorePack /\ s \notin op.then.home
      BY <1>2, <2>5 DEF UnderWay, Packs, HomeKept
    <3>2. PICK p \in Assets!Packages :
            p = op.at[s] /\ p <= made /\ s \in op.then.files[p] /\ op.then.manifest[p][s] # "out"
      BY <3>1 DEF RestorePack
    <3>3. home' = home \ {s} /\ files' = [files EXCEPT ![p] = files[p] \cup {s}]
      BY <1>4, <2>5, <3>2
    <3>4. /\ files' \in FilesFun
          /\ \A r \in Assets!Packages, x \in Sessions :
               x \in files'[r] <=> x \in files[r] \/ (x = s /\ r = p)
          /\ \A r \in Assets!Packages : r # p => files'[r] = files[r]
      BY <1>2, <2>1, <3>3 DEF AssetTypes, FilesFun
    <3>5. AssetTypes'
      BY <1>1, <1>2, <1>4, <2>2, <3>3, <3>4 DEF AssetTypes
    <3>6. FreshIn(manifest, files)'
      <4>1. made \in Nat /\ p \in Nat
        BY <1>2, DesktopAssumption DEF AssetTypes, Assets!Packages
      <4>2. \A r \in Assets!Packages : r > made => r # p
        BY <3>2, <4>1
      <4> QED BY <1>1, <1>2, <3>4, <4>2 DEF FreshIn
    <3>7. HomeKept' /\ HomeGrown'
      BY <1>2, <2>2, <2>5, <3>1, <3>3 DEF UnderWay, HomeKept, HomeGrown
    <3>8. KnownFound'
      <4>1. PackedIn(s, op.then.manifest, op.then.files)
        BY <3>2 DEF PackedIn
      <4> QED BY <1>1, <1>2, <1>4, <2>2, <3>3, <4>1 DEF UnderWay, KnownFound, PackedIn
    <3>9. RestorePack'
      <4>1. \A r \in Assets!Packages, x \in Sessions :
              x \in files'[r] <=> x \in op'.then.files[r] /\ ~(x \in op'.done /\ op'.at[x] = r)
        BY <2>2, <3>1, <3>2, <3>4 DEF RestorePack
      <4>2. \A x \in op'.todo \cup op'.done :
              /\ op'.at[x] \in Assets!Packages /\ op'.at[x] <= made'
              /\ x \in op'.then.files[op'.at[x]] /\ op'.then.manifest[op'.at[x]][x] # "out"
        BY <1>1, <2>2, <3>1 DEF RestorePack
      <4>3. FreshIn(op.then.manifest, op.then.files)'
        BY <1>1, <2>2, <3>1 DEF RestorePack, FreshIn
      <4>4. op'.stage \in Assets!Backs
        BY <1>1, <2>2
      <4> QED BY <2>2, <4>1, <4>2, <4>3, <4>4 DEF RestorePack
    <3>10. Packs'
      BY <2>2, <2>5, <3>9 DEF Packs
    <3> QED BY <1>1, <2>2, <2>3, <3>5, <3>6, <3>7, <3>8, <3>10 DEF AssetsInv, UnderWay
  <2> QED BY <1>1, <2>4, <2>5
<1> QED BY <1>3, <1>4 DEF Assets!MoveBack

\* What an import has written is deleted.
LEMMA UnimportKeeps ==
  ASSUME AssetsInv, Assets!Unimport
  PROVE  AssetsInv'
<1>1. /\ op.stage = "back" /\ op.kind = "import" /\ op.kind # "none"
      /\ op.stage \in Assets!Backs
      /\ UNCHANGED <<index, manifest, files, made, repaired, stored, rows, known>>
  BY DEF Assets!Unimport, Assets!Backs
<1>2. AssetTypes /\ UnderWay /\ op \in OpRec /\ FreshIn(manifest, files)
  BY <1>1, OpIs DEF AssetsInv
<1>3. CASE Assets!Breaks /\ UNCHANGED home
  BY <1>1, <1>2, <1>3, Over DEF Assets!Breaks, AssetTypes, FreshIn
<1>4. CASE home' = home \ op.done /\ op' = [op EXCEPT !.done = {}] /\ UNCHANGED scarred
  <2>1. /\ op' \in OpRec /\ op'.stage = "back" /\ op'.kind = op.kind /\ op'.then = op.then
        /\ op'.todo = op.todo /\ op'.done = {} /\ op'.store = op.store /\ op'.beside = op.beside
    BY <1>1, <1>2, <1>4 DEF OpRec
  <2>2. AssetTypes'
    BY <1>1, <1>2, <1>4, <2>1 DEF AssetTypes
  <2>3. FreshIn(manifest, files)'
    BY <1>1, <1>2 DEF FreshIn
  <2>4. HomeKept' /\ HomeGrown'
    BY <1>1, <1>2, <1>4, <2>1 DEF UnderWay, HomeKept, HomeGrown
  <2>5. Backwards' /\ IndexKept' /\ RowsKept'
    BY <1>1, <1>2, <2>1 DEF UnderWay, Backwards, IndexKept, RowsKept
  <2>6. KnownFound'
    BY <1>1, <1>2, <1>4, <2>1 DEF UnderWay, KnownFound, PackedIn, HomeKept
  <2>7. Packs'
    BY <1>1, <1>2, <2>1 DEF UnderWay, Packs
  <2> QED BY <1>1, <2>1, <2>2, <2>3, <2>4, <2>5, <2>6, <2>7 DEF AssetsInv, UnderWay
<1> QED BY <1>3, <1>4 DEF Assets!Unimport

\* Once everything is taken back, each session is where it was found, or where codex wrote it.
LEMMA BackSafe ==
  ASSUME AssetsInv, op.kind # "none", op.done = {} \/ op.kind # "trash",
         op.then.home \subseteq home', home \cap op.beside \subseteq home',
         manifest' = op.then.manifest, files' = op.then.files, UNCHANGED <<known, scarred>>
  PROVE  ~scarred' => AllSafe'
<1>1. KnownFound
  BY DEF AssetsInv, UnderWay
<1>2. \A s : PackedIn(s, op.then.manifest, op.then.files) => PackedIn(s, manifest, files)'
  BY DEF PackedIn
<1> QED BY <1>1, <1>2 DEF KnownFound, AllSafe

\* What the files of the packages are once a trash or a restore has taken its moves back.
LEMMA PackedBack ==
  ASSUME AssetsInv, op.kind # "none", op.done = {}
  PROVE  /\ files = op.then.files
         /\ op.then.manifest \in ManifestFun
         /\ op.kind = "restore" => FreshIn(op.then.manifest, op.then.files)
<1>1. AssetTypes /\ Packs /\ op \in OpRec /\ op.then \in FoundRec
  BY OpIs DEF AssetsInv, UnderWay
<1>2. /\ files \in FilesFun /\ op.then.files \in FilesFun /\ op.then.manifest \in ManifestFun
      /\ op.kind \in {"trash", "restore", "import", "repair"}
  BY <1>1 DEF AssetTypes, FoundRec, OpRec, Assets!Kinds
<1>3. CASE op.kind = "trash"
  <2>1. \A p \in Assets!Packages : files[p] = op.then.files[p]
    BY <1>1, <1>3 DEF Packs, TrashPack
  <2> QED BY <1>2, <1>3, <2>1 DEF FilesFun
<1>4. CASE op.kind = "restore"
  <2>1. \A p \in Assets!Packages, s \in Sessions : s \in files[p] <=> s \in op.then.files[p]
    BY <1>1, <1>4 DEF Packs, RestorePack
  <2>2. \A p \in Assets!Packages : files[p] \subseteq Sessions /\ op.then.files[p] \subseteq Sessions
    BY <1>2 DEF FilesFun
  <2>3. \A p \in Assets!Packages : files[p] = op.then.files[p]
    BY <2>1, <2>2
  <2> QED BY <1>1, <1>2, <1>4, <2>3 DEF FilesFun, Packs, RestorePack
<1>5. CASE op.kind \in {"import", "repair"}
  BY <1>1, <1>2, <1>5 DEF Packs
<1> QED BY <1>2, <1>3, <1>4, <1>5

\* restore: the manifests are written as they were found.
LEMMA ManifestsBackKeeps ==
  ASSUME AssetsInv, Assets!ManifestsBack
  PROVE  AssetsInv'
<1>1. /\ op.stage = "remanifest" /\ op.stage \in Assets!Backs
      /\ UNCHANGED <<home, index, files, made, repaired, stored, rows, known>>
  BY DEF Assets!ManifestsBack, Assets!Backs
<1>2. op.kind # "none"
  BY <1>1, OpIs, IdleFields DEF AssetsInv
<1>3. AssetTypes /\ UnderWay /\ op \in OpRec /\ FreshIn(manifest, files) /\ op.kind = "restore" /\ op.done = {}
  BY <1>1, <1>2, OpIs DEF AssetsInv, UnderWay, Backwards
<1>4. /\ files = op.then.files /\ op.then.manifest \in ManifestFun
      /\ FreshIn(op.then.manifest, files)
  BY <1>2, <1>3, PackedBack
<1>5. \/ manifest' = op.then.manifest /\ Assets!GoesTo("reindex")
      \/ manifest' \in {manifest, op.then.manifest} /\ Assets!Breaks
  BY DEF Assets!ManifestsBack, Assets!Writes
<1>6. manifest' \in ManifestFun /\ FreshIn(manifest', files)
  BY <1>3, <1>4, <1>5 DEF AssetTypes
<1>7. CASE Assets!Breaks
  BY <1>1, <1>3, <1>6, <1>7, Over DEF Assets!Breaks, AssetTypes
<1>8. CASE manifest' = op.then.manifest /\ Assets!GoesTo("reindex")
  <2>1. op' = [op EXCEPT !.stage = "reindex"] /\ UNCHANGED scarred /\ "reindex" \in Assets!Backs
    BY <1>8 DEF Assets!GoesTo, Assets!Backs
  <2>2. /\ op' \in OpRec /\ op'.stage = "reindex" /\ op'.kind = op.kind /\ op'.then = op.then
        /\ op'.todo = op.todo /\ op'.at = op.at /\ op'.done = op.done /\ op'.store = op.store /\ op'.beside = op.beside
    BY <1>3, <2>1, OpStage
  <2>3. Backwards' /\ IndexKept'
    BY <1>3, <2>2 DEF Backwards, IndexKept
  <2>4. RestorePack'
    <3>1. FreshIn(op.then.manifest, op.then.files)'
      BY <1>1, <1>4, <2>2 DEF FreshIn
    <3> QED BY <1>1, <1>3, <1>8, <2>1, <2>2, <3>1 DEF UnderWay, Packs, RestorePack
  <2>5. Packs'
    BY <1>3, <2>2, <2>4 DEF Packs
  <2>6. index' \in SUBSET Sessions
    BY <1>1, <1>3 DEF AssetTypes
  <2> QED BY <1>1, <1>2, <1>6, <2>1, <2>3, <2>5, <2>6, StageTurns
<1> QED BY <1>5, <1>7, <1>8

\* The index is written as it was found.
LEMMA ReindexKeeps ==
  ASSUME AssetsInv, Assets!Reindex
  PROVE  AssetsInv'
<1>1. /\ op.stage = "reindex" /\ op.stage \in Assets!Backs
      /\ UNCHANGED <<home, manifest, files, made, repaired, stored, rows, known>>
  BY DEF Assets!Reindex, Assets!Backs
<1>2. op.kind # "none"
  BY <1>1, OpIs, IdleFields DEF AssetsInv
<1>3. /\ AssetTypes /\ UnderWay /\ op \in OpRec /\ FreshIn(manifest, files) /\ op.done = {}
      /\ op.kind \in {"trash", "restore", "import"} /\ op.then \in FoundRec
  BY <1>1, <1>2, OpIs DEF AssetsInv, UnderWay, Backwards, OpRec, Assets!Kinds
<1>4. \/ index' = op.then.index /\ (IF op.kind = "trash" THEN Assets!GoesTo("remove") ELSE Assets!Ends)
      \/ index' \in {index, op.then.index} /\ Assets!Breaks
  BY DEF Assets!Reindex, Assets!Writes
<1>5. index' \in SUBSET Sessions
  BY <1>3, <1>4 DEF AssetTypes, FoundRec
<1>6. CASE Assets!Breaks
  BY <1>1, <1>3, <1>5, <1>6, Over DEF Assets!Breaks, AssetTypes, FreshIn
<1>7. CASE op.kind = "trash" /\ index' = op.then.index /\ Assets!GoesTo("remove")
  <2>1. op' = [op EXCEPT !.stage = "remove"] /\ UNCHANGED scarred /\ "remove" \in Assets!Backs
    BY <1>7 DEF Assets!GoesTo, Assets!Backs
  <2>2. /\ op' \in OpRec /\ op'.stage = "remove" /\ op'.kind = op.kind /\ op'.then = op.then
        /\ op'.todo = op.todo /\ op'.done = op.done /\ op'.store = op.store /\ op'.beside = op.beside
    BY <1>3, <2>1, OpStage
  <2>3. Backwards' /\ IndexKept'
    BY <1>3, <1>7, <2>1, <2>2 DEF Backwards, IndexKept
  <2>4. Packs'
    BY <1>1, <1>3, <1>7, <2>2 DEF UnderWay, Packs, TrashPack
  <2>5. manifest' \in ManifestFun /\ FreshIn(manifest', files)
    BY <1>1, <1>3 DEF AssetTypes
  <2> QED BY <1>1, <1>2, <1>5, <2>1, <2>3, <2>4, <2>5, StageTurns
<1>8. CASE op.kind # "trash" /\ Assets!Ends
  <2>1. op' = Assets!Idle /\ UNCHANGED scarred
    BY <1>8 DEF Assets!Ends
  <2>2. manifest = op.then.manifest /\ op.then.home \subseteq home
    BY <1>1, <1>3, <1>8 DEF UnderWay, Packs, RestorePack, HomeKept
  <2>3. files = op.then.files
    BY <1>2, <1>3, PackedBack
  <2>4. ~scarred' => AllSafe'
    BY <1>1, <1>2, <1>3, <2>1, <2>2, <2>3, BackSafe
  <2> QED BY <1>1, <1>3, <1>5, <2>1, <2>4, Over DEF AssetTypes, FreshIn
<1> QED BY <1>4, <1>6, <1>7, <1>8

\* What a package removed leaves is what the trash found.
LEMMA Removed ==
  ASSUME AssetsInv, op.stage = "remove",
         manifest' = [manifest EXCEPT ![made] = Assets!NoManifest],
         files' = [files EXCEPT ![made] = {}]
  PROVE  manifest' = op.then.manifest /\ files' = op.then.files /\ op.kind = "trash" /\ op.done = {}
<1>1. op.kind # "none"
  BY OpIs, IdleFields DEF AssetsInv
<1>2. /\ AssetTypes /\ UnderWay /\ op.kind = "trash" /\ op.done = {} /\ op.then \in FoundRec /\ TrashPack
  BY <1>1, OpIs DEF AssetsInv, UnderWay, Backwards, Packs
<1>3. /\ manifest \in ManifestFun /\ op.then.manifest \in ManifestFun
      /\ files \in FilesFun /\ op.then.files \in FilesFun
  BY <1>2 DEF AssetTypes, FoundRec
<1>4. /\ DOMAIN manifest' = Assets!Packages /\ DOMAIN files' = Assets!Packages
      /\ \A p \in Assets!Packages : manifest'[p] = op.then.manifest[p] /\ files'[p] = op.then.files[p]
  BY <1>2, <1>3 DEF TrashPack, ManifestFun, FilesFun
<1>5. manifest' = op.then.manifest
  BY <1>3, <1>4 DEF ManifestFun
<1>6. files' = op.then.files
  BY <1>3, <1>4 DEF FilesFun
<1> QED BY <1>2, <1>5, <1>6

\* The package of a trash that failed is removed.
LEMMA RemoveKeeps ==
  ASSUME AssetsInv, Assets!Remove
  PROVE  AssetsInv'
<1>1. /\ op.stage = "remove" /\ op.stage \in Assets!Backs
      /\ UNCHANGED <<home, index, made, repaired, stored, rows, known>>
  BY DEF Assets!Remove, Assets!Backs
<1>2. op.kind # "none"
  BY <1>1, OpIs, IdleFields DEF AssetsInv
<1>3. /\ AssetTypes /\ UnderWay /\ op \in OpRec /\ FreshIn(manifest, files) /\ op.then \in FoundRec
  BY <1>2, OpIs DEF AssetsInv
<1>4. CASE Assets!Breaks /\ UNCHANGED <<manifest, files>>
  BY <1>1, <1>3, <1>4, Over DEF Assets!Breaks, AssetTypes, FreshIn
<1>5. CASE /\ manifest' = [manifest EXCEPT ![made] = Assets!NoManifest]
           /\ files' = [files EXCEPT ![made] = {}] /\ Assets!Ends
  <2>1. op' = Assets!Idle /\ UNCHANGED scarred
    BY <1>5 DEF Assets!Ends
  <2>2. manifest' = op.then.manifest /\ files' = op.then.files /\ op.kind = "trash" /\ op.done = {}
    BY <1>1, <1>5, Removed
  <2>3. manifest' \in ManifestFun /\ files' \in FilesFun
    BY <1>3, <2>2 DEF FoundRec
  <2>4. op.then.home \subseteq home
    BY <1>3, <2>2 DEF UnderWay, HomeKept
  <2>5. ~scarred' => AllSafe'
    BY <1>1, <1>2, <2>1, <2>2, <2>4, BackSafe
  <2>6. FreshIn(manifest', files')
    BY <1>3, <1>5 DEF FreshIn, AssetTypes, ManifestFun, FilesFun
  <2> QED BY <1>1, <1>3, <2>1, <2>3, <2>5, <2>6, Over DEF AssetTypes
<1> QED BY <1>4, <1>5 DEF Assets!Remove

\* A repair's rollouts are written as they were, one after the other.
LEMMA UnrepairKeeps ==
  ASSUME AssetsInv, Assets!Unrepair
  PROVE  AssetsInv'
<1>1. /\ op.stage = "back" /\ op.kind = "repair" /\ op.kind # "none" /\ op.stage \in Assets!Backs
      /\ UNCHANGED <<home, index, manifest, files, made, stored, rows, known>>
  BY DEF Assets!Unrepair, Assets!Backs
<1>2. /\ AssetTypes /\ UnderWay /\ op \in OpRec /\ FreshIn(manifest, files) /\ op.then \in FoundRec
  BY <1>1, OpIs DEF AssetsInv
<1>3. CASE op.done = {} /\ Assets!Ends /\ UNCHANGED repaired
  <2>1. op' = Assets!Idle /\ UNCHANGED scarred
    BY <1>3 DEF Assets!Ends
  <2>2. /\ op.then.home \subseteq home /\ manifest = op.then.manifest /\ files = op.then.files
    BY <1>1, <1>2 DEF UnderWay, HomeKept, Packs
  <2>3. ~scarred' => AllSafe'
    BY <1>1, <2>1, <2>2, BackSafe
  <2> QED BY <1>1, <1>2, <1>3, <2>1, <2>3, Over DEF AssetTypes, FreshIn
<1>4. ASSUME NEW s \in op.done, repaired' \in {repaired, repaired \ {s}}, Assets!Breaks
      PROVE  AssetsInv'
  <2>1. repaired' \in SUBSET Sessions
    BY <1>2, <1>4 DEF AssetTypes
  <2> QED BY <1>1, <1>2, <1>4, <2>1, Over DEF Assets!Breaks, AssetTypes, FreshIn
<1>5. ASSUME NEW s \in op.done, repaired' = repaired \ {s}, op' = [op EXCEPT !.done = @ \ {s}], UNCHANGED scarred
      PROVE  AssetsInv'
  <2>1. /\ op' \in OpRec /\ op'.stage = "back" /\ op'.kind = op.kind /\ op'.then = op.then
        /\ op'.todo = op.todo /\ op'.done = op.done \ {s} /\ op'.store = op.store /\ op'.beside = op.beside
    BY <1>1, <1>2, <1>5 DEF OpRec
  <2>2. AssetTypes'
    BY <1>1, <1>2, <1>5, <2>1 DEF AssetTypes
  <2>3. FreshIn(manifest, files)'
    BY <1>1, <1>2 DEF FreshIn
  <2>4. home \subseteq op.then.home \cup op.beside
    BY <1>1, <1>2 DEF UnderWay, HomeKept, HomeGrown
  <2>5. HomeKept' /\ HomeGrown'
    BY <1>1, <1>2, <2>1, <2>4 DEF UnderWay, HomeKept, HomeGrown
  <2>6. Backwards' /\ IndexKept'
    BY <1>1, <1>2, <2>1 DEF UnderWay, Backwards, IndexKept
  <2>7. RowsKept'
    BY <1>1, <1>2, <1>5, <2>1 DEF UnderWay, RowsKept
  <2>8. KnownFound'
    BY <1>1, <1>2, <1>5, <2>1 DEF UnderWay, KnownFound, PackedIn
  <2>9. Packs'
    BY <1>1, <1>2, <2>1 DEF UnderWay, Packs
  <2> QED BY <1>1, <2>1, <2>2, <2>3, <2>5, <2>6, <2>7, <2>8, <2>9 DEF AssetsInv, UnderWay
<1> QED BY <1>3, <1>4, <1>5 DEF Assets!Unrepair, Assets!Writes

\* What codex's rows come to.
LEMMA CodexRows ==
  ASSUME AssetTypes, NEW s \in Sessions, NEW into, NEW named, Assets!CodexWrites(s, into, named)
  PROVE  /\ stored' \in StoreFun /\ rows' \in StoreFun
         /\ DOMAIN stored' = DOMAIN stored /\ DOMAIN rows' = DOMAIN stored
         /\ \A d \in DOMAIN stored : stored[d] \subseteq stored'[d]
         /\ \A d \in DOMAIN stored, x \in Sessions \ {s} :
              (x \in stored'[d] <=> x \in stored[d]) /\ (x \in rows'[d] <=> x \in rows[d])
<1>1. PICK there \in SUBSET Assets!Stores : stored \in [there -> SUBSET Sessions]
  BY DEF AssetTypes, StoreFun
<1>2. rows \in [there -> SUBSET Sessions]
  BY <1>1 DEF AssetTypes, StoreFun
<1>3. PICK gets : /\ stored' = [d \in DOMAIN stored |-> stored[d] \cup {t \in {s} : d \in gets}]
                  /\ rows' = [d \in DOMAIN rows |-> rows[d] \cup {t \in {s} : d \in gets /\ named}]
  BY DEF Assets!CodexWrites
<1>4. stored' \in [there -> SUBSET Sessions] /\ rows' \in [there -> SUBSET Sessions]
  BY <1>1, <1>2, <1>3
<1> QED BY <1>1, <1>2, <1>3, <1>4 DEF StoreFun

\* Codex writes beside.
LEMMA CodexWritesKeeps ==
  ASSUME AssetsInv, NEW s \in Sessions, NEW into, NEW named, Assets!CodexWrites(s, into, named)
  PROVE  AssetsInv'
<1>1. /\ op.kind = "import" => s \notin op.todo \cup op.done
      /\ home' = home \cup {s} /\ index' = index \cup {s}
      /\ repaired' \in {repaired \cup {s}, repaired \ {s}}
      /\ known' = known \cup {s}
      /\ op' = IF op.kind = "none" THEN op ELSE [op EXCEPT !.beside = @ \cup {s}]
      /\ UNCHANGED <<manifest, files, made, scarred>>
  BY DEF Assets!CodexWrites
<1>2. AssetTypes /\ FreshIn(manifest, files)
  BY DEF AssetsInv
<1>3. /\ home' \in SUBSET Sessions /\ index' \in SUBSET Sessions /\ known' \in SUBSET Sessions
      /\ repaired' \in SUBSET Sessions
  BY <1>1, <1>2 DEF AssetTypes
<1>7. /\ stored' \in StoreFun /\ rows' \in StoreFun
      /\ DOMAIN stored' = DOMAIN stored /\ DOMAIN rows' = DOMAIN stored
      /\ \A d \in DOMAIN stored : stored[d] \subseteq stored'[d]
      /\ \A d \in DOMAIN stored, x \in Sessions \ {s} :
           (x \in stored'[d] <=> x \in stored[d]) /\ (x \in rows'[d] <=> x \in rows[d])
  BY <1>2, CodexRows
<1>4. FreshIn(manifest, files)'
  BY <1>1, <1>2 DEF FreshIn
<1>5. CASE op.kind = "none"
  <2>1. op' = op
    BY <1>1, <1>5
  <2>2. AssetTypes'
    BY <1>1, <1>2, <1>3, <1>7, <2>1 DEF AssetTypes
  <2>3. ~scarred' => AllSafe'
    BY <1>1, <1>5 DEF AssetsInv, AllSafe, PackedIn
  <2> QED BY <1>4, <1>5, <2>1, <2>2, <2>3 DEF AssetsInv
<1>6. CASE op.kind # "none"
  <2>1. op \in OpRec /\ UnderWay
    BY <1>2, <1>6, OpIs DEF AssetsInv
  <2>2. op' = [op EXCEPT !.beside = @ \cup {s}]
    BY <1>1, <1>6
  <2>3. /\ op' \in OpRec /\ op'.stage = op.stage /\ op'.kind = op.kind /\ op'.then = op.then /\ op'.at = op.at
        /\ op'.todo = op.todo /\ op'.done = op.done /\ op'.store = op.store /\ op'.beside = op.beside \cup {s}
    BY <2>1, <2>2 DEF OpRec
  <2>4. AssetTypes'
    BY <1>1, <1>2, <1>3, <1>7, <2>3 DEF AssetTypes
  <2>5. HomeKept'
    BY <1>1, <2>1, <2>3 DEF UnderWay, HomeKept
  <2>6. HomeGrown'
    <3>1. home' \ (op'.then.home \cup op'.done \cup op'.beside) \subseteq home \ (op.then.home \cup op.done \cup op.beside)
      BY <1>1, <2>3
    <3> QED BY <2>1, <2>3, <3>1 DEF UnderWay, HomeGrown
  <2>7. Backwards' /\ IndexKept'
    BY <1>1, <2>1, <2>3 DEF UnderWay, Backwards, IndexKept
  <2>8. RowsKept'
    <3>1. PICK n : n = op.store
      OBVIOUS
    <3>2. RowsAre(rows', stored', n, op.then.rows, op.beside \cup {s})
      BY <1>7, <2>1, <3>1 DEF UnderWay, RowsKept, RowsAre
    <3>3. \A x \in Sessions \ {s} : Covered(x, stored', n, op.then.home) <=> Covered(x, stored, n, op.then.home)
      BY <1>7 DEF Covered
    <3>4. op.kind = "repair" => n \in DOMAIN stored' /\ op.done \subseteq stored'[n]
      BY <1>7, <2>1, <3>1 DEF UnderWay, RowsKept
    <3>5. \A x \in Sessions \ {s} : x \in repaired' <=> x \in repaired
      BY <1>1
    <3> QED BY <2>1, <2>3, <3>1, <3>2, <3>3, <3>4, <3>5 DEF UnderWay, RowsKept
  <2>9. KnownFound'
    BY <1>1, <2>1, <2>3 DEF UnderWay, KnownFound, PackedIn
  <2>10. Packs'
    <3>1. op'.kind = "trash" => TrashPack'
      BY <1>1, <2>1, <2>3 DEF UnderWay, Packs, TrashPack
    <3>2. op'.kind = "restore" => RestorePack'
      <4>1. FreshIn(op.then.manifest, op.then.files) => FreshIn(op.then.manifest, op.then.files)'
        BY <1>1, <2>3 DEF FreshIn
      <4> QED BY <1>1, <2>1, <2>3, <4>1 DEF UnderWay, Packs, RestorePack
    <3>3. op'.kind \in {"import", "repair"} => manifest' = op'.then.manifest /\ files' = op'.then.files
      BY <1>1, <2>1, <2>3 DEF UnderWay, Packs
    <3> QED BY <3>1, <3>2, <3>3 DEF Packs
  <2> QED BY <1>4, <1>6, <2>3, <2>4, <2>5, <2>6, <2>7, <2>8, <2>9, <2>10 DEF AssetsInv, UnderWay
<1> QED BY <1>5, <1>6

\* A step of the account feature's actions on sessions keeps the invariant.
LEMMA AssetsStep ==
  ASSUME AssetsInv, Assets!Next \/ UNCHANGED assets
  PROVE  AssetsInv'
<1>1. ASSUME NEW want \in SUBSET Sessions, Assets!Trash(want) \/ Assets!Restore(want) \/ Assets!Import(want)
      PROVE  AssetsInv'
  BY <1>1, BeginsKeep, RestoreBegins
<1>2. CASE Assets!Repair
  <2>1. {} \in SUBSET Sessions
    OBVIOUS
  <2> QED BY <1>2, <2>1, BeginsKeep
<1>3. CASE \/ Assets!TrashManifest \/ Assets!TrashMove \/ Assets!RestoreMove \/ Assets!RestoreManifest
           \/ Assets!ImportWrite \/ Assets!WriteIndex \/ Assets!RepairRollout \/ Assets!RepairCommit
  BY <1>3, TrashManifestKeeps, TrashMoveKeeps, RestoreMoveKeeps, RestoreManifestKeeps,
     ImportWriteKeeps, WriteIndexKeeps, RepairRolloutKeeps, RepairCommitKeeps
<1>4. CASE \/ Assets!MoveBack \/ Assets!Unimport \/ Assets!Unrepair \/ Assets!MovedBack
           \/ Assets!ManifestsBack \/ Assets!Reindex \/ Assets!Remove \/ Assets!Crash
  BY <1>4, MoveBackKeeps, UnimportKeeps, UnrepairKeeps, MovedBackKeeps,
     ManifestsBackKeeps, ReindexKeeps, RemoveKeeps, DiesKeeps
<1>5. ASSUME NEW s \in Sessions, NEW into \in Into, NEW named \in BOOLEAN, Assets!CodexWrites(s, into, named)
      PROVE  AssetsInv'
  BY <1>5, CodexWritesKeeps
<1>6. CASE UNCHANGED assets
  <2>1. UNCHANGED <<home, index, manifest, files, made, repaired, stored, rows, op, known, scarred>>
    BY <1>6 DEF assets
  <2> QED BY <2>1 DEF AssetsInv, AssetTypes, FreshIn, AllSafe, PackedIn, UnderWay, HomeKept, HomeGrown,
     Backwards, Packs, TrashPack, RestorePack, IndexKept, RowsKept, KnownFound
<1> QED BY <1>1, <1>2, <1>3, <1>4, <1>5, <1>6 DEF Assets!Next

\* It holds at first.
LEMMA AssetsStart == ASSUME Assets!Init PROVE AssetsInv
<1>1. First \subseteq Sessions /\ MaxPackages \in Nat
  BY DesktopAssumption
<1>2. Assets!NoManifest \in Assets!Manifests
  BY DEF Assets!NoManifest, Assets!Manifests
<1>3. AssetTypes
  <2>1. home \in SUBSET Sessions /\ index \in SUBSET Sessions /\ known \in SUBSET Sessions
    BY <1>1 DEF Assets!Init
  <2>2. repaired \in SUBSET Sessions /\ made \in 0 .. MaxPackages
    BY <1>1 DEF Assets!Init
  <2>5. stored \in StoreFun /\ rows \in StoreFun /\ DOMAIN rows = DOMAIN stored
    <3>1. PICK there \in SUBSET Assets!Stores : stored \in [there -> SUBSET First] /\ rows = [d \in there |-> {}]
      BY DEF Assets!Init
    <3>2. stored \in [there -> SUBSET Sessions] /\ rows \in [there -> SUBSET Sessions]
      BY <1>1, <3>1
    <3> QED BY <3>1, <3>2 DEF StoreFun
  <2>3. manifest \in ManifestFun /\ files \in FilesFun
    BY <1>2 DEF Assets!Init, ManifestFun, FilesFun
  <2>4. scarred \in BOOLEAN /\ op = Assets!Idle
    BY DEF Assets!Init
  <2> QED BY <2>1, <2>2, <2>3, <2>4, <2>5 DEF AssetTypes
<1>4. FreshIn(manifest, files)
  BY DEF Assets!Init, FreshIn
<1>5. AllSafe
  BY DEF Assets!Init, AllSafe
<1> QED BY <1>3, <1>4, <1>5, IdleFields DEF Assets!Init, AssetsInv

\* Nothing is lost.
LEMMA NothingLost == ASSUME AssetsInv PROVE Assets!NeverLost
<1>1. AssetTypes
  BY DEF AssetsInv
<1>2. op.stage \notin Assets!Backs /\ ~scarred => AllSafe
  BY UnderWaySafe DEF AssetsInv
<1>3. ASSUME NEW s \in known, PackedIn(s, manifest, files)
      PROVE  \E p \in Assets!Packages : s \in files[p] /\ s \in Assets!Items(p)
  <2>1. s \in Sessions
    BY <1>1 DEF AssetTypes
  <2> QED BY <1>3, <2>1 DEF PackedIn, Assets!Items
<1> QED BY <1>2, <1>3 DEF AllSafe, Assets!NeverLost

\* What an action that failed leaves behind, once it has taken back what it did.
NothingDone ==
  op.stage \in Assets!Backs /\ op'.kind = "none" /\ ~scarred' =>
    /\ op.then.home \subseteq home'
    /\ \A s, t \in home' \ (op.then.home \cup op.beside) : op.kind = "import" /\ s = t
    /\ <<manifest', files'>> = <<op.then.manifest, op.then.files>>
    /\ index' \ op.beside = op.then.index \ op.beside
    /\ repaired' \ op.beside =
         (op.then.repaired \cup UNION {stored[d] \cap op.then.home : d \in Assets!Committed}) \ op.beside
    /\ \A d \in DOMAIN stored :
         rows'[d] \ op.beside =
           (IF d \in Assets!Committed THEN stored[d] ELSE op.then.rows[d]) \ op.beside

\* The home, once the moves are taken back.
LEMMA HomeBack ==
  ASSUME AssetsInv, op.kind # "none", op.done = {} \/ op.kind = "repair", UNCHANGED home
  PROVE  /\ op.then.home \subseteq home'
         /\ \A s, t \in home' \ (op.then.home \cup op.beside) : op.kind = "import" /\ s = t
<1>1. HomeKept /\ HomeGrown /\ op.kind \in Assets!Kinds
  BY OpIs DEF AssetsInv, UnderWay, OpRec
<1>2. op.then.home \subseteq home'
  BY <1>1 DEF HomeKept
<1>3. PICK more : more = home' \ (op.then.home \cup op.beside)
  OBVIOUS
<1>4. more = home \ (op.then.home \cup op.done \cup op.beside)
  BY <1>1, <1>3 DEF HomeKept
<1>5. (op.kind # "import" => more = {}) /\ (\A x, y \in more : x = y)
  BY <1>1, <1>4 DEF HomeGrown
<1> QED BY <1>2, <1>3, <1>5

\* What is left of the rollouts and the rows, once a repair has taken its own back.
LEMMA RowsBack ==
  ASSUME AssetsInv, op.kind # "none", op.done = {} \/ op.kind # "repair", UNCHANGED <<repaired, rows>>
  PROVE  /\ repaired' \ op.beside =
              (op.then.repaired \cup UNION {stored[d] \cap op.then.home : d \in Assets!Committed}) \ op.beside
         /\ \A d \in DOMAIN stored :
              rows'[d] \ op.beside =
                (IF d \in Assets!Committed THEN stored[d] ELSE op.then.rows[d]) \ op.beside
<1>1. AssetTypes /\ RowsKept /\ op.then \in FoundRec
  BY OpIs DEF AssetsInv, UnderWay
<1>2. repaired \subseteq Sessions /\ op.then.repaired \subseteq Sessions /\ op.then.home \subseteq Sessions
  BY <1>1 DEF AssetTypes, FoundRec
<1>3. \A s : s \in UNION {stored[d] \cap op.then.home : d \in Assets!Committed}
               <=> Covered(s, stored, op.store, op.then.home)
  BY DEF Covered, Assets!Committed
<1>4. \A s \in Sessions \ op.beside :
        s \in repaired <=> s \in op.then.repaired \/ Covered(s, stored, op.store, op.then.home)
  BY <1>1 DEF RowsKept
<1>5. \A f \in StoreFun : \A d \in DOMAIN f : f[d] \subseteq Sessions
  BY DEF StoreFun
<1>6. /\ DOMAIN rows = DOMAIN stored /\ DOMAIN op.then.rows = DOMAIN stored
      /\ \A d \in DOMAIN stored : rows[d] \subseteq Sessions /\ stored[d] \subseteq Sessions /\ op.then.rows[d] \subseteq Sessions
  BY <1>1, <1>5 DEF AssetTypes, FoundRec, RowsKept, RowsAre
<1>7. ASSUME NEW d \in DOMAIN stored
      PROVE  rows[d] \ op.beside = (IF d \in Assets!Committed THEN stored[d] ELSE op.then.rows[d]) \ op.beside
  <2>1. \A s \in Sessions \ op.beside : s \in rows[d] <=> s \in (IF d < op.store THEN stored[d] ELSE op.then.rows[d])
    BY <1>1 DEF RowsKept, RowsAre
  <2>2. d \in Assets!Committed <=> d < op.store
    BY DEF Assets!Committed
  <2> QED BY <1>6, <2>1, <2>2
<1>8. repaired \ op.beside =
        (op.then.repaired \cup UNION {stored[d] \cap op.then.home : d \in Assets!Committed}) \ op.beside
  <2>1. PICK all : all = UNION {stored[d] \cap op.then.home : d \in Assets!Committed}
    OBVIOUS
  <2>2. all \subseteq Sessions
    BY <1>2, <1>3, <2>1 DEF Covered
  <2>3. repaired \ op.beside = (op.then.repaired \cup all) \ op.beside
    BY <1>2, <1>3, <1>4, <2>1, <2>2
  <2> QED BY <2>1, <2>3
<1> QED BY <1>7, <1>8

\* A repair ends with its own rollouts taken back.
LEMMA UnrepairBack == ASSUME AssetsInv, Assets!Unrepair PROVE NothingDone
<1>1. /\ op.kind = "repair" /\ op.kind # "none"
      /\ UNCHANGED <<home, index, manifest, files, made, stored, rows, known>>
  BY DEF Assets!Unrepair
<1>2. CASE Assets!Breaks
  BY <1>2 DEF Assets!Breaks, NothingDone
<1>3. ASSUME NEW s, op' = [op EXCEPT !.done = @ \ {s}]
      PROVE  NothingDone
  <2>1. op'.kind # "none"
    BY <1>1, <1>3, OpIs DEF AssetsInv, OpRec
  <2> QED BY <2>1 DEF NothingDone
<1>4. CASE op.done = {} /\ UNCHANGED repaired
  <2>1. Packs /\ IndexKept
    BY <1>1 DEF AssetsInv, UnderWay
  <2>2. manifest' = op.then.manifest /\ files' = op.then.files
    BY <1>1, <2>1 DEF Packs
  <2>3. index' \ op.beside = op.then.index \ op.beside
    BY <1>1, <2>1 DEF IndexKept
  <2> QED BY <1>1, <1>4, <2>2, <2>3, HomeBack, RowsBack DEF NothingDone
<1> QED BY <1>2, <1>3, <1>4 DEF Assets!Unrepair, Assets!Writes

\* A restore and an import end with the index they found.
LEMMA ReindexBack == ASSUME AssetsInv, Assets!Reindex PROVE NothingDone
<1>1. op.stage = "reindex" /\ UNCHANGED <<home, manifest, files, made, repaired, stored, rows, known>>
  BY DEF Assets!Reindex
<1>2. op.kind # "none"
  BY <1>1, OpIs, IdleFields DEF AssetsInv
<1>3. /\ AssetTypes /\ Packs /\ op \in OpRec /\ op.done = {}
      /\ op.kind \in {"trash", "restore", "import"}
  BY <1>1, <1>2, OpIs DEF AssetsInv, UnderWay, Backwards, OpRec, Assets!Kinds
<1>4. \/ index' = op.then.index /\ (IF op.kind = "trash" THEN Assets!GoesTo("remove") ELSE Assets!Ends)
      \/ Assets!Breaks
  BY DEF Assets!Reindex, Assets!Writes
<1>5. CASE Assets!Breaks
  BY <1>5 DEF Assets!Breaks, NothingDone
<1>6. CASE op.kind = "trash" /\ Assets!GoesTo("remove")
  <2>1. op' = [op EXCEPT !.stage = "remove"] /\ "remove" \in Assets!Backs
    BY <1>6 DEF Assets!GoesTo, Assets!Backs
  <2>2. op'.kind = op.kind
    BY <1>3, <2>1, OpStage
  <2> QED BY <1>2, <2>2 DEF NothingDone
<1>7. CASE op.kind # "trash" /\ index' = op.then.index
  <2>1. manifest' = op.then.manifest
    BY <1>1, <1>3, <1>7 DEF Packs, RestorePack
  <2>2. files' = op.then.files
    BY <1>1, <1>2, <1>3, PackedBack
  <2> QED BY <1>1, <1>2, <1>3, <1>7, <2>1, <2>2, HomeBack, RowsBack DEF NothingDone
<1> QED BY <1>4, <1>5, <1>6, <1>7

\* A trash ends without its package.
LEMMA RemoveBack == ASSUME AssetsInv, Assets!Remove PROVE NothingDone
<1>1. op.stage = "remove" /\ UNCHANGED <<home, index, made, repaired, stored, rows, known>>
  BY DEF Assets!Remove
<1>2. op.kind # "none"
  BY <1>1, OpIs, IdleFields DEF AssetsInv
<1>3. CASE Assets!Breaks
  BY <1>3 DEF Assets!Breaks, NothingDone
<1>4. CASE manifest' = [manifest EXCEPT ![made] = Assets!NoManifest] /\ files' = [files EXCEPT ![made] = {}]
  <2>1. manifest' = op.then.manifest /\ files' = op.then.files /\ op.kind = "trash" /\ op.done = {}
    BY <1>1, <1>4, Removed
  <2>3. index' \ op.beside = op.then.index \ op.beside
    BY <1>1, <1>2 DEF AssetsInv, UnderWay, IndexKept
  <2> QED BY <1>1, <1>2, <2>1, <2>3, HomeBack, RowsBack DEF NothingDone
<1> QED BY <1>3, <1>4 DEF Assets!Remove

\* Nothing else ends an action that is taking back what it did.
LEMMA BackStep ==
  ASSUME AssetsInv, Assets!Next \/ UNCHANGED assets
  PROVE  NothingDone
<1> SUFFICES ASSUME op.stage \in Assets!Backs, op'.kind = "none", ~scarred'
             PROVE  NothingDone
  BY DEF NothingDone
<1>1. op.kind # "none"
  BY OpIs, IdleFields DEF AssetsInv, Assets!Backs
<1>2. AssetTypes /\ op \in OpRec /\ op.kind \in Assets!Kinds /\ Backwards
  BY <1>1, OpIs DEF AssetsInv, UnderWay, OpRec
<1>3. CASE Assets!Unrepair \/ Assets!Reindex \/ Assets!Remove
  BY <1>3, UnrepairBack, ReindexBack, RemoveBack
<1>4. ASSUME NEW want \in SUBSET Sessions,
             Assets!Trash(want) \/ Assets!Restore(want) \/ Assets!Import(want)
      PROVE  FALSE
  BY <1>1, <1>4 DEF Assets!Trash, Assets!Restore, Assets!Import
<1>5. CASE Assets!Repair
  BY <1>1, <1>5 DEF Assets!Repair
<1>6. CASE \/ Assets!TrashManifest \/ Assets!TrashMove \/ Assets!RestoreMove \/ Assets!RestoreManifest
           \/ Assets!ImportWrite \/ Assets!WriteIndex \/ Assets!RepairRollout \/ Assets!RepairCommit
  BY <1>6 DEF Assets!Backs, Assets!TrashManifest, Assets!TrashMove, Assets!RestoreMove, Assets!RestoreManifest,
     Assets!ImportWrite, Assets!WriteIndex, Assets!RepairRollout, Assets!RepairCommit
<1>7. CASE Assets!Crash
  BY <1>7 DEF Assets!Crash
<1>8. CASE Assets!MovedBack
  <2>1. PICK st : op' = [op EXCEPT !.stage = st]
    BY <1>8 DEF Assets!MovedBack, Assets!GoesTo
  <2> QED BY <1>1, <1>2, <2>1 DEF OpRec
<1>9. CASE Assets!ManifestsBack
  <2>1. op' = [op EXCEPT !.stage = "reindex"] \/ Assets!Breaks
    BY <1>9 DEF Assets!ManifestsBack, Assets!Writes, Assets!GoesTo
  <2> QED BY <1>1, <1>2, <2>1 DEF Assets!Breaks, OpRec
<1>10. CASE Assets!Unimport
  BY <1>1, <1>2, <1>10 DEF Assets!Unimport, Assets!Breaks, OpRec
<1>11. CASE Assets!MoveBack
  <2>1. Assets!Breaks \/ \E s : op' = [op EXCEPT !.done = @ \ {s}]
    BY <1>11 DEF Assets!MoveBack
  <2> QED BY <1>1, <1>2, <2>1 DEF Assets!Breaks, OpRec
<1>12. ASSUME NEW s \in Sessions, NEW into, NEW named, Assets!CodexWrites(s, into, named)
       PROVE  FALSE
  <2>1. op' = [op EXCEPT !.beside = @ \cup {s}]
    BY <1>1, <1>12 DEF Assets!CodexWrites
  <2> QED BY <1>1, <1>2, <2>1 DEF OpRec
<1>13. CASE UNCHANGED assets
  BY <1>1, <1>13 DEF assets
<1> QED BY <1>3, <1>4, <1>5, <1>6, <1>7, <1>8, <1>9, <1>10, <1>11, <1>12, <1>13 DEF Assets!Next

\* No session is lost, wherever an action of the account feature dies or fails (but for the
\* taking back itself); and an action that failed leaves home, packages, rollouts and rows as
\* it found them, but for what codex wrote beside it and for the databases a repair was done
\* with before: what it has changed in them and in their rollouts stays (session_assets.py).
THEOREM AssetsAreKept == Spec => AssetsKept
<1>1. Init => AssetsInv
  BY PartsInit, AssetsStart
<1>2. AssetsInv /\ [Next]_vars => AssetsInv'
  BY PartSteps, AssetsStep
<1>3. AssetsInv => Assets!NeverLost
  BY NothingLost
<1>4. AssetsInv /\ [Next]_vars =>
        [op.stage \in Assets!Backs /\ op'.kind = "none" /\ ~scarred' =>
           /\ op.then.home \subseteq home'
           /\ \A s, t \in home' \ (op.then.home \cup op.beside) : op.kind = "import" /\ s = t
           /\ <<manifest', files'>> = <<op.then.manifest, op.then.files>>
           /\ index' \ op.beside = op.then.index \ op.beside
           /\ repaired' \ op.beside =
                (op.then.repaired \cup UNION {stored[d] \cap op.then.home : d \in Assets!Committed}) \ op.beside
           /\ \A d \in DOMAIN stored :
                rows'[d] \ op.beside =
                  (IF d \in Assets!Committed THEN stored[d] ELSE op.then.rows[d]) \ op.beside]_Assets!vars
  BY PartSteps, BackStep DEF NothingDone
<1> QED BY <1>1, <1>2, <1>3, <1>4, PTL DEF Spec, AssetsKept, Assets!AllOrNothing

=============================================================================
