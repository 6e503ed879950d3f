--------------------------- MODULE ProviderProofs ---------------------------
(***************************************************************************)
(* Proofs about what stands between the program and its providers, for all *)
(* values of the constants that the modules' assumptions allow.  Of        *)
(* Interactions: no button and no interruption of a run outlives its       *)
(* request, and what a session shows is what its provider waits for.  Of   *)
(* RemoteProxy: its types, and that the first to decide an approval is the *)
(* only one the proxy replies for.  Of CodexConnection: there is one       *)
(* connection, and it is seen to until it works again.                     *)
(***************************************************************************)
EXTENDS Interactions, MCCodexLink, FiniteSetTheorems, SequenceTheorems, TLAPS

-----------------------------------------------------------------------------
(* Sequences.                                                              *)

\* An entry of a sequence stands behind a place.
Later(s, x, k) == \E n \in DOMAIN s : n > k /\ s[n] = x

\* What a sequence holds after an element is put at its end.
LEMMA Put ==
  ASSUME NEW S, NEW s \in Seq(S), NEW e \in S
  PROVE  /\ Append(s, e) \in Seq(S) /\ Len(s) \in Nat
         /\ DOMAIN s = 1 .. Len(s) /\ DOMAIN Append(s, e) = 1 .. Len(s) + 1
         /\ Len(Append(s, e)) = Len(s) + 1
         /\ \A k \in 1 .. Len(s) : Append(s, e)[k] = s[k]
         /\ Append(s, e)[Len(s) + 1] = e
BY AppendProperties, LenProperties

\* What it holds once its first element is taken.
LEMMA Taken ==
  ASSUME NEW S, NEW s \in Seq(S), s # <<>>
  PROVE  /\ Tail(s) \in Seq(S) /\ Len(s) \in Nat \ {0} /\ Head(s) = s[1] /\ s[1] \in S
         /\ DOMAIN s = 1 .. Len(s) /\ DOMAIN Tail(s) = 1 .. Len(s) - 1
         /\ Len(Tail(s)) = Len(s) - 1
         /\ \A k \in 1 .. Len(s) - 1 : Tail(s)[k] = s[k + 1]
BY HeadTailProperties, EmptySeq, LenProperties

\* Removing the first element leaves the tail.
LEMMA RemovedFirst ==
  ASSUME NEW S, NEW s \in Seq(S), s # <<>>
  PROVE  RemoveAt(s, 1) = Tail(s)
<1>1. Len(s) \in Nat \ {0} /\ Tail(s) \in Seq(S)
  BY Taken
<1>2. SubSeq(s, 1, 0) = <<>>
  BY <1>1
<1>3. SubSeq(s, 2, Len(s)) = Tail(s)
  BY <1>1
<1>4. <<>> \o Tail(s) = Tail(s)
  BY <1>1
<1> QED BY <1>2, <1>3, <1>4 DEF RemoveAt

\* What stands behind a place does so when more is put at the end.
LEMMA LaterPut ==
  ASSUME NEW S, NEW s \in Seq(S), NEW e \in S, NEW x, NEW k \in Nat
  PROVE  /\ Later(s, x, k) => Later(Append(s, e), x, k)
         /\ k <= Len(s) => Later(Append(s, e), e, k)
<1> DEFINE t == Append(s, e)
<1>1. /\ Len(s) \in Nat /\ DOMAIN s = 1 .. Len(s) /\ DOMAIN t = 1 .. Len(s) + 1
      /\ \A n \in 1 .. Len(s) : t[n] = s[n]
      /\ t[Len(s) + 1] = e
  BY Put
<1> HIDE DEF t
<1>2. \A n \in DOMAIN s : n \in DOMAIN t /\ t[n] = s[n]
  BY <1>1
<1>3. k <= Len(s) => Len(s) + 1 \in DOMAIN t /\ Len(s) + 1 > k
  BY <1>1
<1>4. Later(s, x, k) => Later(t, x, k)
  BY <1>2 DEF Later
<1>5. k <= Len(s) => Later(t, e, k)
  BY <1>1, <1>3 DEF Later
<1> QED BY <1>4, <1>5 DEF t

\* When the first element is taken, all others move up.
LEMMA LaterTaken ==
  ASSUME NEW S, NEW s \in Seq(S), s # <<>>, NEW x, NEW k \in Nat
  PROVE  Later(s, x, k + 1) => Later(Tail(s), x, k)
<1>1. /\ Len(s) \in Nat \ {0} /\ DOMAIN s = 1 .. Len(s) /\ DOMAIN Tail(s) = 1 .. Len(s) - 1
      /\ \A n \in 1 .. Len(s) - 1 : Tail(s)[n] = s[n + 1]
  BY Taken
<1>2. \A n \in DOMAIN s : n > k + 1 => n - 1 \in DOMAIN Tail(s) /\ n - 1 > k /\ Tail(s)[n - 1] = s[n]
  BY <1>1
<1> QED BY <1>2 DEF Later

\* A finite set as a sequence has each of its elements once.
LEMMA SetInSeq ==
  ASSUME NEW S, IsFiniteSet(S)
  PROVE  /\ SetToSeq(S) \in Seq(S)
         /\ \A x \in S : \E k \in DOMAIN SetToSeq(S) : SetToSeq(S)[k] = x
         /\ \A j, k \in DOMAIN SetToSeq(S) : SetToSeq(S)[j] = SetToSeq(S)[k] => j = k
<1> DEFINE n == Cardinality(S)
           q == SetToSeq(S)
<1>1. n \in Nat /\ ExistsBijection(1 .. n, S)
  BY FS_CardinalityType
<1>2. PICK f : f \in Bijection(1 .. n, S)
  BY <1>1 DEF ExistsBijection
<1>3. f \in [1 .. n -> S] /\ IsInjective(f)
  BY <1>2 DEF Bijection, Injection, IsInjective
<1>4. q \in [1 .. n -> S] /\ IsInjective(q)
  BY <1>3 DEF SetToSeq
<1>5. IsFiniteSet(1 .. n) /\ Cardinality(1 .. n) = n
  BY <1>1, FS_Interval
<1> HIDE DEF q, n
<1>6. q \in Injection(1 .. n, S)
  BY <1>4 DEF Injection, IsInjective
<1>7. q \in Surjection(1 .. n, S)
  BY <1>5, <1>6, FS_Injection DEF n
<1>8. q \in Seq(S) /\ DOMAIN q = 1 .. n
  BY <1>1, <1>4
<1>9. \A x \in S : \E k \in 1 .. n : q[k] = x
  BY <1>7 DEF Surjection
<1> QED BY <1>4, <1>8, <1>9 DEF q, IsInjective

-----------------------------------------------------------------------------
(* What codex said and what it waits for.                                  *)

Said(kind, i) == [kind |-> kind, of |-> i]

Says == [kind : {"request", "resolved"}, of : Approvals]
        \cup [kind : {"started", "progress", "final", "completed", "failed"}, of : {NoId}]

Posting(i) == [what |-> "approval", of |-> i, part |-> 0, stage |-> "posting"]

CodexTypes ==
  /\ inbox \in Seq(Says) /\ queue \in Seq(Task)
  /\ ask \in [Requests -> {"none", "open", "closed"}] /\ DOMAIN took = Requests
  /\ IsFiniteSet(Waiting)
  /\ \A q \in Questions : ask[q] = "none"
  /\ \A i \in Requests : future[i] = "none"
  /\ \A k \in DOMAIN queue : queue[k].what # "part"
  /\ work = Idle \/ \E i \in Approvals : work = Posting(i)
  /\ wire \subseteq Clients \X Approvals \X Decisions
  /\ calls \subseteq Clients \X Approvals \X Decisions
  /\ pending = {} /\ typing = {}
  /\ buttons \subseteq Approvals /\ open \subseteq Approvals

\* A request is open, or its resolution will be handled.
Coming(i) == ask[i] = "open" \/ Later(inbox, Said("resolved", i), 0)

\* Or else a task that takes its buttons back comes after place k.
Cleared(i, k) == Coming(i) \/ Later(queue, ApprovalTask("finish", i), k)

LeftInv ==
  /\ \A k \in DOMAIN inbox : \A i \in Approvals :
       inbox[k] = Said("request", i) => ask[i] = "open" \/ Later(inbox, Said("resolved", i), k)
  /\ \A i \in open : Coming(i)
  /\ \A i \in buttons : Cleared(i, 0)
  /\ \A k \in DOMAIN queue : \A i \in Approvals :
       queue[k] = ApprovalTask("approval", i) => Cleared(i, k)
  /\ \A i \in Approvals : work = Posting(i) => Cleared(i, 0)

\* codex says more: a request it waits for then, or that one is resolved.
SaysMore ==
  /\ DOMAIN inbox \subseteq DOMAIN inbox'
  /\ \A k \in DOMAIN inbox : inbox'[k] = inbox[k]
  /\ \A k \in DOMAIN inbox' \ DOMAIN inbox : \A i \in Approvals :
       inbox'[k] = Said("request", i) => ask'[i] = "open"
  /\ \A i \in Approvals : ask[i] = "open" =>
       \/ ask'[i] = "open"
       \/ \E k \in DOMAIN inbox' \ DOMAIN inbox : inbox'[k] = Said("resolved", i)

\* What is to come is so still.
LEMMA ComingStays ==
  ASSUME CodexTypes, CodexTypes', SaysMore
  PROVE  /\ \A k \in DOMAIN inbox : \A n \in DOMAIN inbox' \ DOMAIN inbox : n > k
         /\ \A x : \A k \in Nat : Later(inbox, x, k) => Later(inbox', x, k)
         /\ \A i \in Approvals : Coming(i) => Coming(i)'
<1>1. \A k \in DOMAIN inbox, n \in DOMAIN inbox' \ DOMAIN inbox : n > k
  BY LenProperties DEF CodexTypes, SaysMore
<1>2. \A n \in DOMAIN inbox' : n > 0
  BY LenProperties DEF CodexTypes
<1>3. \A x : \A k \in Nat : Later(inbox, x, k) => Later(inbox', x, k)
  BY DEF Later, SaysMore
<1>4. ASSUME NEW i \in Approvals, Coming(i), ask'[i] # "open"
      PROVE  Later(inbox', Said("resolved", i), 0)
  <2>1. CASE ask[i] = "open"
    BY <1>2, <1>4, <2>1 DEF SaysMore, Later
  <2>2. CASE ask[i] # "open"
    BY <1>3, <1>4, <2>2 DEF Coming
  <2> QED BY <2>1, <2>2
<1> QED BY <1>1, <1>3, <1>4 DEF Coming

\* What codex says more leaves nothing behind.
LEMMA StillLeft ==
  ASSUME CodexTypes, LeftInv, CodexTypes', SaysMore, queue' = queue, work' \in {work, Idle},
         buttons' \subseteq buttons, open' = open
  PROVE  LeftInv'
<1>1. \A k \in DOMAIN inbox : \A n \in DOMAIN inbox' \ DOMAIN inbox : n > k
  BY ComingStays
<1>2. \A x : \A k \in Nat : Later(inbox, x, k) => Later(inbox', x, k)
  BY ComingStays
<1>3. \A i \in Approvals : Coming(i) => Coming(i)'
  BY ComingStays
<1>4. \A i \in Approvals : \A k : Cleared(i, k) => Cleared(i, k)'
  BY <1>3 DEF Cleared
<1>5. ASSUME NEW k \in DOMAIN inbox', NEW i \in Approvals, inbox'[k] = Said("request", i), ask'[i] # "open"
      PROVE  Later(inbox', Said("resolved", i), k)
  <2>1. k \in DOMAIN inbox /\ inbox[k] = Said("request", i)
    BY <1>5 DEF SaysMore
  <2>2. k \in Nat
    BY <2>1, LenProperties DEF CodexTypes
  <2>3. CASE ask[i] = "open"
    <3>1. PICK n \in DOMAIN inbox' \ DOMAIN inbox : inbox'[n] = Said("resolved", i)
      BY <1>5, <2>3 DEF SaysMore
    <3> QED BY <1>1, <2>1, <3>1 DEF Later
  <2>4. CASE ask[i] # "open"
    BY <1>2, <2>1, <2>2, <2>4 DEF LeftInv
  <2> QED BY <2>3, <2>4
<1>6. \A i \in open' : Coming(i)'
  BY <1>3 DEF LeftInv, CodexTypes
<1>7. \A i \in buttons' : Cleared(i, 0)'
  BY <1>4 DEF LeftInv, CodexTypes
<1>8. \A k \in DOMAIN queue' : \A i \in Approvals :
        queue'[k] = ApprovalTask("approval", i) => Cleared(i, k)'
  BY <1>4 DEF LeftInv, ApprovalTask
<1>9. \A i \in Approvals : work' = Posting(i) => Cleared(i, 0)'
  BY <1>4 DEF LeftInv, Posting, Idle
<1> QED BY <1>5, <1>6, <1>7, <1>8, <1>9 DEF LeftInv, Coming

\* To say nothing is to say nothing wrong.
LEMMA SaysNoMore ==
  ASSUME inbox' = inbox, ask' = ask
  PROVE  SaysMore
BY DEF SaysMore

\* One message at the end.
LEMMA SaysOne ==
  ASSUME CodexTypes, NEW kind, NEW i, Said(kind, i) \in Says, Receive(kind, i),
         kind = "request" => ask'[i] = "open",
         \A j \in Approvals : ask[j] = "open" => ask'[j] = "open" \/ (kind = "resolved" /\ i = j)
  PROVE  SaysMore /\ inbox' \in Seq(Says)
<1> DEFINE e == Said(kind, i)
<1>1. inbox' = Append(inbox, e)
  BY DEF Receive, Said
<1>2. e.kind = kind /\ e.of = i
  BY DEF Said
<1>3. \A j : e = Said("request", j) => kind = "request" /\ j = i
  BY DEF Said
<1>4. \A j : kind = "resolved" /\ j = i => e = Said("resolved", j)
  BY DEF Said
<1> HIDE DEF e
<1>5. /\ inbox' \in Seq(Says) /\ Len(inbox) \in Nat
      /\ DOMAIN inbox = 1 .. Len(inbox) /\ DOMAIN inbox' = 1 .. Len(inbox) + 1
      /\ \A k \in 1 .. Len(inbox) : inbox'[k] = inbox[k]
      /\ inbox'[Len(inbox) + 1] = e
  BY <1>1, Put DEF CodexTypes, e
<1>6. \A k \in DOMAIN inbox' \ DOMAIN inbox : k = Len(inbox) + 1
  BY <1>5
<1>7. Len(inbox) + 1 \in DOMAIN inbox' \ DOMAIN inbox
  BY <1>5
<1> QED BY <1>3, <1>4, <1>5, <1>6, <1>7 DEF SaysMore

-----------------------------------------------------------------------------
(* codex says more.                                                        *)

\* An interruption resolves each request that is open, once, and completes the turn.
LEMMA InterruptedSays ==
  ASSUME IsCodex, CodexTypes, Interrupted
  PROVE  /\ SaysMore /\ inbox' \in Seq(Says)
         /\ \A k \in DOMAIN inbox' \ DOMAIN inbox :
              inbox'[k].kind # "resolved" => inbox'[k] = Said("completed", NoId)
         /\ \A k \in DOMAIN inbox' \ DOMAIN inbox : \A i \in Approvals :
              inbox'[k] = Said("resolved", i) => i \in Waiting
         /\ \A j, k \in DOMAIN inbox' \ DOMAIN inbox :
              inbox'[j].kind = "resolved" /\ inbox'[j] = inbox'[k] => j = k
<1> DEFINE gone == SetToSeq(Waiting)
           told1 == [k \in DOMAIN gone |-> Said("resolved", gone[k])]
           last == <<Said("completed", NoId)>>
           more == told1 \o last
<1>1. Waiting \subseteq Approvals
  BY DEF Waiting, CodexTypes, Requests
<1>2. /\ gone \in Seq(Waiting)
      /\ \A i \in Waiting : \E k \in DOMAIN gone : gone[k] = i
      /\ \A j, k \in DOMAIN gone : gone[j] = gone[k] => j = k
  BY SetInSeq DEF CodexTypes
<1>3. inbox' = inbox \o more
  BY DEF Interrupted, Said
<1>4. \A i \in Approvals : ask[i] = "open" => i \in Waiting
  BY DEF Waiting, Requests
<1> HIDE DEF gone
<1>5. Len(gone) \in Nat /\ DOMAIN gone = 1 .. Len(gone)
  BY <1>2, LenProperties
<1>6. \A k \in DOMAIN gone : gone[k] \in Approvals /\ Said("resolved", gone[k]) \in Says
  BY <1>1, <1>2, <1>5 DEF Said, Says
<1>7. told1 \in Seq(Says) /\ Len(told1) = Len(gone) /\ DOMAIN told1 = 1 .. Len(gone)
  BY <1>5, <1>6
<1>8. \A k \in DOMAIN told1 : told1[k] = Said("resolved", gone[k])
  OBVIOUS
<1>9. last \in Seq(Says) /\ Len(last) = 1 /\ last[1] = Said("completed", NoId)
  BY DEF Said, Says
<1> HIDE DEF told1, last
<1>10. /\ more \in Seq(Says) /\ Len(more) = Len(gone) + 1
       /\ \A k \in 1 .. Len(gone) : more[k] = told1[k]
       /\ more[Len(gone) + 1] = last[1]
  <2>1. /\ more \in Seq(Says) /\ Len(more) = Len(told1) + Len(last)
        /\ \A k \in 1 .. Len(told1) + Len(last) :
             more[k] = IF k <= Len(told1) THEN told1[k] ELSE last[k - Len(told1)]
    BY <1>7, <1>9, ConcatProperties
  <2> HIDE DEF more
  <2> QED BY <1>5, <1>7, <1>9, <2>1
<1> HIDE DEF more
<1>11. /\ inbox' \in Seq(Says) /\ Len(inbox) \in Nat /\ DOMAIN inbox = 1 .. Len(inbox)
       /\ DOMAIN inbox' = 1 .. Len(inbox) + Len(gone) + 1
       /\ \A k \in 1 .. Len(inbox) : inbox'[k] = inbox[k]
       /\ \A k \in 1 .. Len(gone) + 1 : inbox'[Len(inbox) + k] = more[k]
  BY <1>3, <1>5, <1>10, ConcatProperties, LenProperties DEF CodexTypes
<1>12. \A k \in DOMAIN inbox' \ DOMAIN inbox :
         k - Len(inbox) \in 1 .. Len(gone) + 1 /\ inbox'[k] = more[k - Len(inbox)]
  BY <1>5, <1>11
<1>13. \A k \in 1 .. Len(gone) + 1 : more[k].kind # "request"
  BY <1>5, <1>7, <1>8, <1>9, <1>10 DEF Said
<1>14. \A k \in DOMAIN inbox' \ DOMAIN inbox : \A i \in Approvals : inbox'[k] # Said("request", i)
  BY <1>12, <1>13 DEF Said
<1>15. ASSUME NEW i \in Approvals, ask[i] = "open"
       PROVE  \E k \in DOMAIN inbox' \ DOMAIN inbox : inbox'[k] = Said("resolved", i)
  <2>1. PICK n \in 1 .. Len(gone) : gone[n] = i
    BY <1>2, <1>4, <1>5, <1>15
  <2>2. more[n] = Said("resolved", i)
    BY <1>7, <1>8, <1>10, <2>1
  <2>3. n + Len(inbox) \in DOMAIN inbox' \ DOMAIN inbox /\ inbox'[n + Len(inbox)] = more[n]
    BY <1>5, <1>11
  <2> QED BY <2>2, <2>3
<1>16. ASSUME NEW k \in DOMAIN inbox' \ DOMAIN inbox
       PROVE  \/ inbox'[k] = Said("completed", NoId) /\ k = Len(inbox) + Len(gone) + 1
              \/ /\ k - Len(inbox) \in DOMAIN gone
                 /\ inbox'[k] = Said("resolved", gone[k - Len(inbox)])
  <2>1. k - Len(inbox) \in 1 .. Len(gone) + 1 /\ inbox'[k] = more[k - Len(inbox)] /\ k \in Nat
    BY <1>11, <1>12
  <2>2. CASE k - Len(inbox) = Len(gone) + 1
    BY <1>5, <1>9, <1>10, <1>11, <2>1, <2>2
  <2>3. CASE k - Len(inbox) # Len(gone) + 1
    BY <1>5, <1>7, <1>8, <1>10, <2>1, <2>3
  <2> QED BY <2>2, <2>3
<1>17. ASSUME NEW k \in DOMAIN inbox' \ DOMAIN inbox, inbox'[k].kind = "resolved"
       PROVE  /\ k - Len(inbox) \in DOMAIN gone /\ k \in Nat
              /\ inbox'[k] = Said("resolved", gone[k - Len(inbox)])
              /\ inbox'[k].of = gone[k - Len(inbox)]
  BY <1>11, <1>16, <1>17 DEF Said
<1>18. \A k \in DOMAIN inbox' \ DOMAIN inbox :
         inbox'[k].kind # "resolved" => inbox'[k] = Said("completed", NoId)
  BY <1>16 DEF Said
<1>19. ASSUME NEW k \in DOMAIN inbox' \ DOMAIN inbox, NEW i \in Approvals, inbox'[k] = Said("resolved", i)
       PROVE  i \in Waiting
  <2>1. inbox'[k].kind = "resolved" /\ inbox'[k].of = i
    BY <1>19 DEF Said
  <2>2. k - Len(inbox) \in DOMAIN gone /\ i = gone[k - Len(inbox)]
    BY <1>17, <2>1
  <2> QED BY <1>2, <1>5, <2>2
<1>20. ASSUME NEW j \in DOMAIN inbox' \ DOMAIN inbox, NEW k \in DOMAIN inbox' \ DOMAIN inbox,
              inbox'[j].kind = "resolved", inbox'[j] = inbox'[k]
       PROVE  j = k
  <2>1. /\ j - Len(inbox) \in DOMAIN gone /\ j \in Nat
        /\ k - Len(inbox) \in DOMAIN gone /\ k \in Nat
        /\ gone[j - Len(inbox)] = gone[k - Len(inbox)]
    BY <1>17, <1>20
  <2> QED BY <1>2, <1>11, <2>1
<1>21. SaysMore
  BY <1>1, <1>11, <1>14, <1>15 DEF SaysMore
<1> QED BY <1>11, <1>18, <1>19, <1>20, <1>21

\* codex asks.
LEMMA CodexAsksLeft ==
  ASSUME IsCodex, CodexTypes, LeftInv, NEW i \in Approvals, CodexAsks(i)
  PROVE  CodexTypes' /\ LeftInv'
<1>1. i \in Requests /\ i \notin Questions
  BY InteractionsAssumption DEF Requests
<1>2. Said("request", i) \in Says
  BY DEF Said, Says
<1>3. SaysMore /\ inbox' \in Seq(Says)
  BY <1>1, <1>2, SaysOne DEF CodexAsks, CodexTypes
<1>4. Waiting' = Waiting \cup {i}
  BY <1>1 DEF CodexAsks, Waiting, CodexTypes
<1>5. IsFiniteSet(Waiting')
  BY <1>4, FS_AddElement DEF CodexTypes
<1>6. CodexTypes'
  BY <1>1, <1>3, <1>5 DEF CodexTypes, CodexAsks, telegram
<1> QED BY <1>3, <1>6, StillLeft DEF CodexAsks, telegram

\* The turn goes on, ends, or another starts.
LEMMA TalksLeft ==
  ASSUME IsCodex, CodexTypes, LeftInv, GoesOn \/ Ends \/ NextTurn
  PROVE  CodexTypes' /\ LeftInv'
<1>1. PICK kind \in {"progress", "final", "started"} : Receive(kind, NoId)
  BY DEF GoesOn, Ends, NextTurn
<1>2. UNCHANGED <<ask, took, future, wire, calls, telegram>>
  BY DEF GoesOn, Ends, NextTurn, provider
<1>3. Said(kind, NoId) \in Says
  BY DEF Said, Says
<1>4. SaysMore /\ inbox' \in Seq(Says)
  BY <1>1, <1>2, <1>3, SaysOne
<1>5. Waiting' = Waiting
  BY <1>2 DEF Waiting
<1>6. CodexTypes'
  BY <1>2, <1>4, <1>5 DEF CodexTypes, telegram
<1> QED BY <1>2, <1>4, <1>6, StillLeft DEF telegram

\* The turn is interrupted.
LEMMA InterruptedLeft ==
  ASSUME IsCodex, CodexTypes, LeftInv, Interrupted
  PROVE  CodexTypes' /\ LeftInv'
<1>1. SaysMore /\ inbox' \in Seq(Says)
  BY InterruptedSays
<1>2. /\ ask' = [i \in Requests |-> IF i \in Waiting THEN "closed" ELSE ask[i]]
      /\ UNCHANGED <<took, future, wire, calls, telegram>>
  BY DEF Interrupted
<1>3. Waiting' = {}
  BY <1>2 DEF Waiting
<1>4. IsFiniteSet(Waiting')
  BY <1>3, FS_EmptySet
<1>5. \A q \in Questions : ask'[q] = "none"
  BY <1>2 DEF CodexTypes, Waiting, Requests
<1>6. CodexTypes'
  BY <1>1, <1>2, <1>4, <1>5 DEF CodexTypes, telegram
<1> QED BY <1>1, <1>2, <1>6, StillLeft DEF telegram

\* The app-server reads a reply.
LEMMA TakesLeft ==
  ASSUME IsCodex, CodexTypes, LeftInv, NEW c \in Clients, NEW i \in Approvals, NEW choice \in Decisions,
         CodexTakes(c, i, choice)
  PROVE  CodexTypes' /\ LeftInv'
<1>1. /\ wire' \subseteq wire
      /\ UNCHANGED <<future, calls, telegram>>
  BY DEF CodexTakes
<1>2. i \in Requests /\ i \notin Questions
  BY InteractionsAssumption DEF Requests
<1>3. CASE ask[i] = "open"
  <2>1. /\ ask' = [ask EXCEPT ![i] = "closed"] /\ DOMAIN took' = Requests
        /\ Receive("resolved", i)
    BY <1>2, <1>3 DEF CodexTakes, CodexTypes
  <2>2. Said("resolved", i) \in Says
    BY DEF Said, Says
  <2>3. SaysMore /\ inbox' \in Seq(Says)
    <3>1. \A j \in Approvals : ask[j] = "open" => ask'[j] = "open" \/ ("resolved" = "resolved" /\ i = j)
      BY <2>1 DEF CodexTypes, Requests
    <3> QED BY <2>1, <2>2, <3>1, SaysOne
  <2>4. Waiting' = Waiting \ {i}
    BY <1>2, <2>1 DEF Waiting, CodexTypes
  <2>5. IsFiniteSet(Waiting')
    BY <2>4, FS_RemoveElement DEF CodexTypes
  <2>6. CodexTypes'
    BY <1>1, <1>2, <2>1, <2>3, <2>5 DEF CodexTypes, telegram
  <2> QED BY <1>1, <2>3, <2>6, StillLeft DEF telegram
<1>4. CASE ask[i] # "open"
  <2>1. UNCHANGED <<ask, took, inbox>>
    BY <1>4 DEF CodexTakes
  <2>2. Waiting' = Waiting
    BY <2>1 DEF Waiting
  <2>3. CodexTypes'
    BY <1>1, <2>1, <2>2 DEF CodexTypes, telegram
  <2> QED BY <1>1, <2>1, <2>3, SaysNoMore, StillLeft DEF telegram
<1> QED BY <1>3, <1>4

-----------------------------------------------------------------------------
(* What codex said is handled in order.                                    *)

\* The first message is handled.
LEMMA FirstTaken ==
  ASSUME CodexTypes, Drift = FALSE, NEW k \in DOMAIN inbox, IsNext(k), Take(k)
  PROVE  /\ k = 1 /\ inbox # <<>> /\ inbox[1] \in Says
         /\ inbox' = Tail(inbox) /\ inbox' \in Seq(Says)
         /\ DOMAIN inbox \subseteq Nat /\ 1 \in DOMAIN inbox
         /\ \A n \in DOMAIN inbox' : n \in Nat /\ n + 1 \in DOMAIN inbox /\ inbox'[n] = inbox[n + 1]
<1>1. k = 1
  BY DEF IsNext
<1>2. inbox # <<>>
  BY DEF CodexTypes
<1>3. inbox' = Tail(inbox)
  BY <1>1, <1>2, RemovedFirst DEF Take, CodexTypes
<1>4. /\ inbox' \in Seq(Says) /\ Len(inbox) \in Nat \ {0} /\ inbox[1] \in Says
      /\ DOMAIN inbox = 1 .. Len(inbox) /\ DOMAIN inbox' = 1 .. Len(inbox) - 1
      /\ \A n \in 1 .. Len(inbox) - 1 : inbox'[n] = inbox[n + 1]
  BY <1>2, <1>3, Taken DEF CodexTypes
<1>5. /\ DOMAIN inbox \subseteq Nat /\ 1 \in DOMAIN inbox
      /\ \A n \in DOMAIN inbox' : n \in Nat /\ n + 1 \in DOMAIN inbox /\ inbox'[n] = inbox[n + 1]
  BY <1>4
<1> QED BY <1>1, <1>2, <1>3, <1>4, <1>5

\* What it told of the others is still to come.
LEMMA OthersComing ==
  ASSUME CodexTypes, inbox # <<>>, inbox' = Tail(inbox), ask' = ask, NEW i \in Approvals, Coming(i),
         inbox[1] # Said("resolved", i)
  PROVE  Coming(i)'
<1>1. CASE ask[i] = "open"
  BY <1>1 DEF Coming
<1>2. CASE ask[i] # "open"
  <2>1. PICK n \in DOMAIN inbox : n > 0 /\ inbox[n] = Said("resolved", i)
    BY <1>2 DEF Coming, Later
  <2>2. n \in Nat /\ n # 1
    BY <2>1, LenProperties DEF CodexTypes
  <2>3. Later(inbox, Said("resolved", i), 0 + 1)
    BY <2>1, <2>2 DEF Later
  <2>4. Later(Tail(inbox), Said("resolved", i), 0)
    BY <2>3, LaterTaken DEF CodexTypes
  <2> QED BY <2>4 DEF Coming
<1> QED BY <1>1, <1>2

\* A task more.
LEMMA TaskMore ==
  ASSUME CodexTypes, NEW task \in Task, queue' = Append(queue, task)
  PROVE  /\ queue' \in Seq(Task)
         /\ \A k \in DOMAIN queue' :
              \/ k \in DOMAIN queue /\ queue'[k] = queue[k]
              \/ queue'[k] = task
         /\ \A x : \A k \in Nat : Later(queue, x, k) => Later(queue', x, k)
         /\ \A k \in DOMAIN queue \cup {0} : Later(queue', task, k)
         /\ DOMAIN queue \subseteq Nat /\ Len(queue) \in Nat
<1>1. /\ queue' \in Seq(Task) /\ Len(queue) \in Nat
      /\ DOMAIN queue = 1 .. Len(queue) /\ DOMAIN queue' = 1 .. Len(queue) + 1
      /\ \A k \in 1 .. Len(queue) : queue'[k] = queue[k]
      /\ queue'[Len(queue) + 1] = task
  BY Put DEF CodexTypes
<1>2. \A x : \A k \in Nat : Later(queue, x, k) => Later(queue', x, k)
  BY LaterPut DEF CodexTypes
<1>3. \A k \in DOMAIN queue \cup {0} : Later(queue', task, k)
  BY <1>1, LaterPut DEF CodexTypes
<1> QED BY <1>1, <1>2, <1>3

\* A request is handled: what it leaves is cleared by what comes behind it.
LEMMA RequestLeft ==
  ASSUME IsCodex, CodexTypes, LeftInv, Drift = FALSE, 0 \notin Approvals,
         NEW k \in DOMAIN inbox, IsNext(k), Take(k), HandleRequest(k),
         UNCHANGED <<setting, provider, wire, calls>>
  PROVE  CodexTypes' /\ LeftInv'
<1>1. /\ k = 1 /\ inbox # <<>> /\ inbox[1] \in Says
      /\ inbox' = Tail(inbox) /\ inbox' \in Seq(Says)
      /\ DOMAIN inbox \subseteq Nat
      /\ \A n \in DOMAIN inbox' : n \in Nat /\ n + 1 \in DOMAIN inbox /\ inbox'[n] = inbox[n + 1]
  BY FirstTaken
<1>2. PICK i \in Approvals : inbox[1] = Said("request", i) /\ i = inbox[1].of
  BY <1>1 DEF HandleRequest, Says, Said
<1> DEFINE task == ApprovalTask("approval", i)
<1>3. UNCHANGED <<ask, took, future, wire, calls, work, buttons, pending, typing>>
  BY DEF HandleRequest, provider
<1>4. \A j \in Approvals : Coming(j) => Coming(j)'
  <2>1. \A j : inbox[1] # Said("resolved", j)
    BY <1>2 DEF Said
  <2> QED BY <1>1, <1>3, <2>1, OthersComing
<1>5. Coming(i)'
  <2>1. ask[i] = "open" \/ Later(inbox, Said("resolved", i), 0 + 1)
    BY <1>1, <1>2 DEF LeftInv
  <2>2. ask[i] = "open" \/ Later(Tail(inbox), Said("resolved", i), 0)
    BY <1>1, <2>1, LaterTaken DEF CodexTypes
  <2> QED BY <1>1, <1>3, <2>2 DEF Coming
<1>6. /\ queue' = queue \/ queue' = Append(queue, task)
      /\ open' \subseteq open \cup {i}
  BY <1>1, <1>2 DEF HandleRequest, Enqueue
<1>7. task \in Task /\ task.what # "part"
      /\ \A j \in Approvals : task = ApprovalTask("approval", j) => j = i
  BY <1>2 DEF ApprovalTask, Task
<1>8. /\ queue' \in Seq(Task)
      /\ \A n \in DOMAIN queue' :
           \/ n \in DOMAIN queue /\ queue'[n] = queue[n]
           \/ queue'[n] = task
      /\ \A x : \A n \in Nat : Later(queue, x, n) => Later(queue', x, n)
      /\ DOMAIN queue \subseteq Nat
  <2>1. CASE queue' = queue
    BY <2>1, LenProperties DEF CodexTypes
  <2>2. CASE queue' = Append(queue, task)
    BY <1>7, <2>2, TaskMore
  <2> QED BY <1>6, <2>1, <2>2
<1> HIDE DEF task
<1>9. Waiting' = Waiting
  BY <1>3 DEF Waiting
<1>10. CodexTypes'
  BY <1>1, <1>2, <1>3, <1>6, <1>7, <1>8, <1>9 DEF CodexTypes
<1>11. \A j \in Approvals : \A n \in Nat : Cleared(j, n) => Cleared(j, n)'
  BY <1>4, <1>8 DEF Cleared
<1>12. ASSUME NEW n \in DOMAIN inbox', NEW j \in Approvals, inbox'[n] = Said("request", j), ask'[j] # "open"
       PROVE  Later(inbox', Said("resolved", j), n)
  <2>1. n \in Nat /\ n + 1 \in DOMAIN inbox /\ inbox[n + 1] = Said("request", j)
    BY <1>1, <1>12
  <2>2. Later(inbox, Said("resolved", j), n + 1)
    BY <1>3, <1>12, <2>1 DEF LeftInv
  <2> QED BY <1>1, <2>1, <2>2, LaterTaken DEF CodexTypes
<1>13. ASSUME NEW n \in DOMAIN queue', NEW j \in Approvals, queue'[n] = ApprovalTask("approval", j)
       PROVE  Cleared(j, n)'
  <2>1. CASE n \in DOMAIN queue /\ queue'[n] = queue[n]
    BY <1>8, <1>11, <1>13, <2>1 DEF LeftInv
  <2>2. CASE queue'[n] = task
    BY <1>5, <1>7, <1>13, <2>2 DEF Cleared
  <2> QED BY <1>8, <2>1, <2>2
<1>14. \A j \in open' : Coming(j)'
  BY <1>4, <1>5, <1>6 DEF LeftInv, CodexTypes
<1>15. \A j \in buttons' : Cleared(j, 0)'
  BY <1>3, <1>11 DEF LeftInv, CodexTypes
<1>16. \A j \in Approvals : work' = Posting(j) => Cleared(j, 0)'
  BY <1>3, <1>11 DEF LeftInv, Posting
<1> QED BY <1>10, <1>12, <1>13, <1>14, <1>15, <1>16 DEF LeftInv

\* A resolution is handled: the task that clears is at the end of the queue.
LEMMA ResolvedLeft ==
  ASSUME IsCodex, CodexTypes, LeftInv, Drift = FALSE, 0 \notin Approvals,
         NEW k \in DOMAIN inbox, IsNext(k), Take(k), HandleResolved(k),
         UNCHANGED <<setting, provider, wire, calls>>
  PROVE  CodexTypes' /\ LeftInv'
<1>1. /\ k = 1 /\ inbox # <<>> /\ inbox[1] \in Says
      /\ inbox' = Tail(inbox) /\ inbox' \in Seq(Says)
      /\ DOMAIN inbox \subseteq Nat
      /\ \A n \in DOMAIN inbox' : n \in Nat /\ n + 1 \in DOMAIN inbox /\ inbox'[n] = inbox[n + 1]
  BY FirstTaken
<1>2. PICK i \in Approvals : inbox[1] = Said("resolved", i) /\ i = inbox[1].of /\ i # 0
  BY <1>1 DEF HandleResolved, Says, Said
<1> DEFINE task == ApprovalTask("finish", i)
<1>3. UNCHANGED <<ask, took, future, wire, calls, work, pending, typing>>
  BY DEF HandleResolved, provider
<1>4. \A j \in Approvals \ {i} : Coming(j) => Coming(j)'
  <2>1. \A j : j # i => inbox[1] # Said("resolved", j)
    BY <1>2 DEF Said
  <2> QED BY <1>1, <1>3, <2>1, OthersComing
<1>5. /\ queue' = Append(queue, task)
      /\ open' = open \ {i} /\ buttons' = buttons \ {i}
  BY <1>1, <1>2 DEF HandleResolved
<1>6. task \in Task /\ task.what # "part"
      /\ \A j \in Approvals : task # ApprovalTask("approval", j)
  BY <1>2 DEF ApprovalTask, Task
<1>7. /\ queue' \in Seq(Task)
      /\ \A n \in DOMAIN queue' :
           \/ n \in DOMAIN queue /\ queue'[n] = queue[n]
           \/ queue'[n] = task
      /\ \A x : \A n \in Nat : Later(queue, x, n) => Later(queue', x, n)
      /\ \A n \in DOMAIN queue \cup {0} : Later(queue', ApprovalTask("finish", i), n)
      /\ DOMAIN queue \subseteq Nat
  BY <1>5, <1>6, TaskMore
<1> HIDE DEF task
<1>9. Waiting' = Waiting
  BY <1>3 DEF Waiting
<1>10. CodexTypes'
  BY <1>1, <1>2, <1>3, <1>5, <1>6, <1>7, <1>9 DEF CodexTypes
<1>11. \A j \in Approvals : \A n \in DOMAIN queue \cup {0} : Cleared(j, n) => Cleared(j, n)'
  BY <1>4, <1>7 DEF Cleared
<1>12. ASSUME NEW n \in DOMAIN inbox', NEW j \in Approvals, inbox'[n] = Said("request", j), ask'[j] # "open"
       PROVE  Later(inbox', Said("resolved", j), n)
  <2>1. n \in Nat /\ n + 1 \in DOMAIN inbox /\ inbox[n + 1] = Said("request", j)
    BY <1>1, <1>12
  <2>2. Later(inbox, Said("resolved", j), n + 1)
    BY <1>3, <1>12, <2>1 DEF LeftInv
  <2> QED BY <1>1, <2>1, <2>2, LaterTaken DEF CodexTypes
<1>13. ASSUME NEW n \in DOMAIN queue', NEW j \in Approvals, queue'[n] = ApprovalTask("approval", j)
       PROVE  Cleared(j, n)'
  <2>1. n \in DOMAIN queue /\ queue'[n] = queue[n]
    BY <1>6, <1>7, <1>13
  <2> QED BY <1>11, <1>13, <2>1 DEF LeftInv
<1>14. \A j \in open' : Coming(j)'
  BY <1>4, <1>5 DEF LeftInv, CodexTypes
<1>15. \A j \in buttons' : Cleared(j, 0)'
  BY <1>5, <1>11 DEF LeftInv, CodexTypes
<1>16. \A j \in Approvals : work' = Posting(j) => Cleared(j, 0)'
  BY <1>3, <1>11 DEF LeftInv, Posting
<1> QED BY <1>10, <1>12, <1>13, <1>14, <1>15, <1>16 DEF LeftInv

\* The turn's output is handled.
LEMMA OtherLeft ==
  ASSUME IsCodex, CodexTypes, LeftInv, Drift = FALSE,
         NEW k \in DOMAIN inbox, IsNext(k), Take(k), HandleOther(k),
         UNCHANGED <<setting, provider, wire, calls>>
  PROVE  CodexTypes' /\ LeftInv'
<1>1. /\ k = 1 /\ inbox # <<>> /\ inbox[1] \in Says
      /\ inbox' = Tail(inbox) /\ inbox' \in Seq(Says)
      /\ DOMAIN inbox \subseteq Nat
      /\ \A n \in DOMAIN inbox' : n \in Nat /\ n + 1 \in DOMAIN inbox /\ inbox'[n] = inbox[n + 1]
  BY FirstTaken
<1>2. \A i \in Approvals : inbox[1] # Said("resolved", i)
  <2>1. inbox[1].kind # "resolved"
    BY <1>1 DEF HandleOther
  <2> QED BY <2>1 DEF Said
<1>3. UNCHANGED <<ask, took, future, wire, calls, telegram>>
  BY DEF HandleOther, provider
<1>4. \A j \in Approvals : Coming(j) => Coming(j)'
  BY <1>1, <1>2, <1>3, OthersComing
<1>5. \A j \in Approvals : \A n : Cleared(j, n) => Cleared(j, n)'
  BY <1>3, <1>4 DEF Cleared, telegram
<1>6. Waiting' = Waiting
  BY <1>3 DEF Waiting
<1>7. CodexTypes'
  BY <1>1, <1>3, <1>6 DEF CodexTypes, telegram
<1>8. ASSUME NEW n \in DOMAIN inbox', NEW j \in Approvals, inbox'[n] = Said("request", j), ask'[j] # "open"
       PROVE  Later(inbox', Said("resolved", j), n)
  <2>1. n \in Nat /\ n + 1 \in DOMAIN inbox /\ inbox[n + 1] = Said("request", j)
    BY <1>1, <1>8
  <2>2. Later(inbox, Said("resolved", j), n + 1)
    BY <1>3, <1>8, <2>1 DEF LeftInv
  <2> QED BY <1>1, <2>1, <2>2, LaterTaken DEF CodexTypes
<1>9. \A j \in open' : Coming(j)'
  BY <1>3, <1>4 DEF LeftInv, CodexTypes, telegram
<1>10. /\ \A j \in buttons' : Cleared(j, 0)'
       /\ \A j \in Approvals : work' = Posting(j) => Cleared(j, 0)'
  BY <1>3, <1>5 DEF LeftInv, CodexTypes, telegram, Posting
<1>11. \A n \in DOMAIN queue' : \A j \in Approvals :
         queue'[n] = ApprovalTask("approval", j) => Cleared(j, n)'
  BY <1>3, <1>5 DEF LeftInv, telegram, ApprovalTask
<1> QED BY <1>7, <1>8, <1>9, <1>10, <1>11 DEF LeftInv

-----------------------------------------------------------------------------
(* The Telegram tasks of codex, and what is decided.                       *)

\* The first task is taken, and what told of the others is still to come.
LEMMA FirstTask ==
  ASSUME CodexTypes, queue # <<>>, queue' = Tail(queue)
  PROVE  /\ Head(queue) = queue[1] /\ queue[1] \in Task /\ 1 \in DOMAIN queue /\ queue[1].what # "part"
         /\ queue' \in Seq(Task)
         /\ \A n \in DOMAIN queue' : n \in Nat /\ n + 1 \in DOMAIN queue /\ queue'[n] = queue[n + 1]
         /\ \A x : \A n \in Nat : Later(queue, x, n + 1) => Later(queue', x, n)
         /\ \A x : x # queue[1] /\ Later(queue, x, 0) => Later(queue', x, 0)
<1>1. /\ queue' \in Seq(Task) /\ Len(queue) \in Nat \ {0} /\ queue[1] \in Task
      /\ DOMAIN queue = 1 .. Len(queue) /\ DOMAIN queue' = 1 .. Len(queue) - 1
      /\ Head(queue) = queue[1]
      /\ \A n \in 1 .. Len(queue) - 1 : queue'[n] = queue[n + 1]
  BY Taken DEF CodexTypes
<1>2. \A x : \A n \in Nat : Later(queue, x, n + 1) => Later(queue', x, n)
  BY LaterTaken DEF CodexTypes
<1>3. \A x : x # queue[1] /\ Later(queue, x, 0) => Later(queue, x, 0 + 1)
  BY <1>1 DEF Later
<1>4. \A x : x # queue[1] /\ Later(queue, x, 0) => Later(queue', x, 0)
  BY <1>2, <1>3
<1>5. /\ 1 \in DOMAIN queue /\ queue[1].what # "part"
      /\ \A n \in DOMAIN queue' : n \in Nat /\ n + 1 \in DOMAIN queue /\ queue'[n] = queue[n + 1]
  BY <1>1 DEF CodexTypes
<1> QED BY <1>1, <1>2, <1>4, <1>5

\* The consumer takes a task.
LEMMA TaskLeft ==
  ASSUME IsCodex, CodexTypes, LeftInv, 0 \notin Approvals, TakeTask
  PROVE  CodexTypes' /\ LeftInv'
<1>1. /\ queue # <<>> /\ queue' = Tail(queue) /\ work = Idle
      /\ UNCHANGED <<setting, provider, link, bus, open, pending, typing, answers>>
  BY DEF TakeTask
<1>2. /\ Head(queue) = queue[1] /\ queue[1] \in Task /\ 1 \in DOMAIN queue /\ queue[1].what # "part"
      /\ queue' \in Seq(Task)
      /\ \A n \in DOMAIN queue' : n \in Nat /\ n + 1 \in DOMAIN queue /\ queue'[n] = queue[n + 1]
      /\ \A x : \A n \in Nat : Later(queue, x, n + 1) => Later(queue', x, n)
      /\ \A x : x # queue[1] /\ Later(queue, x, 0) => Later(queue', x, 0)
  BY <1>1, FirstTask
<1>3. UNCHANGED <<inbox, ask, took, future, wire, calls>>
  BY <1>1 DEF provider, link
<1>4. Waiting' = Waiting
  BY <1>3 DEF Waiting
<1>5. \A i : Coming(i)' = Coming(i)
  BY <1>3 DEF Coming
<1>6. \A i : \A n \in Nat : Cleared(i, n + 1) => Cleared(i, n)'
  BY <1>2, <1>5 DEF Cleared
<1>7. /\ \A n \in DOMAIN queue' : queue'[n].what # "part"
      /\ \A n \in DOMAIN queue' : \A i \in Approvals :
           queue'[n] = ApprovalTask("approval", i) => Cleared(i, n)'
  <2>1. \A n \in DOMAIN queue' : queue'[n].what # "part"
    BY <1>2 DEF CodexTypes
  <2>2. ASSUME NEW n \in DOMAIN queue', NEW i \in Approvals, queue'[n] = ApprovalTask("approval", i)
        PROVE  Cleared(i, n)'
    <3>1. Cleared(i, n + 1) /\ n \in Nat
      BY <1>2, <2>2 DEF LeftInv
    <3> QED BY <1>6, <3>1
  <2> QED BY <2>1, <2>2
<1>8. /\ \A n \in DOMAIN inbox' : \A i \in Approvals : inbox'[n] = Said("request", i) =>
           ask'[i] = "open" \/ Later(inbox', Said("resolved", i), n)
      /\ \A i \in open' : Coming(i)'
  BY <1>1, <1>3, <1>5 DEF LeftInv
<1>9. PICK i \in Approvals : queue[1] = ApprovalTask("approval", i) \/ queue[1] = ApprovalTask("finish", i)
  BY <1>2 DEF Task, ApprovalTask
<1>10. CASE queue[1] = ApprovalTask("approval", i)
  <2>1. queue[1].what = "approval"
    BY <1>10 DEF ApprovalTask
  <2>2. buttons' = buttons /\ work' = Working(queue[1], "posting")
    BY <1>2, <2>1 DEF TakeTask
  <2>3. work' = Posting(i)
    BY <1>10, <2>2 DEF Working, ApprovalTask, Posting
  <2>4. CodexTypes'
    BY <1>1, <1>2, <1>3, <1>4, <1>7, <2>2, <2>3 DEF CodexTypes
  <2>5. \A j : queue[1] # ApprovalTask("finish", j)
    BY <2>1 DEF ApprovalTask
  <2>6. \A j : Cleared(j, 0) => Cleared(j, 0)'
    BY <1>2, <1>5, <2>5 DEF Cleared
  <2>7. Cleared(i, 0)'
    <3>1. Cleared(i, 0 + 1)
      BY <1>2, <1>10 DEF LeftInv
    <3> QED BY <1>6, <3>1
  <2>8. \A j \in Approvals : work' = Posting(j) => Cleared(j, 0)'
    BY <2>3, <2>7 DEF Posting
  <2>9. \A j \in buttons' : Cleared(j, 0)'
    BY <2>2, <2>6 DEF LeftInv
  <2> QED BY <1>7, <1>8, <2>4, <2>8, <2>9 DEF LeftInv
<1>11. CASE queue[1] = ApprovalTask("finish", i)
  <2>1. queue[1].what = "finish" /\ queue[1].of = i /\ i # 0
    BY <1>11 DEF ApprovalTask
  <2>2. buttons' = buttons \ {i} /\ work' = work
    BY <1>2, <2>1 DEF TakeTask
  <2>3. CodexTypes'
    BY <1>1, <1>2, <1>3, <1>4, <1>7, <2>2 DEF CodexTypes
  <2>4. \A j : j # i => queue[1] # ApprovalTask("finish", j)
    BY <2>1 DEF ApprovalTask
  <2>5. \A j : j # i /\ Cleared(j, 0) => Cleared(j, 0)'
    BY <1>2, <1>5, <2>4 DEF Cleared
  <2>6. \A j \in Approvals : work' # Posting(j)
    BY <1>1, <2>2 DEF Posting, Idle
  <2>7. \A j \in buttons' : Cleared(j, 0)'
    BY <2>2, <2>5 DEF LeftInv
  <2> QED BY <1>7, <1>8, <2>3, <2>6, <2>7 DEF LeftInv
<1> QED BY <1>9, <1>10, <1>11

\* The buttons are posted, however late.
LEMMA PostedLeft ==
  ASSUME IsCodex, CodexTypes, LeftInv, ApprovalPosted
  PROVE  CodexTypes' /\ LeftInv'
<1>1. /\ buttons' = buttons \cup {work.of} /\ work' = Idle /\ work.what = "approval"
      /\ UNCHANGED <<inbox, ask, took, future, wire, calls, queue, open, pending, typing>>
  BY DEF ApprovalPosted, provider, link
<1>2. PICK i \in Approvals : work = Posting(i)
  BY <1>1 DEF CodexTypes, Idle
<1>3. buttons' = buttons \cup {i}
  BY <1>1, <1>2 DEF Posting
<1>4. Waiting' = Waiting
  BY <1>1 DEF Waiting
<1>5. CodexTypes'
  BY <1>1, <1>3, <1>4 DEF CodexTypes
<1>6. \A j : \A k : Cleared(j, k)' = Cleared(j, k) /\ Coming(j)' = Coming(j)
  BY <1>1 DEF Cleared, Coming
<1>7. \A j \in Approvals : work' # Posting(j)
  BY <1>1 DEF Posting, Idle
<1>8. \A j \in buttons' : Cleared(j, 0)
  BY <1>2, <1>3 DEF LeftInv
<1> QED BY <1>1, <1>5, <1>6, <1>7, <1>8 DEF LeftInv

\* Nothing is said, handled or taken.
Rests ==
  /\ UNCHANGED <<inbox, ask, took, future, queue, open>>
  /\ work' \in {work, Idle} /\ buttons' \subseteq buttons
  /\ wire' \subseteq Clients \X Approvals \X Decisions
  /\ calls' \subseteq Clients \X Approvals \X Decisions
  /\ pending' = {} /\ typing' = {}

\* A decision takes no more than buttons.
LEMMA DecideRests ==
  ASSUME IsCodex, CodexTypes, NEW c \in Clients, NEW i \in Approvals, NEW choice \in Decisions,
         CodexDecide(c, i, choice) \/ SendReturns(c, i, choice)
  PROVE  Rests
<1>1. <<c, i, choice>> \in Clients \X Approvals \X Decisions
  OBVIOUS
<1>2. /\ UNCHANGED <<inbox, ask, took, future, queue, open, work, pending, typing>>
      /\ wire' \subseteq wire \cup {<<c, i, choice>>} /\ calls' \subseteq calls \cup {<<c, i, choice>>}
      /\ buttons' \subseteq buttons
  BY DEF CodexDecide, SendReturns, provider, Sends, Replied
<1> QED BY <1>1, <1>2 DEF Rests, CodexTypes

\* codex asks no questions: there is nothing to answer.
LEMMA AnswerRests ==
  ASSUME IsCodex, CodexTypes, NEW q \in Questions, Answer(q)
  PROVE  Rests
<1>1. DesktopAnswers(q)
  BY DEF Answer, TelegramPresses, TelegramTexts, TelegramTypes, TelegramExpired, CodexTypes
<1>2. future[q] = "none"
  BY DEF CodexTypes, Requests
<1>3. UNCHANGED <<future, given, bus>> /\ Discard(q)
  BY <1>1, <1>2 DEF DesktopAnswers, Submit
<1>4. pending' = {} /\ typing' = {}
  BY <1>3 DEF Discard, CodexTypes
<1> QED BY <1>1, <1>3, <1>4 DEF DesktopAnswers, Rests, CodexTypes, link

\* What puts nothing anywhere leaves nothing.
LEMMA RestLeft ==
  ASSUME CodexTypes, LeftInv, Rests
  PROVE  CodexTypes' /\ LeftInv'
<1>1. Waiting' = Waiting
  BY DEF Waiting, Rests
<1>2. CodexTypes'
  BY <1>1 DEF CodexTypes, Rests
<1>3. inbox' = inbox /\ ask' = ask /\ queue' = queue /\ work' \in {work, Idle}
      /\ buttons' \subseteq buttons /\ open' = open
  BY DEF Rests
<1> QED BY <1>2, <1>3, SaysNoMore, StillLeft

\* A message that is not posted leaves nothing.
LEMMA PostFailsRests ==
  ASSUME CodexTypes, PostFails \/ UNCHANGED vars
  PROVE  Rests
BY DEF PostFails, Rests, CodexTypes, vars, provider, link, telegram

\* Every step of a codex session.
LEMMA CodexLeft ==
  ASSUME IsCodex, CodexTypes, LeftInv, Drift = FALSE, 0 \notin Approvals, [Next]_vars
  PROVE  CodexTypes' /\ LeftInv'
<1>1. CASE UNCHANGED vars
  BY <1>1, PostFailsRests, RestLeft
<1>2. CASE Provider
  <2>1. \A i \in Requests : ~HookReturns(i)
    BY DEF HookReturns, CodexTypes
  <2>2. \A q \in Questions : ~ClaudePart(q) /\ ~ClaudeQuestion(q)
    BY DEF ClaudePart, ClaudeQuestion, CodexTypes, Requests
  <2>3. \A i \in Approvals : ~ClaudeAsks(i)
    BY DEF ClaudeAsks
  <2> QED BY <1>2, <2>1, <2>2, <2>3, CodexAsksLeft, TalksLeft, InterruptedLeft DEF Provider
<1>3. CASE Handle
  BY <1>3, RequestLeft, ResolvedLeft, OtherLeft DEF Handle
<1>4. CASE Consumer \/ PostFails
  <2>1. ~PartPosted /\ ~KeysAttached
    BY DEF PartPosted, KeysAttached, CodexTypes, Posting, Idle
  <2> QED BY <1>4, <2>1, TaskLeft, PostedLeft, PostFailsRests, RestLeft DEF Consumer
<1>5. ASSUME NEW c \in Clients, NEW i \in Approvals, NEW choice \in Decisions, Decide(c, i, choice)
      PROVE  CodexTypes' /\ LeftInv'
  <2>1. ~ClaudeDecide(c, i, choice)
    BY DEF ClaudeDecide
  <2> QED BY <1>5, <2>1, DecideRests, RestLeft, TakesLeft DEF Decide
<1>6. ASSUME NEW q \in Questions, Answer(q)
      PROVE  CodexTypes' /\ LeftInv'
  BY <1>6, AnswerRests, RestLeft
<1> QED BY <1>1, <1>2, <1>3, <1>4, <1>5, <1>6 DEF Next

\* A session keeps its provider, and its setting.
LEMMA SameProvider ==
  ASSUME [Next]_vars
  PROVE  setting' = setting
<1>1. CASE UNCHANGED vars
  BY <1>1 DEF vars
<1>2. CASE Provider
  BY <1>2 DEF Provider, CodexAsks, ClaudeAsks, ClaudeQuestion, ClaudePart, HookReturns, GoesOn, Ends,
              Interrupted, NextTurn
<1>3. CASE Handle \/ Consumer \/ PostFails
  BY <1>3 DEF Handle, Consumer, TakeTask, ApprovalPosted, PartPosted, KeysAttached, PostFails
<1>4. ASSUME NEW c \in Clients, NEW i \in Approvals, NEW choice \in Decisions, Decide(c, i, choice)
      PROVE  setting' = setting
  BY <1>4 DEF Decide, CodexDecide, SendReturns, CodexTakes, ClaudeDecide
<1>5. ASSUME NEW q \in Questions, Answer(q)
      PROVE  setting' = setting
  <2>1. CASE DesktopAnswers(q) \/ \E p \in Parts : TelegramTypes(q, p) \/ TelegramExpired(q, p)
    BY <2>1 DEF DesktopAnswers, TelegramTypes, TelegramExpired
  <2>2. CASE \E p \in Parts : TelegramPresses(q, p) \/ TelegramTexts(q, p)
    BY <2>2 DEF TelegramPresses, TelegramTexts, AnswersPart
  <2> QED BY <1>5, <2>1, <2>2 DEF Answer
<1> QED BY <1>1, <1>2, <1>3, <1>4, <1>5 DEF Next

\* At first there is nothing to be left.
LEMMA InitLeft ==
  ASSUME Init
  PROVE  CodexTypes /\ LeftInv
<1>1. Waiting = {}
  BY DEF Init, Waiting
<1>2. IsFiniteSet(Waiting)
  BY <1>1, FS_EmptySet
<1>3. inbox = <<>> /\ queue = <<>> /\ inbox \in Seq(Says) /\ queue \in Seq(Task)
      /\ DOMAIN inbox = {} /\ DOMAIN queue = {}
  BY DEF Init
<1>4. \A q \in Questions : q \in Requests
  BY DEF Requests
<1>5. CodexTypes
  BY <1>2, <1>3, <1>4 DEF Init, CodexTypes
<1>6. \A i \in Approvals : work # Posting(i)
  BY DEF Init, Posting, Idle
<1>7. buttons = {} /\ open = {}
  BY DEF Init
<1> QED BY <1>3, <1>5, <1>6, <1>7 DEF LeftInv

\* No button and no interruption of the run outlives its codex request, whoever
\* decided it and however late its message was posted, for any number of requests
\* at once; an id of 0 is taken for none (section 4 of the README).
THEOREM NothingIsLeft ==
  ASSUME 0 \notin Approvals, Drift = FALSE
  PROVE  Spec => []NothingLeft
<1> DEFINE Inv == IsCodex => CodexTypes /\ LeftInv
<1>1. Init => Inv
  BY InitLeft
<1>2. Inv /\ [Next]_vars => Inv'
  <2> SUFFICES ASSUME Inv, [Next]_vars, IsCodex'
               PROVE  CodexTypes' /\ LeftInv'
    OBVIOUS
  <2>1. IsCodex
    BY SameProvider DEF IsCodex
  <2> QED BY <2>1, CodexLeft
<1>3. Inv => NothingLeft
  <2> SUFFICES ASSUME Inv, IsCodex, AtRest, NEW i \in buttons \cup open
               PROVE  i \in Waiting
    BY DEF NothingLeft
  <2>1. inbox = <<>> /\ queue = <<>>
    BY DEF AtRest
  <2>2. \A x : ~Later(inbox, x, 0) /\ ~Later(queue, x, 0)
    BY <2>1 DEF Later
  <2>3. i \in Approvals /\ ask[i] = "open"
    BY <2>2 DEF LeftInv, CodexTypes, Cleared, Coming
  <2> QED BY <2>3 DEF Waiting, Requests
<1> HIDE DEF Inv
<1> QED BY <1>1, <1>2, <1>3, PTL DEF Spec

-----------------------------------------------------------------------------
(* What codex's session shows.                                             *)

Asked(i)       == Event("requested", i, "both")
Answer_(i, by) == Event("answered", i, by)
Attention(i)   == [status |-> "attention", kind |-> "approval", req |-> i, parts |-> {}]
Over           == [Running EXCEPT !.status = "over"]

\* Somebody gave another answer than the one codex took: that stays so.
Overruled ==
  \E i \in Approvals, choice \in Decisions :
    Answer_(i, choice) \in seen /\ ask[i] = "closed" /\ took[i] # {choice}

\* What was said of a request is in order with it.
CodexSaid ==
  /\ \A k, n \in DOMAIN inbox :
       inbox[k].kind \in {"request", "resolved"} /\ inbox[k] = inbox[n] => k = n
  /\ \A k \in DOMAIN inbox : \A i \in Approvals :
       /\ inbox[k] = Said("request", i) => ask[i] # "none" /\ Asked(i) \notin seen
       /\ inbox[k] = Said("resolved", i) => ask[i] = "closed" /\ Answer_(i, "resolved") \notin seen

\* What was published, and what the topic has, is of a request that was made.
CodexTold ==
  \A i \in Approvals :
    /\ \/ i \in buttons \/ work = Posting(i)
       \/ \E k \in DOMAIN queue : queue[k] = ApprovalTask("approval", i)
       => Asked(i) \in seen
    /\ Asked(i) \in seen => ask[i] # "none"
    /\ Answer_(i, "resolved") \in seen => ask[i] = "closed"

\* What codex took was published, as is what it is to read.
CodexTook ==
  /\ calls = {}
  /\ \A i \in Approvals : \A choice \in Decisions :
       /\ took[i] = {choice} => Answer_(i, choice) \in seen
       /\ \A c \in Clients : <<c, i, choice>> \in wire => Answer_(i, choice) \in seen
  /\ \A i \in Approvals : ask[i] # "closed" => took[i] = {}

\* One request is open at a time, in a turn.
OneOpen == (\A i, j \in Waiting : i = j) /\ (~turn => Waiting = {})

\* The session shows a request that is open, or whose resolution comes.
CodexShows == activity \in {Running, Over} \/ \E i \in Approvals : activity = Attention(i) /\ Coming(i)

Decided(i) == \E c \in Clients, choice \in Decisions : <<c, i, choice>> \in wire

\* What is open is yet to be handled, shown, or decided.
OpenIsShown ==
  ~Overruled => \A i \in Waiting :
    \/ inbox # <<>> /\ inbox[Len(inbox)] = Said("request", i)
    \/ inbox = <<>> /\ (activity = Attention(i) \/ Decided(i))

ShownInv == CodexSaid /\ CodexTold /\ CodexTook /\ OneOpen /\ CodexShows /\ OpenIsShown

\* An event whose identity counts.
LEMMA PublishKeyed ==
  ASSUME NEW kind \in {"requested", "answered", "replied"}, NEW i, i # 0, NEW by,
         Publish(Event(kind, i, by))
  PROVE  /\ seen' = seen \cup {Event(kind, i, by)}
         /\ activity' = IF Event(kind, i, by) \in seen THEN activity ELSE Shown(Event(kind, i, by), activity)
<1> DEFINE e == Event(kind, i, by)
<1>1. Clean(i) = i
  BY DEF Clean
<1>2. [e EXCEPT !.of = Clean(@)] = e /\ e.kind = kind
  BY <1>1 DEF Event
<1>3. Keyed(e)
  BY <1>2 DEF Keyed
<1> HIDE DEF e
<1>4. seen' = seen \cup {e}
  BY <1>2, <1>3 DEF Publish, e
<1>5. Fresh(e) <=> e \notin seen
  BY <1>2, <1>3 DEF Fresh
<1> QED BY <1>4, <1>5 DEF Publish, e

\* An event without an identity is always shown.
LEMMA PublishFree ==
  ASSUME NEW kind \in {"started", "progress", "final", "completed", "failed"}, Publish(Event(kind, NoId, ""))
  PROVE  seen' = seen /\ activity' = Shown(Event(kind, NoId, ""), activity)
<1> DEFINE e == Event(kind, NoId, "")
<1>1. e.kind = kind
  BY DEF Event
<1>2. ~Keyed(e)
  BY <1>1 DEF Keyed
<1> HIDE DEF e
<1> QED BY <1>2 DEF Publish, Fresh, e

\* What the session shows after an event.
LEMMA ShowsAnswer ==
  ASSUME NEW i, NEW by
  PROVE  /\ Shown(Answer_(i, by), Running) = Running
         /\ Shown(Answer_(i, by), Over) = Over
         /\ \A j : Shown(Answer_(i, by), Attention(j)) = Running
<1>1. Answer_(i, by).kind = "answered"
  BY DEF Answer_, Event
<1> QED BY <1>1 DEF Shown, Answered, Running, Over, Attention

\* A request is shown.
LEMMA ShowsRequest ==
  ASSUME NEW i, i # 0, NEW a
  PROVE  Shown(Asked(i), a) = Attention(i)
<1>1. Asked(i).kind = "requested" /\ Asked(i).of = i /\ Clean(i) = i
  BY DEF Asked, Event, Clean
<1> QED BY <1>1 DEF Shown, Attention

\* Output shows a turn that runs or is over, or leaves the approval that is shown.
LEMMA ShowsTalk ==
  ASSUME NEW kind \in {"started", "progress", "final", "completed", "failed"}
  PROVE  /\ \A a \in {Running, Over} : Shown(Event(kind, NoId, ""), a) \in {Running, Over}
         /\ \A i : Shown(Event(kind, NoId, ""), Attention(i)) \in {Running, Over, Attention(i)}
<1> DEFINE e == Event(kind, NoId, "")
<1>1. e.kind = kind
  BY DEF Event
<1>2. Running.kind # "question" /\ Over.kind # "question" /\ \A i : Attention(i).kind # "question"
  BY DEF Running, Over, Attention
<1>3. /\ Running.status # "attention" /\ Over.status # "attention"
      /\ [Running EXCEPT !.status = "over"] = Over /\ [Over EXCEPT !.status = "over"] = Over
      /\ \A i : Attention(i).status = "attention"
  BY DEF Running, Over, Attention
<1> HIDE DEF e
<1>4. CASE kind = "started"
  <2>1. \A a : Shown(e, a) = Running
    BY <1>1, <1>4 DEF Shown
  <2> QED BY <2>1 DEF e
<1>5. CASE kind = "progress"
  <2>1. \A a : Shown(e, a) = Progress(a)
    BY <1>1, <1>5 DEF Shown
  <2>2. \A a : a.kind # "question" => Progress(a) = Running
    BY DEF Progress
  <2> QED BY <1>2, <2>1, <2>2 DEF e
<1>6. CASE kind = "completed"
  <2>1. \A a : Shown(e, a) = IF a.status = "attention" THEN a ELSE [a EXCEPT !.status = "over"]
    BY <1>1, <1>6 DEF Shown
  <2> QED BY <1>3, <2>1 DEF e
<1>7. CASE kind \in {"final", "failed"}
  <2>1. \A a : Shown(e, a) = [Running EXCEPT !.status = "over"]
    BY <1>1, <1>7 DEF Shown
  <2> QED BY <1>3, <2>1 DEF e
<1> QED BY <1>4, <1>5, <1>6, <1>7

\* Events of codex are told apart by request and decision.
LEMMA EventsDiffer ==
  ASSUME NEW i, NEW j, NEW x, NEW y
  PROVE  /\ Answer_(i, x) = Answer_(j, y) => i = j /\ x = y
         /\ Asked(i) = Asked(j) => i = j
         /\ Asked(i) # Answer_(j, x)
<1>1. /\ Answer_(i, x).of = i /\ Answer_(i, x).detail = x /\ Answer_(i, x).kind = "answered"
      /\ Answer_(j, y).of = j /\ Answer_(j, y).detail = y /\ Answer_(j, x).kind = "answered"
      /\ Asked(i).of = i /\ Asked(i).kind = "requested" /\ Asked(j).of = j
  BY DEF Answer_, Asked, Event
<1> QED BY <1>1

\* What a session may show is told apart.
LEMMA NotTheSame ==
  /\ Running # Over
  /\ \A i : Attention(i) \notin {Running, Over}
  /\ \A i, j : Attention(i) = Attention(j) => i = j
  /\ \A i : Attention(i).req = i /\ Attention(i).status = "attention" /\ Attention(i).kind = "approval"
  /\ \A a \in {Running, Over} : a.req = NoId /\ a.status # "attention" /\ a.kind = ""
<1>1. Running # Over
  BY DEF Running, Over
<1>2. /\ \A i : Attention(i).req = i /\ Attention(i).status = "attention" /\ Attention(i).kind = "approval"
      /\ \A a \in {Running, Over} : a.req = NoId /\ a.status # "attention" /\ a.kind = ""
  BY DEF Running, Over, Attention
<1>3. \A i : Attention(i) # Running /\ Attention(i) # Over
  BY <1>2
<1>4. \A i, j : Attention(i) = Attention(j) => i = j
  <2>1. \A i, j : Attention(i).req = i /\ Attention(j).req = j
    BY <1>2
  <2> QED BY <2>1
<1> QED BY <1>1, <1>2, <1>3, <1>4

-----------------------------------------------------------------------------
(* codex says more, and the session shows what it did.                     *)

\* What is said anew of a request is so, and said once.
NewIsSo ==
  /\ \A k \in DOMAIN inbox' \ DOMAIN inbox : \A i \in Approvals :
       /\ inbox'[k] = Said("request", i) => ask[i] = "none"
       /\ inbox'[k] = Said("resolved", i) => ask[i] = "open" /\ ask'[i] = "closed"
  /\ \A j, k \in DOMAIN inbox' \ DOMAIN inbox :
       inbox'[j].kind \in {"request", "resolved"} /\ inbox'[j] = inbox'[k] => j = k
  /\ \A i \in Approvals : /\ ask[i] # "none" => ask'[i] # "none"
                          /\ ask[i] = "closed" => ask'[i] = "closed"

\* What codex says anew is in order with what was said and published.
LEMMA SaysShown ==
  ASSUME CodexTypes, CodexTypes', ShownInv, SaysMore, NewIsSo, UNCHANGED <<bus, telegram>>
  PROVE  CodexSaid' /\ CodexTold' /\ CodexShows'
<1>1. UNCHANGED <<activity, seen, queue, work, buttons>>
  BY DEF bus, telegram
<1>2. ASSUME NEW k \in DOMAIN inbox', inbox'[k].kind \in {"request", "resolved"}
      PROVE  \E i \in Approvals : inbox'[k] = Said("request", i) \/ inbox'[k] = Said("resolved", i)
  <2>1. inbox'[k] \in Says
    BY LenProperties DEF CodexTypes
  <2> QED BY <1>2, <2>1 DEF Says, Said
<1>3. ASSUME NEW k \in DOMAIN inbox', NEW n \in DOMAIN inbox', inbox'[k].kind \in {"request", "resolved"},
             inbox'[k] = inbox'[n], k \in DOMAIN inbox, n \notin DOMAIN inbox
      PROVE  FALSE
  <2>1. PICK i \in Approvals : inbox'[k] = Said("request", i) \/ inbox'[k] = Said("resolved", i)
    BY <1>2, <1>3
  <2>2. inbox[k] = inbox'[k]
    BY <1>3 DEF SaysMore
  <2>3. CASE inbox'[k] = Said("request", i)
    <3>1. ask[i] # "none"
      BY <1>3, <2>2, <2>3 DEF ShownInv, CodexSaid
    <3>2. ask[i] = "none"
      BY <1>3, <2>3 DEF NewIsSo
    <3> QED BY <3>1, <3>2
  <2>4. CASE inbox'[k] = Said("resolved", i)
    <3>1. ask[i] = "closed"
      BY <1>3, <2>2, <2>4 DEF ShownInv, CodexSaid
    <3>2. ask[i] = "open"
      BY <1>3, <2>4 DEF NewIsSo
    <3> QED BY <3>1, <3>2
  <2> QED BY <2>1, <2>3, <2>4
<1>4. ASSUME NEW k \in DOMAIN inbox', NEW n \in DOMAIN inbox', inbox'[k].kind \in {"request", "resolved"},
             inbox'[k] = inbox'[n]
      PROVE  k = n
  <2>1. CASE k \in DOMAIN inbox /\ n \in DOMAIN inbox
    BY <1>4, <2>1 DEF ShownInv, CodexSaid, SaysMore
  <2>2. CASE k \notin DOMAIN inbox /\ n \notin DOMAIN inbox
    BY <1>4, <2>2 DEF NewIsSo
  <2> QED BY <1>3, <1>4, <2>1, <2>2
<1>5. ASSUME NEW k \in DOMAIN inbox', NEW i \in Approvals
      PROVE  /\ inbox'[k] = Said("request", i) => ask'[i] # "none" /\ Asked(i) \notin seen
             /\ inbox'[k] = Said("resolved", i) => ask'[i] = "closed" /\ Answer_(i, "resolved") \notin seen
  <2>1. CASE k \in DOMAIN inbox
    BY <2>1 DEF ShownInv, CodexSaid, SaysMore, NewIsSo
  <2>2. CASE k \notin DOMAIN inbox
    <3>1. inbox'[k] = Said("request", i) => ask'[i] = "open" /\ ask[i] = "none"
      BY <2>2 DEF SaysMore, NewIsSo
    <3>2. inbox'[k] = Said("resolved", i) => ask[i] = "open" /\ ask'[i] = "closed"
      BY <2>2 DEF NewIsSo
    <3> QED BY <3>1, <3>2 DEF ShownInv, CodexTold
  <2> QED BY <2>1, <2>2
<1>6. CodexSaid'
  BY <1>1, <1>4, <1>5 DEF CodexSaid, Asked, Answer_
<1>7. CodexTold'
  BY <1>1 DEF ShownInv, CodexTold, NewIsSo, Asked, Answer_, Posting, ApprovalTask
<1>8. CodexShows'
  BY <1>1, ComingStays DEF ShownInv, CodexShows, Attention, Running, Over
<1> QED BY <1>6, <1>7, <1>8

\* One message of codex's.
LEMMA OneNew ==
  ASSUME CodexTypes, NEW kind, NEW i, Said(kind, i) \in Says, Receive(kind, i),
         kind = "request" => ask[i] = "none",
         kind = "resolved" => ask[i] = "open" /\ ask'[i] = "closed",
         \A j \in Approvals : /\ ask[j] # "none" => ask'[j] # "none"
                              /\ ask[j] = "closed" => ask'[j] = "closed"
  PROVE  NewIsSo /\ inbox' # <<>> /\ inbox'[Len(inbox')] = Said(kind, i)
<1>1. inbox' = Append(inbox, Said(kind, i))
  BY DEF Receive, Said
<1>2. /\ inbox' \in Seq(Says) /\ Len(inbox) \in Nat /\ Len(inbox') = Len(inbox) + 1
      /\ DOMAIN inbox = 1 .. Len(inbox) /\ DOMAIN inbox' = 1 .. Len(inbox) + 1
      /\ inbox'[Len(inbox) + 1] = Said(kind, i)
  BY <1>1, Put DEF CodexTypes
<1>3. \A k \in DOMAIN inbox' \ DOMAIN inbox : k = Len(inbox) + 1 /\ inbox'[k] = Said(kind, i)
  BY <1>2
<1>4. \A j : /\ Said(kind, i) = Said("request", j) => kind = "request" /\ j = i
             /\ Said(kind, i) = Said("resolved", j) => kind = "resolved" /\ j = i
  BY DEF Said
<1>5. NewIsSo
  BY <1>3, <1>4 DEF NewIsSo
<1>6. inbox' # <<>>
  BY <1>2
<1> QED BY <1>2, <1>5, <1>6

\* With one request at a time, codex asks when it waits for nobody.
LEMMA NoneWaits ==
  ASSUME CodexTypes, AtOnce <= 1, NEW i, MayAsk(i)
  PROVE  Waiting = {}
<1>1. Cardinality(Waiting) \in Nat /\ Cardinality(Waiting) < AtOnce /\ AtOnce \in Nat
  BY FS_CardinalityType, InteractionsAssumption DEF CodexTypes, MayAsk
<1>2. Cardinality(Waiting) = 0
  BY <1>1
<1> QED BY <1>2, FS_EmptySet DEF CodexTypes

\* codex asks: the request is the last that it said.
LEMMA AsksShown ==
  ASSUME IsCodex, CodexTypes, CodexTypes', ShownInv, AtOnce <= 1, NEW i \in Approvals, CodexAsks(i)
  PROVE  ShownInv'
<1>1. /\ Waiting = {} /\ ask[i] = "none" /\ i \in Requests /\ turn
      /\ ask' = [ask EXCEPT ![i] = "open"] /\ Receive("request", i)
      /\ UNCHANGED <<turn, took, wire, calls, bus, telegram>>
  BY NoneWaits DEF CodexAsks, MayAsk, Requests
<1>2. Said("request", i) \in Says
  BY DEF Said, Says
<1>3. \A j \in Approvals : /\ ask'[j] = IF j = i THEN "open" ELSE ask[j]
                           /\ ask[j] # "open"
  BY <1>1 DEF CodexTypes, Requests, Waiting
<1>4. SaysMore
  BY <1>1, <1>2, <1>3, SaysOne
<1>5. NewIsSo /\ inbox' # <<>> /\ inbox'[Len(inbox')] = Said("request", i)
  BY <1>1, <1>2, <1>3, OneNew
<1>6. CodexSaid' /\ CodexTold' /\ CodexShows'
  BY <1>1, <1>4, <1>5, SaysShown
<1>7. Waiting' = {i}
  BY <1>1 DEF Waiting, CodexTypes
<1>8. OneOpen' /\ OpenIsShown'
  BY <1>1, <1>5, <1>7 DEF OneOpen, OpenIsShown
<1>9. CodexTook'
  BY <1>1, <1>3 DEF ShownInv, CodexTook, bus, Answer_
<1> QED BY <1>6, <1>8, <1>9 DEF ShownInv

\* The turn goes on, ends, or another starts: nobody waits.
LEMMA TalksShown ==
  ASSUME IsCodex, CodexTypes, CodexTypes', ShownInv, GoesOn \/ Ends \/ NextTurn
  PROVE  ShownInv'
<1>1. PICK kind \in {"progress", "final", "started"} : Receive(kind, NoId)
  BY DEF GoesOn, Ends, NextTurn
<1>2. /\ UNCHANGED <<ask, took, wire, calls, bus, telegram>>
      /\ Waiting = {}
  BY DEF GoesOn, Ends, NextTurn, provider, ShownInv, OneOpen
<1>3. Said(kind, NoId) \in Says
  BY DEF Said, Says
<1>4. SaysMore
  BY <1>1, <1>2, <1>3, SaysOne
<1>5. NewIsSo
  BY <1>1, <1>2, <1>3, OneNew
<1>6. CodexSaid' /\ CodexTold' /\ CodexShows'
  BY <1>2, <1>4, <1>5, SaysShown
<1>7. Waiting' = {}
  BY <1>2 DEF Waiting
<1>8. OneOpen' /\ OpenIsShown'
  BY <1>7 DEF OneOpen, OpenIsShown
<1>9. CodexTook'
  BY <1>2 DEF ShownInv, CodexTook, bus, Answer_
<1> QED BY <1>6, <1>8, <1>9 DEF ShownInv

\* The turn is interrupted: nobody waits any more.
LEMMA InterruptedShown ==
  ASSUME IsCodex, CodexTypes, CodexTypes', ShownInv, Interrupted
  PROVE  ShownInv'
<1>1. /\ SaysMore
      /\ \A k \in DOMAIN inbox' \ DOMAIN inbox :
           inbox'[k].kind # "resolved" => inbox'[k] = Said("completed", NoId)
      /\ \A k \in DOMAIN inbox' \ DOMAIN inbox : \A i \in Approvals :
           inbox'[k] = Said("resolved", i) => i \in Waiting
      /\ \A j, k \in DOMAIN inbox' \ DOMAIN inbox :
           inbox'[j].kind = "resolved" /\ inbox'[j] = inbox'[k] => j = k
  BY InterruptedSays
<1>2. /\ ask' = [i \in Requests |-> IF i \in Waiting THEN "closed" ELSE ask[i]]
      /\ UNCHANGED <<took, wire, calls, bus, telegram>>
  BY DEF Interrupted
<1>3. \A i \in Approvals : /\ ask'[i] = IF ask[i] = "open" THEN "closed" ELSE ask[i]
                           /\ i \in Waiting => ask[i] = "open"
  BY <1>2 DEF Waiting, Requests
<1>4. NewIsSo
  <2>1. \A k \in DOMAIN inbox' \ DOMAIN inbox : inbox'[k].kind # "request"
    BY <1>1 DEF Said
  <2>2. \A k \in DOMAIN inbox' \ DOMAIN inbox : \A i : inbox'[k] # Said("request", i)
    BY <2>1 DEF Said
  <2> QED BY <1>1, <1>3, <2>1, <2>2 DEF NewIsSo
<1>5. CodexSaid' /\ CodexTold' /\ CodexShows'
  BY <1>1, <1>2, <1>4, SaysShown
<1>6. Waiting' = {}
  BY <1>2 DEF Waiting
<1>7. OneOpen' /\ OpenIsShown'
  BY <1>6 DEF OneOpen, OpenIsShown
<1>8. CodexTook'
  BY <1>2, <1>3 DEF ShownInv, CodexTook, bus, Answer_
<1> QED BY <1>5, <1>7, <1>8 DEF ShownInv

\* The app-server reads a reply, which was published.
LEMMA TakesShown ==
  ASSUME IsCodex, CodexTypes, CodexTypes', ShownInv,
         NEW c \in Clients, NEW i \in Approvals, NEW choice \in Decisions, CodexTakes(c, i, choice)
  PROVE  ShownInv'
<1>1. /\ <<c, i, choice>> \in wire /\ wire' = wire \ {<<c, i, choice>>} /\ i \in Requests
      /\ UNCHANGED <<turn, calls, bus, telegram>>
  BY DEF CodexTakes, Requests
<1>2. CASE ask[i] = "open"
  <2>1. /\ ask' = [ask EXCEPT ![i] = "closed"] /\ took' = [took EXCEPT ![i] = {choice}]
        /\ Receive("resolved", i)
    BY <1>2 DEF CodexTakes
  <2>2. Said("resolved", i) \in Says
    BY DEF Said, Says
  <2>3. \A j \in Approvals : /\ ask'[j] = IF j = i THEN "closed" ELSE ask[j]
                             /\ took'[j] = IF j = i THEN {choice} ELSE took[j]
    BY <2>1 DEF CodexTypes, Requests
  <2>4. SaysMore
    BY <1>1, <2>1, <2>2, <2>3, SaysOne
  <2>5. NewIsSo
    BY <1>2, <2>1, <2>2, <2>3, OneNew
  <2>6. CodexSaid' /\ CodexTold' /\ CodexShows'
    BY <1>1, <2>4, <2>5, SaysShown
  <2>7. Waiting' = Waiting \ {i} /\ i \in Waiting
    BY <1>1, <1>2, <2>1 DEF Waiting, CodexTypes
  <2>8. Waiting' = {}
    BY <2>7 DEF ShownInv, OneOpen
  <2>9. OneOpen' /\ OpenIsShown'
    BY <2>8 DEF OneOpen, OpenIsShown
  <2>10. CodexTook'
    BY <1>1, <2>3 DEF ShownInv, CodexTook, bus, Answer_
  <2> QED BY <2>6, <2>9, <2>10 DEF ShownInv
<1>3. CASE ask[i] # "open"
  <2>1. UNCHANGED <<ask, took, inbox>>
    BY <1>3 DEF CodexTakes
  <2>2. SaysMore /\ NewIsSo
    BY <2>1 DEF SaysMore, NewIsSo
  <2>3. CodexSaid' /\ CodexTold' /\ CodexShows'
    BY <1>1, <2>2, SaysShown
  <2>4. Waiting' = Waiting /\ i \notin Waiting
    BY <1>3, <2>1 DEF Waiting
  <2>5. \A j \in Waiting : Decided(j) => Decided(j)'
    BY <1>1, <2>4 DEF Decided
  <2>6. UNCHANGED <<activity, seen, took, ask, inbox>>
    BY <1>1, <2>1 DEF bus
  <2>7. OpenIsShown'
    BY <2>4, <2>5, <2>6 DEF ShownInv, OpenIsShown, Overruled, Attention, Said, Answer_
  <2>8. OneOpen' /\ CodexTook'
    BY <1>1, <2>4, <2>6 DEF ShownInv, OneOpen, CodexTook, Answer_
  <2> QED BY <2>3, <2>7, <2>8 DEF ShownInv
<1> QED BY <1>2, <1>3

-----------------------------------------------------------------------------
(* What codex said is handled, and the session shows it.                   *)

\* A request that waits to be handled comes last still.
LEMMA LastStays ==
  ASSUME CodexTypes, inbox # <<>>, inbox' = Tail(inbox), NEW i,
         inbox[Len(inbox)] = Said("request", i)
  PROVE  \/ inbox[1] = Said("request", i) /\ inbox' = <<>>
         \/ inbox' # <<>> /\ inbox'[Len(inbox')] = Said("request", i)
<1>1. /\ inbox' \in Seq(Says) /\ Len(inbox) \in Nat \ {0} /\ Len(inbox') = Len(inbox) - 1
      /\ DOMAIN inbox = 1 .. Len(inbox) /\ DOMAIN inbox' = 1 .. Len(inbox) - 1
      /\ \A n \in 1 .. Len(inbox) - 1 : inbox'[n] = inbox[n + 1]
  BY Taken DEF CodexTypes
<1>2. CASE Len(inbox) = 1
  BY <1>1, <1>2
<1>3. CASE Len(inbox) # 1
  <2>1. Len(inbox) - 1 \in 1 .. Len(inbox) - 1
    BY <1>1, <1>3
  <2>2. inbox'[Len(inbox')] = inbox[Len(inbox) - 1 + 1] /\ Len(inbox) - 1 + 1 = Len(inbox)
    BY <1>1, <2>1
  <2>3. Len(inbox') # 0
    BY <1>1, <1>3
  <2>4. inbox' # <<>>
    BY <2>3
  <2> QED BY <2>2, <2>4
<1> QED BY <1>2, <1>3

\* What remains of what was said is in order, whatever was published of the first.
LEMMA RemainsSaid ==
  ASSUME CodexTypes, CodexTypes', CodexSaid, ask' = ask, inbox # <<>>,
         \A n \in DOMAIN inbox' : n \in Nat /\ n + 1 \in DOMAIN inbox /\ inbox'[n] = inbox[n + 1],
         1 \in DOMAIN inbox, inbox[1].kind \in {"request", "resolved"},
         NEW e, seen' \subseteq seen \cup {e},
         \A i \in Approvals : /\ e = Asked(i) => inbox[1] = Said("request", i)
                              /\ e = Answer_(i, "resolved") => inbox[1] = Said("resolved", i)
  PROVE  CodexSaid'
<1>1. \A n \in DOMAIN inbox' : inbox'[n] # inbox[1]
  <2> SUFFICES ASSUME NEW n \in DOMAIN inbox', inbox'[n] = inbox[1]
               PROVE  FALSE
    OBVIOUS
  <2>1. n + 1 = 1 /\ n \in Nat /\ n # 0
    BY LenProperties DEF CodexSaid, CodexTypes
  <2> QED BY <2>1
<1>2. \A k, n \in DOMAIN inbox' :
        inbox'[k].kind \in {"request", "resolved"} /\ inbox'[k] = inbox'[n] => k = n
  <2> SUFFICES ASSUME NEW k \in DOMAIN inbox', NEW n \in DOMAIN inbox',
                      inbox'[k].kind \in {"request", "resolved"}, inbox'[k] = inbox'[n]
               PROVE  k = n
    OBVIOUS
  <2>1. k \in Nat /\ n \in Nat /\ k + 1 = n + 1
    BY DEF CodexSaid
  <2> QED BY <2>1
<1>3. \A k \in DOMAIN inbox' : \A i \in Approvals :
       /\ inbox'[k] = Said("request", i) => ask[i] # "none" /\ Asked(i) \notin seen'
       /\ inbox'[k] = Said("resolved", i) => ask[i] = "closed" /\ Answer_(i, "resolved") \notin seen'
  BY <1>1 DEF CodexSaid
<1> QED BY <1>2, <1>3 DEF CodexSaid, Asked, Answer_

\* A request is handled: it is shown, or was decided already.
LEMMA RequestShown ==
  ASSUME IsCodex, CodexTypes, CodexTypes', LeftInv, ShownInv, Drift = FALSE, 0 \notin Approvals,
         NEW k \in DOMAIN inbox, IsNext(k), Take(k), HandleRequest(k),
         UNCHANGED <<setting, provider, wire, calls>>
  PROVE  ShownInv'
<1>1. /\ k = 1 /\ inbox # <<>> /\ inbox[1] \in Says /\ 1 \in DOMAIN inbox
      /\ inbox' = Tail(inbox)
      /\ \A n \in DOMAIN inbox' : n \in Nat /\ n + 1 \in DOMAIN inbox /\ inbox'[n] = inbox[n + 1]
  BY FirstTaken
<1>2. PICK i \in Approvals : inbox[1] = Said("request", i) /\ i = inbox[1].of
  BY <1>1 DEF HandleRequest, Says, Said
<1>3. UNCHANGED <<ask, took, turn, wire, calls, work, buttons>>
  BY DEF HandleRequest, provider
<1>4. Asked(i) \notin seen /\ ask[i] # "none"
  BY <1>1, <1>2 DEF ShownInv, CodexSaid
<1>5. ~Mirrored(i) /\ i # 0
  BY <1>4 DEF ShownInv, CodexTold, Mirrored
<1>6. Request(i, "hook") = Asked(i)
  BY DEF Request, Asked, IsCodex
<1>7. Publish(Asked(i)) /\ (queue' = queue \/ queue' = Append(queue, ApprovalTask("approval", i)))
  BY <1>1, <1>2, <1>5, <1>6 DEF HandleRequest, Enqueue
<1>8. seen' = seen \cup {Asked(i)} /\ activity' = Attention(i)
  BY <1>4, <1>5, <1>7, PublishKeyed, ShowsRequest DEF Asked
<1>9. Coming(i)'
  <2>1. ask[i] = "open" \/ Later(inbox, Said("resolved", i), 0 + 1)
    BY <1>1, <1>2 DEF LeftInv
  <2>2. ask[i] = "open" \/ Later(Tail(inbox), Said("resolved", i), 0)
    BY <1>1, <2>1, LaterTaken DEF CodexTypes
  <2> QED BY <1>1, <1>3, <2>2 DEF Coming
<1>10. CodexShows'
  BY <1>8, <1>9 DEF CodexShows, Attention
<1>11. CodexSaid'
  <2>1. \A j \in Approvals : /\ Asked(i) = Asked(j) => inbox[1] = Said("request", j)
                             /\ Asked(i) # Answer_(j, "resolved")
    <3>1. \A j : (Asked(i) = Asked(j) => i = j) /\ Asked(i) # Answer_(j, "resolved")
      BY EventsDiffer
    <3> QED BY <1>2, <3>1
  <2>2. inbox[1].kind \in {"request", "resolved"}
    BY <1>2 DEF Said
  <2> QED BY <1>1, <1>3, <1>8, <2>1, <2>2, RemainsSaid DEF ShownInv
<1>12. \A j \in Approvals : \A n \in DOMAIN queue' :
         queue'[n] = ApprovalTask("approval", j) => j = i \/ \E m \in DOMAIN queue : queue[m] = queue'[n]
  <2>1. ApprovalTask("approval", i) \in Task
    BY DEF ApprovalTask, Task
  <2>2. \A n \in DOMAIN queue' : \/ n \in DOMAIN queue /\ queue'[n] = queue[n]
                                 \/ queue'[n] = ApprovalTask("approval", i)
    BY <1>7, <2>1, TaskMore
  <2>3. \A j : ApprovalTask("approval", i) = ApprovalTask("approval", j) => i = j
    BY DEF ApprovalTask
  <2> QED BY <2>2, <2>3
<1>13. \A j \in Approvals : /\ Asked(j) \in seen' => Asked(j) \in seen \/ i = j
                            /\ \A x : Answer_(j, x) \in seen' => Answer_(j, x) \in seen
  BY <1>8, EventsDiffer
<1>14. CodexTold'
  <2> SUFFICES ASSUME NEW j \in Approvals
               PROVE  /\ \/ j \in buttons' \/ work' = Posting(j)
                         \/ \E n \in DOMAIN queue' : queue'[n] = ApprovalTask("approval", j)
                         => Asked(j) \in seen'
                      /\ Asked(j) \in seen' => ask'[j] # "none"
                      /\ Answer_(j, "resolved") \in seen' => ask'[j] = "closed"
    BY DEF CodexTold, Asked, Answer_, Posting, ApprovalTask
  <2>1. \/ j \in buttons' \/ work' = Posting(j)
        \/ \E n \in DOMAIN queue' : queue'[n] = ApprovalTask("approval", j)
        => Asked(j) \in seen'
    BY <1>3, <1>8, <1>12 DEF ShownInv, CodexTold
  <2>2. Asked(j) \in seen' => ask'[j] # "none"
    BY <1>3, <1>4, <1>13 DEF ShownInv, CodexTold
  <2>3. Answer_(j, "resolved") \in seen' => ask'[j] = "closed"
    BY <1>3, <1>13 DEF ShownInv, CodexTold
  <2> QED BY <2>1, <2>2, <2>3
<1>15. CodexTook'
  BY <1>3, <1>8 DEF ShownInv, CodexTook, Answer_
<1>16. Waiting' = Waiting
  BY <1>3 DEF Waiting
<1>17. OneOpen'
  BY <1>3, <1>16 DEF ShownInv, OneOpen
<1>18. OpenIsShown'
  <2> SUFFICES ASSUME ~Overruled', NEW j \in Waiting
               PROVE  \/ inbox' # <<>> /\ inbox'[Len(inbox')] = Said("request", j)
                      \/ inbox' = <<>> /\ activity' = Attention(j)
    BY <1>16 DEF OpenIsShown, Attention, Said
  <2>1. ~Overruled
    BY <1>3, <1>8 DEF Overruled, Answer_
  <2>2. inbox[Len(inbox)] = Said("request", j)
    BY <1>1, <2>1 DEF ShownInv, OpenIsShown
  <2>3. inbox[1] = Said("request", j) => j = i
    BY <1>2 DEF Said
  <2> QED BY <1>1, <1>8, <2>2, <2>3, LastStays
<1> QED BY <1>10, <1>11, <1>14, <1>15, <1>17, <1>18 DEF ShownInv

\* A resolution is handled: another request stays as it is shown.
LEMMA ResolvedShown ==
  ASSUME IsCodex, CodexTypes, CodexTypes', ShownInv, Drift = FALSE, 0 \notin Approvals,
         NEW k \in DOMAIN inbox, IsNext(k), Take(k), HandleResolved(k),
         UNCHANGED <<setting, provider, wire, calls>>
  PROVE  ShownInv'
<1>1. /\ k = 1 /\ inbox # <<>> /\ inbox[1] \in Says /\ 1 \in DOMAIN inbox
      /\ inbox' = Tail(inbox)
      /\ \A n \in DOMAIN inbox' : n \in Nat /\ n + 1 \in DOMAIN inbox /\ inbox'[n] = inbox[n + 1]
  BY FirstTaken
<1>2. PICK i \in Approvals : inbox[1] = Said("resolved", i) /\ i = inbox[1].of /\ i # 0
  BY <1>1 DEF HandleResolved, Says, Said
<1>3. UNCHANGED <<ask, took, turn, wire, calls, work>> /\ buttons' \subseteq buttons
      /\ queue' = Append(queue, ApprovalTask("finish", i))
  BY <1>1, <1>2 DEF HandleResolved, provider
<1>4. ask[i] = "closed" /\ Answer_(i, "resolved") \notin seen
  BY <1>1, <1>2 DEF ShownInv, CodexSaid
<1>5. /\ seen \subseteq seen' /\ seen' \subseteq seen \cup {Answer_(i, "resolved")}
      /\ \/ activity' = Running
         \/ activity' = activity /\ activity # Attention(i)
  <2>1. CASE activity = Attention(i)
    <3>1. activity.req = i
      BY <2>1, NotTheSame
    <3>2. Publish(Answer_(i, "resolved"))
      BY <1>1, <1>2, <3>1 DEF HandleResolved, Answer_
    <3>3. seen' = seen \cup {Answer_(i, "resolved")}
          /\ activity' = Shown(Answer_(i, "resolved"), activity)
      BY <1>2, <1>4, <3>2, PublishKeyed DEF Answer_
    <3> QED BY <2>1, <3>3, ShowsAnswer
  <2>2. CASE activity # Attention(i)
    <3>1. activity.req # i
      <4>1. CASE activity \in {Running, Over}
        BY <4>1, NotTheSame, InteractionsAssumption
      <4>2. CASE \E j \in Approvals : activity = Attention(j)
        BY <2>2, <4>2, NotTheSame
      <4> QED BY <4>1, <4>2 DEF ShownInv, CodexShows
    <3>2. UNCHANGED bus
      BY <1>1, <1>2, <3>1 DEF HandleResolved
    <3> QED BY <2>2, <3>2 DEF bus
  <2> QED BY <2>1, <2>2
<1>6. \A j \in Approvals : j # i /\ Coming(j) => Coming(j)'
  <2>1. \A j : j # i => inbox[1] # Said("resolved", j)
    BY <1>2 DEF Said
  <2> QED BY <1>1, <1>3, <2>1, OthersComing
<1>7. CodexShows'
  <2>1. CASE activity' = Running
    BY <2>1 DEF CodexShows, Running
  <2>2. CASE activity' = activity /\ activity # Attention(i)
    BY <1>6, <2>2 DEF ShownInv, CodexShows, Attention, Running, Over
  <2> QED BY <1>5, <2>1, <2>2
<1>8. \A j \in Approvals : /\ Asked(j) \in seen' => Asked(j) \in seen
                           /\ \A x : Answer_(j, x) \in seen' =>
                                     Answer_(j, x) \in seen \/ (i = j /\ x = "resolved")
  <2>1. \A j, x : /\ Asked(j) # Answer_(i, "resolved")
                  /\ Answer_(j, x) = Answer_(i, "resolved") => i = j /\ x = "resolved"
    BY EventsDiffer
  <2> QED BY <1>5, <2>1
<1>9. CodexSaid'
  <2>1. \A j \in Approvals :
          /\ Answer_(i, "resolved") # Asked(j)
          /\ Answer_(i, "resolved") = Answer_(j, "resolved") => inbox[1] = Said("resolved", j)
    <3>1. \A j : /\ Answer_(i, "resolved") # Asked(j)
                 /\ Answer_(i, "resolved") = Answer_(j, "resolved") => i = j
      BY EventsDiffer
    <3> QED BY <1>2, <3>1
  <2>2. inbox[1].kind \in {"request", "resolved"}
    BY <1>2 DEF Said
  <2> QED BY <1>1, <1>3, <1>5, <2>1, <2>2, RemainsSaid DEF ShownInv
<1>10. \A j \in Approvals : \A n \in DOMAIN queue' : queue'[n] = ApprovalTask("approval", j) =>
         \E m \in DOMAIN queue : queue[m] = ApprovalTask("approval", j)
  <2>1. ApprovalTask("finish", i) \in Task
    BY DEF ApprovalTask, Task
  <2>2. \A n \in DOMAIN queue' : \/ n \in DOMAIN queue /\ queue'[n] = queue[n]
                                 \/ queue'[n] = ApprovalTask("finish", i)
    BY <1>3, <2>1, TaskMore
  <2>3. \A j : ApprovalTask("finish", i) # ApprovalTask("approval", j)
    BY DEF ApprovalTask
  <2> QED BY <2>2, <2>3
<1>11. CodexTold'
  <2> SUFFICES ASSUME NEW j \in Approvals
               PROVE  /\ \/ j \in buttons' \/ work' = Posting(j)
                         \/ \E n \in DOMAIN queue' : queue'[n] = ApprovalTask("approval", j)
                         => Asked(j) \in seen'
                      /\ Asked(j) \in seen' => ask'[j] # "none"
                      /\ Answer_(j, "resolved") \in seen' => ask'[j] = "closed"
    BY DEF CodexTold, Asked, Answer_, Posting, ApprovalTask
  <2>1. \/ j \in buttons' \/ work' = Posting(j)
        \/ \E n \in DOMAIN queue' : queue'[n] = ApprovalTask("approval", j)
        => Asked(j) \in seen'
    BY <1>3, <1>5, <1>10 DEF ShownInv, CodexTold
  <2>2. Asked(j) \in seen' => ask'[j] # "none"
    BY <1>3, <1>8 DEF ShownInv, CodexTold
  <2>3. Answer_(j, "resolved") \in seen' => ask'[j] = "closed"
    BY <1>3, <1>4, <1>8 DEF ShownInv, CodexTold
  <2> QED BY <2>1, <2>2, <2>3
<1>12. CodexTook'
  BY <1>3, <1>5 DEF ShownInv, CodexTook, Answer_
<1>13. Waiting' = Waiting
  BY <1>3 DEF Waiting
<1>14. OneOpen'
  BY <1>3, <1>13 DEF ShownInv, OneOpen
<1>15. OpenIsShown'
  <2> SUFFICES ASSUME ~Overruled', NEW j \in Waiting
               PROVE  inbox' # <<>> /\ inbox'[Len(inbox')] = Said("request", j)
    BY <1>13 DEF OpenIsShown, Said
  <2>1. ~Overruled
    BY <1>3, <1>5 DEF Overruled, Answer_
  <2>2. inbox[Len(inbox)] = Said("request", j)
    BY <1>1, <2>1 DEF ShownInv, OpenIsShown
  <2>3. inbox[1] # Said("request", j)
    BY <1>2 DEF Said
  <2> QED BY <1>1, <2>2, <2>3, LastStays
<1> QED BY <1>7, <1>9, <1>11, <1>12, <1>14, <1>15 DEF ShownInv

\* The turn's output is handled: nobody waits behind it, or a request is yet to come.
LEMMA OtherShown ==
  ASSUME IsCodex, CodexTypes, CodexTypes', ShownInv, Drift = FALSE,
         NEW k \in DOMAIN inbox, IsNext(k), Take(k), HandleOther(k),
         UNCHANGED <<setting, provider, wire, calls>>
  PROVE  ShownInv'
<1>1. /\ k = 1 /\ inbox # <<>> /\ inbox[1] \in Says /\ 1 \in DOMAIN inbox
      /\ inbox' = Tail(inbox)
      /\ \A n \in DOMAIN inbox' : n \in Nat /\ n + 1 \in DOMAIN inbox /\ inbox'[n] = inbox[n + 1]
  BY FirstTaken
<1>2. inbox[1].kind \in {"started", "progress", "final", "completed", "failed"}
  BY <1>1 DEF HandleOther
<1>3. UNCHANGED <<ask, took, turn, wire, calls, work, buttons, queue>>
  BY DEF HandleOther, provider, telegram
<1>4. PICK kind \in {"started", "progress", "final", "completed", "failed"} : Publish(Event(kind, NoId, ""))
  BY <1>1, <1>2 DEF HandleOther
<1>5. seen' = seen /\ activity' = Shown(Event(kind, NoId, ""), activity)
  BY <1>4, PublishFree
<1>6. \A i : inbox[1] # Said("request", i) /\ inbox[1] # Said("resolved", i)
  BY <1>2 DEF Said
<1>7. \A i \in Approvals : Coming(i) => Coming(i)'
  BY <1>1, <1>3, <1>6, OthersComing
<1>8. CodexShows'
  <2>1. CASE activity \in {Running, Over}
    <3>1. activity' \in {Running, Over}
      BY <1>5, <2>1, ShowsTalk
    <3> QED BY <3>1 DEF CodexShows, Running, Over
  <2>2. ASSUME NEW i \in Approvals, activity = Attention(i), Coming(i)
        PROVE  CodexShows'
    <3>1. activity' \in {Running, Over, Attention(i)}
      BY <1>5, <2>2, ShowsTalk
    <3>2. Coming(i)'
      BY <1>7, <2>2
    <3> QED BY <3>1, <3>2 DEF CodexShows, Running, Over, Attention
  <2> QED BY <2>1, <2>2 DEF ShownInv, CodexShows
<1>9. CodexSaid'
  <2>1. \A j, n \in DOMAIN inbox' :
          inbox'[j].kind \in {"request", "resolved"} /\ inbox'[j] = inbox'[n] => j = n
    <3> SUFFICES ASSUME NEW j \in DOMAIN inbox', NEW n \in DOMAIN inbox',
                        inbox'[j].kind \in {"request", "resolved"}, inbox'[j] = inbox'[n]
                 PROVE  j = n
      OBVIOUS
    <3>1. j \in Nat /\ n \in Nat /\ j + 1 = n + 1
      BY <1>1 DEF ShownInv, CodexSaid
    <3> QED BY <3>1
  <2>2. \A n \in DOMAIN inbox' : \A i \in Approvals :
         /\ inbox'[n] = Said("request", i) => ask[i] # "none" /\ Asked(i) \notin seen
         /\ inbox'[n] = Said("resolved", i) => ask[i] = "closed" /\ Answer_(i, "resolved") \notin seen
    BY <1>1 DEF ShownInv, CodexSaid
  <2> QED BY <1>3, <1>5, <2>1, <2>2 DEF CodexSaid, Asked, Answer_
<1>10. CodexTold' /\ CodexTook'
  BY <1>3, <1>5 DEF ShownInv, CodexTold, CodexTook, Asked, Answer_, Posting, ApprovalTask
<1>11. Waiting' = Waiting
  BY <1>3 DEF Waiting
<1>12. OneOpen'
  BY <1>3, <1>11 DEF ShownInv, OneOpen
<1>13. OpenIsShown'
  <2> SUFFICES ASSUME ~Overruled', NEW j \in Waiting
               PROVE  inbox' # <<>> /\ inbox'[Len(inbox')] = Said("request", j)
    BY <1>11 DEF OpenIsShown, Said
  <2>1. ~Overruled
    BY <1>3, <1>5 DEF Overruled, Answer_
  <2>2. inbox[Len(inbox)] = Said("request", j)
    BY <1>1, <2>1 DEF ShownInv, OpenIsShown
  <2> QED BY <1>1, <1>6, <2>2, LastStays
<1> QED BY <1>8, <1>9, <1>10, <1>12, <1>13 DEF ShownInv

-----------------------------------------------------------------------------
(* The tasks of Telegram and the decisions, and what the session shows.    *)

\* Nothing is said or published, and the topic gets no more.
Unsaid ==
  /\ UNCHANGED <<inbox, ask, took, turn, wire, calls, activity, seen>>
  /\ buttons' \subseteq buttons
  /\ \A i \in Approvals :
       work' = Posting(i) \/ (\E k \in DOMAIN queue' : queue'[k] = ApprovalTask("approval", i))
       => work = Posting(i) \/ \E k \in DOMAIN queue : queue[k] = ApprovalTask("approval", i)

\* A step that says and publishes nothing.
LEMMA UnsaidShown ==
  ASSUME ShownInv, Unsaid
  PROVE  ShownInv'
<1>1. UNCHANGED <<inbox, ask, took, turn, wire, calls, activity, seen>>
  BY DEF Unsaid
<1>2. Waiting' = Waiting
  BY <1>1 DEF Waiting
<1>3. CodexSaid' /\ CodexTook'
  BY <1>1 DEF ShownInv, CodexSaid, CodexTook, Asked, Answer_, Said
<1>4. CodexTold'
  <2> SUFFICES ASSUME NEW j \in Approvals
               PROVE  /\ \/ j \in buttons' \/ work' = Posting(j)
                         \/ \E n \in DOMAIN queue' : queue'[n] = ApprovalTask("approval", j)
                         => Asked(j) \in seen'
                      /\ Asked(j) \in seen' => ask'[j] # "none"
                      /\ Answer_(j, "resolved") \in seen' => ask'[j] = "closed"
    BY DEF CodexTold, Asked, Answer_, Posting, ApprovalTask
  <2>1. \/ j \in buttons' \/ work' = Posting(j)
        \/ \E n \in DOMAIN queue' : queue'[n] = ApprovalTask("approval", j)
        => Asked(j) \in seen'
    BY DEF ShownInv, CodexTold, Unsaid
  <2>2. (Asked(j) \in seen' => ask'[j] # "none") /\ (Answer_(j, "resolved") \in seen' => ask'[j] = "closed")
    BY <1>1 DEF ShownInv, CodexTold
  <2> QED BY <2>1, <2>2
<1>5. OneOpen' /\ CodexShows'
  BY <1>1, <1>2 DEF ShownInv, OneOpen, CodexShows, Coming, Running, Over, Attention
<1>6. OpenIsShown'
  BY <1>1, <1>2 DEF ShownInv, OpenIsShown, Overruled, Decided, Attention, Said, Answer_
<1> QED BY <1>3, <1>4, <1>5, <1>6 DEF ShownInv

\* The consumer takes a task.
LEMMA TaskShown ==
  ASSUME IsCodex, CodexTypes, ShownInv, TakeTask
  PROVE  ShownInv'
<1>1. /\ queue # <<>> /\ queue' = Tail(queue) /\ work = Idle
      /\ UNCHANGED <<setting, provider, link, bus, open, pending, typing, answers>>
  BY DEF TakeTask
<1>2. /\ Head(queue) = queue[1] /\ queue[1] \in Task /\ 1 \in DOMAIN queue /\ queue[1].what # "part"
      /\ \A n \in DOMAIN queue' : n \in Nat /\ n + 1 \in DOMAIN queue /\ queue'[n] = queue[n + 1]
  BY <1>1, FirstTask
<1>3. buttons' \subseteq buttons
  BY <1>2 DEF TakeTask, Task
<1>4. \A i \in Approvals : work' = Posting(i) => queue[1] = ApprovalTask("approval", i)
  <2>1. CASE queue[1].what = "approval"
    <3>1. work' = Working(queue[1], "posting")
      BY <1>2, <2>1 DEF TakeTask
    <3>2. PICK j \in Approvals : queue[1] = ApprovalTask("approval", j)
      BY <1>2, <2>1 DEF Task, ApprovalTask
    <3>3. work' = Posting(j)
      BY <3>1, <3>2 DEF Working, ApprovalTask, Posting
    <3>4. \A i : Posting(i) = Posting(j) => i = j
      BY DEF Posting
    <3> QED BY <3>2, <3>3, <3>4
  <2>2. CASE queue[1].what # "approval"
    <3>1. queue[1].what = "finish"
      BY <1>2, <2>2 DEF Task
    <3>2. work' = work
      BY <1>2, <3>1 DEF TakeTask
    <3> QED BY <1>1, <3>2 DEF Posting, Idle
  <2> QED BY <2>1, <2>2
<1>5. \A i \in Approvals : (\E n \in DOMAIN queue' : queue'[n] = ApprovalTask("approval", i)) =>
        \E n \in DOMAIN queue : queue[n] = ApprovalTask("approval", i)
  BY <1>2
<1>6. Unsaid
  BY <1>1, <1>2, <1>3, <1>4, <1>5 DEF Unsaid, provider, link, bus
<1> QED BY <1>6, UnsaidShown

\* The buttons are posted: the request was published before, so nothing is shown anew.
LEMMA PostedShown ==
  ASSUME IsCodex, CodexTypes, ShownInv, 0 \notin Approvals, ApprovalPosted
  PROVE  ShownInv'
<1>1. /\ buttons' = buttons \cup {work.of} /\ work' = Idle /\ work.what = "approval"
      /\ Publish(Request(work.of, "telegram"))
      /\ UNCHANGED <<inbox, ask, took, turn, wire, calls, queue>>
  BY DEF ApprovalPosted, provider, link
<1>2. PICK i \in Approvals : work = Posting(i)
  BY <1>1 DEF CodexTypes, Idle
<1>3. work.of = i /\ Request(i, "telegram") = Asked(i) /\ i # 0
  BY <1>2 DEF Posting, Request, Asked, IsCodex
<1>4. Asked(i) \in seen
  BY <1>2 DEF ShownInv, CodexTold
<1>5. seen' = seen \cup {Asked(i)}
      /\ activity' = IF Asked(i) \in seen THEN activity ELSE Shown(Asked(i), activity)
  BY <1>1, <1>3, PublishKeyed DEF Asked
<1>6. activity' = activity /\ seen' = seen
  BY <1>4, <1>5
<1>7. Waiting' = Waiting
  BY <1>1 DEF Waiting
<1>8. CodexSaid' /\ CodexTook'
  BY <1>1, <1>6 DEF ShownInv, CodexSaid, CodexTook, Asked, Answer_, Said
<1>9. CodexTold'
  <2> SUFFICES ASSUME NEW j \in Approvals
               PROVE  /\ \/ j \in buttons' \/ work' = Posting(j)
                         \/ \E n \in DOMAIN queue' : queue'[n] = ApprovalTask("approval", j)
                         => Asked(j) \in seen'
                      /\ Asked(j) \in seen' => ask'[j] # "none"
                      /\ Answer_(j, "resolved") \in seen' => ask'[j] = "closed"
    BY DEF CodexTold, Asked, Answer_, Posting, ApprovalTask
  <2>1. work' # Posting(j)
    BY <1>1 DEF Posting, Idle
  <2>2. \/ j \in buttons' \/ work' = Posting(j)
        \/ \E n \in DOMAIN queue' : queue'[n] = ApprovalTask("approval", j)
        => Asked(j) \in seen'
    BY <1>1, <1>3, <1>4, <1>6, <2>1 DEF ShownInv, CodexTold
  <2>3. (Asked(j) \in seen' => ask'[j] # "none") /\ (Answer_(j, "resolved") \in seen' => ask'[j] = "closed")
    BY <1>1, <1>6 DEF ShownInv, CodexTold
  <2> QED BY <2>2, <2>3
<1>10. OneOpen' /\ CodexShows'
  BY <1>1, <1>6, <1>7 DEF ShownInv, OneOpen, CodexShows, Coming, Running, Over, Attention
<1>11. OpenIsShown'
  BY <1>1, <1>6, <1>7 DEF ShownInv, OpenIsShown, Overruled, Decided, Attention, Said, Answer_
<1> QED BY <1>8, <1>9, <1>10, <1>11 DEF ShownInv

\* A decision is published: of the request that is shown, or it overrules.
LEMMA DecideShown ==
  ASSUME IsCodex, CodexTypes, ShownInv, 0 \notin Approvals, ~setting.late,
         NEW c \in Clients, NEW i \in Approvals, NEW choice \in Decisions, CodexDecide(c, i, choice)
  PROVE  ShownInv'
<1>1. /\ Offered(c, i) /\ wire' = wire \cup {<<c, i, choice>>} /\ calls' = calls
      /\ Publish(Answer_(i, choice)) /\ buttons' \subseteq buttons
      /\ UNCHANGED <<inbox, ask, took, turn, queue, work>>
  BY DEF CodexDecide, Sends, Replied, Answer_, provider
<1>2. /\ seen' = seen \cup {Answer_(i, choice)}
      /\ activity' = IF Answer_(i, choice) \in seen THEN activity ELSE Shown(Answer_(i, choice), activity)
  BY <1>1, PublishKeyed DEF Answer_
<1>3. activity' = activity \/ activity' \in {Running, Over}
  <2>1. CASE activity \in {Running, Over}
    BY <1>2, <2>1, ShowsAnswer
  <2>2. CASE \E j \in Approvals : activity = Attention(j)
    BY <1>2, <2>2, ShowsAnswer
  <2> QED BY <2>1, <2>2 DEF ShownInv, CodexShows
<1>4. ask[i] # "none"
  <2>1. CASE i \in buttons
    BY <2>1 DEF ShownInv, CodexTold
  <2>2. CASE activity.kind = "approval" /\ activity.req = i
    <3>1. Coming(i)
      <4>1. activity \notin {Running, Over}
        BY <2>2, NotTheSame
      <4>2. PICK j \in Approvals : activity = Attention(j) /\ Coming(j)
        BY <4>1 DEF ShownInv, CodexShows
      <4>3. j = i
        BY <2>2, <4>2, NotTheSame
      <4> QED BY <4>2, <4>3
    <3> QED BY <3>1 DEF Coming, Later, ShownInv, CodexSaid
  <2> QED BY <1>1, <2>1, <2>2 DEF Offered
<1>5. choice # "resolved"
  BY InteractionsAssumption
<1>6. \A j \in Approvals : /\ Asked(j) \in seen' <=> Asked(j) \in seen
                           /\ Answer_(j, "resolved") \in seen' <=> Answer_(j, "resolved") \in seen
                           /\ \A x : Answer_(j, x) \in seen => Answer_(j, x) \in seen'
  <2>1. \A j : /\ Asked(j) # Answer_(i, choice)
               /\ Answer_(j, "resolved") # Answer_(i, choice)
    BY <1>5, EventsDiffer
  <2> QED BY <1>2, <2>1
<1>7. Waiting' = Waiting
  BY <1>1 DEF Waiting
<1>8. CodexSaid'
  <2>1. \A n \in DOMAIN inbox' : \A j \in Approvals :
         /\ inbox'[n] = Said("request", j) => ask'[j] # "none" /\ Asked(j) \notin seen'
         /\ inbox'[n] = Said("resolved", j) => ask'[j] = "closed" /\ Answer_(j, "resolved") \notin seen'
    BY <1>1, <1>6 DEF ShownInv, CodexSaid
  <2>2. \A m, n \in DOMAIN inbox' :
          inbox'[m].kind \in {"request", "resolved"} /\ inbox'[m] = inbox'[n] => m = n
    BY <1>1 DEF ShownInv, CodexSaid
  <2> QED BY <2>1, <2>2 DEF CodexSaid, Asked, Answer_
<1>9. CodexTold'
  <2> SUFFICES ASSUME NEW j \in Approvals
               PROVE  /\ \/ j \in buttons' \/ work' = Posting(j)
                         \/ \E n \in DOMAIN queue' : queue'[n] = ApprovalTask("approval", j)
                         => Asked(j) \in seen'
                      /\ Asked(j) \in seen' => ask'[j] # "none"
                      /\ Answer_(j, "resolved") \in seen' => ask'[j] = "closed"
    BY DEF CodexTold, Asked, Answer_, Posting, ApprovalTask
  <2>1. \/ j \in buttons' \/ work' = Posting(j)
        \/ \E n \in DOMAIN queue' : queue'[n] = ApprovalTask("approval", j)
        => Asked(j) \in seen'
    BY <1>1, <1>6 DEF ShownInv, CodexTold
  <2>2. (Asked(j) \in seen' => ask'[j] # "none") /\ (Answer_(j, "resolved") \in seen' => ask'[j] = "closed")
    BY <1>1, <1>6 DEF ShownInv, CodexTold
  <2> QED BY <2>1, <2>2
<1>10. CodexTook'
  <2>1. calls' = {} /\ \A j \in Approvals : ask'[j] # "closed" => took'[j] = {}
    BY <1>1 DEF ShownInv, CodexTook
  <2>2. \A j \in Approvals : \A x \in Decisions :
          /\ took'[j] = {x} => Answer_(j, x) \in seen'
          /\ \A d \in Clients : <<d, j, x>> \in wire' => Answer_(j, x) \in seen'
    BY <1>1, <1>2 DEF ShownInv, CodexTook
  <2> QED BY <2>1, <2>2 DEF CodexTook, Answer_
<1>11. CodexShows'
  BY <1>1, <1>3 DEF ShownInv, CodexShows, Coming, Running, Over, Attention
<1>12. OneOpen'
  BY <1>1, <1>7 DEF ShownInv, OneOpen
<1>13. OpenIsShown'
  <2> SUFFICES ASSUME ~Overruled', NEW j \in Waiting
               PROVE  \/ inbox # <<>> /\ inbox[Len(inbox)] = Said("request", j)
                      \/ inbox = <<>> /\ (activity' = Attention(j) \/ Decided(j)')
    BY <1>1, <1>7 DEF OpenIsShown, Attention, Said
  <2>1. ~Overruled
    BY <1>1, <1>6 DEF Overruled, Answer_
  <2>2. \/ inbox # <<>> /\ inbox[Len(inbox)] = Said("request", j)
        \/ inbox = <<>> /\ (activity = Attention(j) \/ Decided(j))
    BY <2>1 DEF ShownInv, OpenIsShown
  <2>3. Decided(j) => Decided(j)'
    BY <1>1 DEF Decided
  <2>4. i = j => Decided(j)'
    BY <1>1 DEF Decided
  <2>5. i # j => activity' = activity
    <3> SUFFICES ASSUME i # j, Answer_(i, choice) \notin seen
                 PROVE  FALSE
      BY <1>2
    <3>1. ask[i] = "closed"
      <4>1. ask[j] = "open" /\ i \in Requests
        BY DEF Waiting, Requests
      <4>2. ask[i] # "open"
        BY <4>1 DEF ShownInv, OneOpen, Waiting
      <4> QED BY <1>4, <4>1, <4>2 DEF CodexTypes
    <3>2. took[i] = {choice}
      BY <1>1, <1>2, <3>1 DEF Overruled, Answer_
    <3> QED BY <3>2 DEF ShownInv, CodexTook
  <2> QED BY <2>2, <2>3, <2>4, <2>5
<1> QED BY <1>8, <1>9, <1>10, <1>11, <1>12, <1>13 DEF ShownInv

\* A failed send and an answer say and publish nothing.
LEMMA OthersUnsaid ==
  ASSUME IsCodex, CodexTypes, PostFails \/ (\E q \in Questions : Answer(q)) \/ UNCHANGED vars
  PROVE  Unsaid
<1>1. CASE PostFails \/ UNCHANGED vars
  BY <1>1 DEF PostFails, Unsaid, vars, provider, link, bus, telegram, Posting, Idle
<1>2. ASSUME NEW q \in Questions, Answer(q)
      PROVE  Unsaid
  <2>1. DesktopAnswers(q)
    BY <1>2 DEF Answer, TelegramPresses, TelegramTexts, TelegramTypes, TelegramExpired, CodexTypes
  <2>2. future[q] = "none"
    BY DEF CodexTypes, Requests
  <2>3. UNCHANGED <<future, given, bus>>
    BY <2>1, <2>2 DEF DesktopAnswers, Submit
  <2> QED BY <2>1, <2>3 DEF DesktopAnswers, Unsaid, link, bus
<1> QED BY <1>1, <1>2

\* Every step of a codex session whose replies are not held up.
LEMMA CodexShown ==
  ASSUME IsCodex, CodexTypes, LeftInv, CodexTypes', ShownInv,
         Drift = FALSE, AtOnce <= 1, 0 \notin Approvals, ~setting.late, [Next]_vars
  PROVE  ShownInv'
<1>1. CASE UNCHANGED vars
  BY <1>1, OthersUnsaid, UnsaidShown
<1>2. CASE Provider
  <2>1. \A i \in Requests : ~HookReturns(i)
    BY DEF HookReturns, CodexTypes
  <2>2. \A q \in Questions : ~ClaudePart(q) /\ ~ClaudeQuestion(q)
    BY DEF ClaudePart, ClaudeQuestion, CodexTypes, Requests
  <2>3. \A i \in Approvals : ~ClaudeAsks(i)
    BY DEF ClaudeAsks
  <2> QED BY <1>2, <2>1, <2>2, <2>3, AsksShown, TalksShown, InterruptedShown DEF Provider
<1>3. CASE Handle
  BY <1>3, RequestShown, ResolvedShown, OtherShown DEF Handle
<1>4. CASE Consumer \/ PostFails
  <2>1. ~PartPosted /\ ~KeysAttached
    BY DEF PartPosted, KeysAttached, CodexTypes, Posting, Idle
  <2> QED BY <1>4, <2>1, TaskShown, PostedShown, OthersUnsaid, UnsaidShown DEF Consumer
<1>5. ASSUME NEW c \in Clients, NEW i \in Approvals, NEW choice \in Decisions, Decide(c, i, choice)
      PROVE  ShownInv'
  <2>1. ~ClaudeDecide(c, i, choice) /\ ~SendReturns(c, i, choice)
    BY DEF ClaudeDecide, SendReturns, ShownInv, CodexTook
  <2> QED BY <1>5, <2>1, DecideShown, TakesShown DEF Decide
<1>6. ASSUME NEW q \in Questions, Answer(q)
      PROVE  ShownInv'
  BY <1>6, OthersUnsaid, UnsaidShown
<1> QED BY <1>1, <1>2, <1>3, <1>4, <1>5, <1>6 DEF Next

-----------------------------------------------------------------------------
(* What claude's session shows, where no topic publishes a request again.  *)

Question(q, ps) == [status |-> "attention", kind |-> "question", req |-> q, parts |-> ps]
Hooked(i)       == Event("requested", i, "hook")
PartOf(q, p)    == [Event("asked", q, "") EXCEPT !.part = p]
Reply(q)        == Event("replied", q, "")

ClaudeTypes ==
  /\ inbox \in Seq(Says)
  /\ \A k \in DOMAIN inbox : inbox[k].kind \notin {"request", "resolved"}
  /\ ask \in [Requests -> {"none", "open", "closed"}]
  /\ future \in [Requests -> {"none", "open", "done"}]
  /\ told \in [Questions -> {0} \cup Parts]
  /\ wire = {} /\ calls = {} /\ queue = <<>> /\ work = Idle
  /\ buttons = {} /\ pending = {} /\ typing = {}

\* The future of a request that was made; a question that is no longer waited
\* for, or is resolved, is told to the end.
ClaudeHooks ==
  /\ \A i \in Requests : ask[i] = "none" => future[i] = "none"
  /\ \A q \in Questions :
       /\ ask[q] = "none" => told[q] = 0
       /\ future[q] # "none" => told[q] = Cardinality(Parts) \/ (ask[q] = "open" /\ future[q] = "open")

\* What was published of a request, and of a part, was told; what was answered
\* is resolved.
ClaudeTold ==
  /\ \A i \in Approvals :
       /\ Hooked(i) \in seen => ask[i] # "none"
       /\ \A choice \in Decisions : Answer_(i, choice) \in seen => future[i] # "open" /\ ask[i] # "none"
  /\ \A q \in Questions :
       /\ \A p \in Parts : PartOf(q, p) \in seen => p <= told[q]
       /\ Reply(q) \in seen => future[q] # "open" /\ ask[q] # "none"

\* What the session shows is waited for, or the turn's failure will be handled.
Held(i) == (i \in Waiting /\ future[i] = "open") \/ \E k \in DOMAIN inbox : inbox[k].kind = "failed"

ClaudeShows ==
  \/ activity \in {Running, Over}
  \/ \E i \in Approvals : activity = Attention(i) /\ Held(i)
  \/ \E q \in Questions : \E ps \in SUBSET (1 .. told[q]) : activity = Question(q, ps) /\ Held(q)

\* What is waited for is shown, from its first part on.
ClaudeWaits ==
  /\ \A i, j \in Waiting : i = j
  /\ ~turn => Waiting = {}
  /\ \A i \in Waiting : inbox = <<>> /\ future[i] # "none"
  /\ \A i \in Approvals : ask[i] = "open" /\ future[i] = "open" => activity = Attention(i)
  /\ \A q \in Questions : ask[q] = "open" /\ future[q] = "open" /\ told[q] # 0 =>
       \E ps \in SUBSET (1 .. told[q]) : activity = Question(q, ps)

ClaudeInv == ClaudeTypes /\ ClaudeHooks /\ ClaudeTold /\ ClaudeShows /\ ClaudeWaits

\* The publication of a part.
LEMMA PublishPart ==
  ASSUME NEW q, q # 0, NEW p, Publish(PartOf(q, p))
  PROVE  /\ seen' = seen \cup {PartOf(q, p)}
         /\ activity' = IF PartOf(q, p) \in seen THEN activity
                        ELSE Question(q, {p} \cup (IF activity.req = q THEN activity.parts ELSE {}))
<1> DEFINE e == PartOf(q, p)
<1>1. e.kind = "asked" /\ e.of = q /\ e.part = p /\ Clean(q) = q
  BY DEF PartOf, Event, Clean
<1>2. [e EXCEPT !.of = Clean(@)] = e
  BY <1>1 DEF PartOf, Event
<1>3. Keyed(e)
  BY <1>1 DEF Keyed
<1> HIDE DEF e
<1>4. seen' = seen \cup {e}
  BY <1>2, <1>3 DEF Publish, e
<1>5. Fresh(e) <=> e \notin seen
  BY <1>2, <1>3 DEF Fresh
<1>6. \A a : Shown(e, a) = Question(q, {p} \cup (IF a.req = q THEN a.parts ELSE {}))
  BY <1>1 DEF Shown, Question
<1>7. activity' = IF Fresh(e) THEN Shown(e, activity) ELSE activity
  BY DEF Publish, e
<1> QED BY <1>4, <1>5, <1>6, <1>7 DEF e

\* Events of claude's are told apart.
LEMMA HooksDiffer ==
  ASSUME NEW i, NEW j, NEW x, NEW y
  PROVE  /\ Hooked(i) = Hooked(j) => i = j
         /\ PartOf(i, x) = PartOf(j, y) => i = j /\ x = y
         /\ Reply(i) = Reply(j) => i = j
         /\ Hooked(i) # PartOf(j, x) /\ Hooked(i) # Reply(j) /\ Hooked(i) # Answer_(j, x)
         /\ PartOf(i, x) # Reply(j) /\ PartOf(i, x) # Answer_(j, y)
         /\ Reply(i) # Answer_(j, x)
<1>1. \A k, z : /\ Hooked(k).kind = "requested" /\ Hooked(k).of = k
                /\ PartOf(k, z).kind = "asked" /\ PartOf(k, z).of = k /\ PartOf(k, z).part = z
                /\ Reply(k).kind = "replied" /\ Reply(k).of = k
                /\ Answer_(k, z).kind = "answered"
  BY DEF Hooked, PartOf, Reply, Answer_, Event
<1> QED BY <1>1

\* What the session shows after an event, while it shows a question.
LEMMA ShowsQuestion ==
  ASSUME NEW q, NEW ps, q # NoId
  PROVE  /\ \A kind \in {"started", "progress", "final", "completed", "failed"} :
              Shown(Event(kind, NoId, ""), Question(q, ps)) \in {Running, Over, Question(q, ps)}
         /\ Question(q, ps) \notin {Running, Over} /\ \A i : Attention(i) # Question(q, ps)
         /\ Question(q, ps).req = q /\ Question(q, ps).parts = ps /\ Question(q, ps).status = "attention"
         /\ Question(q, ps).kind = "question"
<1> DEFINE a == Question(q, ps)
<1>1. a.status = "attention" /\ a.kind = "question" /\ a.req = q /\ a.parts = ps
  BY DEF Question
<1>2. \A i : Attention(i).kind = "approval"
  BY DEF Attention
<1>3. Running.kind # "question" /\ Over.kind # "question"
  BY DEF Running, Over
<1> HIDE DEF a
<1>4. a \notin {Running, Over} /\ \A i : Attention(i) # a
  BY <1>1, <1>2, <1>3
<1>5. ASSUME NEW kind \in {"started", "progress", "final", "completed", "failed"}
      PROVE  Shown(Event(kind, NoId, ""), a) \in {Running, Over, a}
  <2> DEFINE e == Event(kind, NoId, "")
  <2>1. e.kind = kind
    BY DEF Event
  <2> HIDE DEF e
  <2>2. CASE kind = "started"
    BY <2>1, <2>2 DEF Shown, e
  <2>3. CASE kind = "progress"
    <3>1. Shown(e, a) = Progress(a)
      BY <2>1, <2>3 DEF Shown
    <3> QED BY <3>1 DEF Progress, e
  <2>4. CASE kind = "completed"
    <3>1. Shown(e, a) = IF a.status = "attention" THEN a ELSE [a EXCEPT !.status = "over"]
      BY <2>1, <2>4 DEF Shown
    <3> QED BY <1>1, <3>1 DEF e
  <2>5. CASE kind \in {"final", "failed"}
    <3>1. Shown(e, a) = [Running EXCEPT !.status = "over"]
      BY <2>1, <2>5 DEF Shown
    <3> QED BY <3>1 DEF Over, e
  <2> QED BY <2>2, <2>3, <2>4, <2>5
<1> QED BY <1>1, <1>4, <1>5 DEF a

\* The answer of a question that is shown.
LEMMA ShowsReply ==
  ASSUME NEW q, NEW a, a.req = q, a.status = "attention"
  PROVE  Shown(Reply(q), a) = Running
<1>1. Reply(q).kind = "replied" /\ Reply(q).of = q
  BY DEF Reply, Event
<1>2. Shown(Reply(q), a) = IF a.req \in {NoId, q} THEN Answered(a) ELSE a
  BY <1>1 DEF Shown
<1> QED BY <1>2 DEF Answered

-----------------------------------------------------------------------------
(* claude's hooks and output, step by step.                                *)

ClaudeAlone == ~IsCodex /\ ~setting.topic /\ ~setting.late

\* Nobody is asked: the parts that count do not change, or only turn and inbox.
LEMMA SaidOn ==
  ASSUME ClaudeInv, ClaudeTypes', Waiting = {},
         \A k \in DOMAIN inbox : inbox[k].kind = "failed" => \E n \in DOMAIN inbox' : inbox'[n].kind = "failed",
         UNCHANGED <<ask, future, told, activity, seen>>
  PROVE  ClaudeInv'
<1>1. Waiting' = {}
  BY DEF Waiting
<1>2. \A i : Held(i) => Held(i)'
  BY DEF Held
<1>3. ClaudeHooks'
  BY DEF ClaudeInv, ClaudeHooks
<1>4. ClaudeTold'
  BY DEF ClaudeInv, ClaudeTold, Hooked, PartOf, Reply, Answer_
<1>5. ClaudeShows'
  <2>1. ASSUME NEW i \in Approvals, activity = Attention(i), Held(i)
        PROVE  ClaudeShows'
    BY <1>2, <2>1 DEF ClaudeShows, Attention
  <2>2. ASSUME NEW q \in Questions, NEW ps \in SUBSET (1 .. told[q]), activity = Question(q, ps), Held(q)
        PROVE  ClaudeShows'
    BY <1>2, <2>2 DEF ClaudeShows, Question
  <2>3. ASSUME activity \in {Running, Over}
        PROVE  ClaudeShows'
    BY <2>3 DEF ClaudeShows, Running, Over
  <2> QED BY <2>1, <2>2, <2>3 DEF ClaudeInv, ClaudeShows
<1>6. ClaudeWaits'
  <2>1. \A i \in Requests : ask'[i] # "open"
    BY <1>1 DEF Waiting
  <2> QED BY <1>1, <2>1 DEF ClaudeWaits, Requests
<1> QED BY <1>3, <1>4, <1>5, <1>6 DEF ClaudeInv

\* The turn goes on, ends, or another starts: nobody waits.
LEMMA TalksClaude ==
  ASSUME ClaudeAlone, ClaudeInv, GoesOn \/ Ends \/ NextTurn
  PROVE  ClaudeInv'
<1>1. PICK kind \in {"progress", "final", "started"} : Receive(kind, NoId)
  BY DEF GoesOn, Ends, NextTurn
<1>2. /\ UNCHANGED <<ask, future, told, wire, calls, bus, telegram>>
      /\ Waiting = {}
  BY DEF GoesOn, Ends, NextTurn, provider, ClaudeInv, ClaudeWaits
<1>3. Said(kind, NoId) \in Says /\ Said(kind, NoId).kind = kind
  BY DEF Said, Says
<1>4. inbox' = Append(inbox, Said(kind, NoId))
  BY <1>1 DEF Receive, Said
<1>5. /\ inbox' \in Seq(Says) /\ Len(inbox) \in Nat
      /\ DOMAIN inbox = 1 .. Len(inbox) /\ DOMAIN inbox' = 1 .. Len(inbox) + 1
      /\ \A k \in 1 .. Len(inbox) : inbox'[k] = inbox[k]
      /\ inbox'[Len(inbox) + 1] = Said(kind, NoId)
  BY <1>3, <1>4, Put DEF ClaudeInv, ClaudeTypes
<1>6. \A k \in DOMAIN inbox' : inbox'[k].kind \notin {"request", "resolved"}
  BY <1>3, <1>5 DEF ClaudeInv, ClaudeTypes
<1>7. ClaudeTypes'
  BY <1>2, <1>5, <1>6 DEF ClaudeInv, ClaudeTypes, telegram, Idle
<1>8. \A k \in DOMAIN inbox : inbox[k].kind = "failed" => \E n \in DOMAIN inbox' : inbox'[n].kind = "failed"
  BY <1>5
<1> QED BY <1>2, <1>7, <1>8, SaidOn DEF bus

\* The hook processes are gone, and the turn's failure will be handled.
LEMMA InterruptedClaude ==
  ASSUME ClaudeAlone, ClaudeInv, Interrupted, Drift = FALSE
  PROVE  ClaudeInv'
<1>1. PICK w \in Waiting : TRUE
  BY DEF Interrupted
<1>2. inbox = <<>>
  BY <1>1 DEF ClaudeInv, ClaudeWaits
<1>3. /\ inbox' = inbox \o <<Said("failed", NoId)>>
      /\ ask' = [i \in Requests |-> IF i \in Waiting THEN "closed" ELSE ask[i]]
      /\ UNCHANGED <<future, told, wire, calls, activity, seen, queue, work, buttons, pending, typing>>
      /\ AllTold
  BY DEF Interrupted, ClaudeAlone, Said, bus, telegram
<1>4. inbox' = <<Said("failed", NoId)>>
  BY <1>2, <1>3
<1>5. Said("failed", NoId) \in Says /\ Said("failed", NoId).kind = "failed"
  BY DEF Said, Says
<1>6. inbox' \in Seq(Says) /\ DOMAIN inbox' = {1} /\ inbox'[1].kind = "failed"
  BY <1>4, <1>5
<1>7. \A i \in Requests : /\ ask'[i] # "open" /\ (ask'[i] = "none" => ask[i] = "none")
                          /\ (ask[i] = "none" => ask'[i] = "none")
  BY <1>3 DEF Waiting
<1>8. Waiting' = {}
  BY <1>7 DEF Waiting
<1>9. ClaudeTypes'
  BY <1>3, <1>6 DEF ClaudeInv, ClaudeTypes, Idle
<1>10. ClaudeHooks'
  <2>1. \A q \in Questions : future[q] # "none" => told[q] = Cardinality(Parts)
    BY <1>3 DEF AllTold, ClaudeInv, ClaudeHooks
  <2> QED BY <1>3, <1>7, <2>1 DEF ClaudeInv, ClaudeHooks, Requests
<1>11. ClaudeTold'
  BY <1>3, <1>7 DEF ClaudeInv, ClaudeTold, Requests, Hooked, PartOf, Reply, Answer_
<1>12. \A i : Held(i)'
  BY <1>6 DEF Held
<1>13. ClaudeShows'
  <2>1. ASSUME NEW i \in Approvals, activity = Attention(i)
        PROVE  ClaudeShows'
    BY <1>3, <1>12, <2>1 DEF ClaudeShows, Attention
  <2>2. ASSUME NEW q \in Questions, NEW ps \in SUBSET (1 .. told[q]), activity = Question(q, ps)
        PROVE  ClaudeShows'
    BY <1>3, <1>12, <2>2 DEF ClaudeShows, Question
  <2>3. ASSUME activity \in {Running, Over}
        PROVE  ClaudeShows'
    BY <1>3, <2>3 DEF ClaudeShows, Running, Over
  <2> QED BY <2>1, <2>2, <2>3 DEF ClaudeInv, ClaudeShows
<1>14. ClaudeWaits'
  BY <1>7, <1>8 DEF ClaudeWaits, Requests
<1> QED BY <1>9, <1>10, <1>11, <1>13, <1>14 DEF ClaudeInv

\* Nobody waits when a hook comes.
LEMMA NoneAsks ==
  ASSUME ClaudeInv, ClaudeAlone, Drift = FALSE, AtOnce <= 1, NEW i, MayAsk(i)
  PROVE  Waiting = {} /\ inbox = <<>> /\ ask[i] = "none" /\ turn
<1>1. IsFiniteSet(Waiting)
  <2>1. CASE Waiting = {}
    BY <2>1, FS_EmptySet
  <2>2. CASE Waiting # {}
    <3>1. PICK w \in Waiting : TRUE
      BY <2>2
    <3>2. Waiting = {w}
      BY <3>1 DEF ClaudeInv, ClaudeWaits
    <3> QED BY <3>2, FS_Singleton
  <2> QED BY <2>1, <2>2
<1>2. Cardinality(Waiting) \in Nat /\ Cardinality(Waiting) < AtOnce /\ AtOnce \in Nat
  BY <1>1, FS_CardinalityType, InteractionsAssumption DEF MayAsk
<1>3. Cardinality(Waiting) = 0
  BY <1>2
<1> QED BY <1>1, <1>3, FS_EmptySet DEF MayAsk, ClaudeAlone

\* A hook asks: its request is shown at once, or allowed unseen.
LEMMA AsksClaude ==
  ASSUME ClaudeAlone, ClaudeInv, Drift = FALSE, AtOnce <= 1, 0 \notin Requests,
         NEW i \in Approvals, ClaudeAsks(i)
  PROVE  ClaudeInv'
<1>1. /\ Waiting = {} /\ inbox = <<>> /\ ask[i] = "none" /\ i \in Requests /\ i # 0 /\ turn
      /\ UNCHANGED <<inbox, wire, calls, turn, told, work, buttons, pending, typing>>
  BY NoneAsks DEF ClaudeAsks, Requests, link
<1>2. \A j \in Requests : ask[j] # "open"
  BY <1>1 DEF Waiting
<1>3. future[i] = "none"
  BY <1>1 DEF ClaudeInv, ClaudeHooks
<1>4. i \notin Questions
  BY InteractionsAssumption
<1>5. CASE always
  <2>1. ask' = [ask EXCEPT ![i] = "closed"] /\ UNCHANGED <<future, activity, seen, queue>>
    BY <1>5 DEF ClaudeAsks, bus
  <2>2. \A j \in Requests : ask'[j] = IF j = i THEN "closed" ELSE ask[j]
    BY <2>1 DEF ClaudeInv, ClaudeTypes
  <2>3. Waiting' = {}
    BY <1>2, <2>2 DEF Waiting
  <2>4. ClaudeTypes'
    BY <1>1, <2>1 DEF ClaudeInv, ClaudeTypes, Idle
  <2>5. ClaudeHooks'
    BY <1>1, <1>4, <2>1, <2>2 DEF ClaudeInv, ClaudeHooks, Requests
  <2>6. ClaudeTold'
    BY <1>1, <2>1, <2>2 DEF ClaudeInv, ClaudeTold, Requests, Hooked, PartOf, Reply, Answer_
  <2>7. \A j : ~(j \in Waiting)
    BY <1>1
  <2>8. \A j : Held(j) => Held(j)'
    BY <1>1, <2>7 DEF Held
  <2>9. ClaudeShows'
    <3>1. ASSUME NEW j \in Approvals, activity = Attention(j), Held(j)
          PROVE  ClaudeShows'
      BY <2>1, <2>8, <3>1 DEF ClaudeShows, Attention
    <3>2. ASSUME NEW q \in Questions, NEW ps \in SUBSET (1 .. told[q]), activity = Question(q, ps), Held(q)
          PROVE  ClaudeShows'
      BY <1>1, <2>1, <2>8, <3>2 DEF ClaudeShows, Question
    <3>3. ASSUME activity \in {Running, Over}
          PROVE  ClaudeShows'
      BY <2>1, <3>3 DEF ClaudeShows, Running, Over
    <3> QED BY <3>1, <3>2, <3>3 DEF ClaudeInv, ClaudeShows
  <2>10. ClaudeWaits'
    <3>1. \A j \in Requests : ask'[j] # "open"
      BY <1>2, <2>2
    <3> QED BY <2>3, <3>1 DEF ClaudeWaits, Requests
  <2> QED BY <2>4, <2>5, <2>6, <2>9, <2>10 DEF ClaudeInv
<1>6. CASE ~always
  <2>1. /\ ask' = [ask EXCEPT ![i] = "open"] /\ future' = [future EXCEPT ![i] = "open"]
        /\ Publish(Hooked(i)) /\ queue' = queue
    BY <1>6 DEF ClaudeAsks, Enqueue, Routed, ClaudeAlone, Request, IsCodex, Hooked
  <2>2. \A j \in Requests : /\ ask'[j] = IF j = i THEN "open" ELSE ask[j]
                            /\ future'[j] = IF j = i THEN "open" ELSE future[j]
    BY <2>1 DEF ClaudeInv, ClaudeTypes
  <2>3. Waiting' = {i}
    BY <1>1, <1>2, <2>2 DEF Waiting
  <2>4. Hooked(i) \notin seen
    BY <1>1 DEF ClaudeInv, ClaudeTold
  <2>5. seen' = seen \cup {Hooked(i)} /\ activity' = Attention(i)
    <3>1. seen' = seen \cup {Hooked(i)} /\ activity' = Shown(Hooked(i), activity)
      BY <1>1, <2>1, <2>4, PublishKeyed DEF Hooked
    <3>2. Hooked(i).kind = "requested" /\ Hooked(i).of = i /\ Clean(i) = i
      BY <1>1 DEF Hooked, Event, Clean
    <3>3. Shown(Hooked(i), activity) = Attention(i)
      BY <3>2 DEF Shown, Attention
    <3> QED BY <3>1, <3>3
  <2>6. ClaudeTypes'
    BY <1>1, <2>1 DEF ClaudeInv, ClaudeTypes, Idle
  <2>7. ClaudeHooks'
    BY <1>1, <1>4, <2>1, <2>2 DEF ClaudeInv, ClaudeHooks, Requests
  <2>8. \A j, x : /\ Hooked(j) \in seen' => Hooked(j) \in seen \/ j = i
                  /\ PartOf(j, x) \in seen' => PartOf(j, x) \in seen
                  /\ Reply(j) \in seen' => Reply(j) \in seen
                  /\ Answer_(j, x) \in seen' => Answer_(j, x) \in seen
    BY <2>5, HooksDiffer
  <2>9. ClaudeTold'
    <3>1. \A j \in Approvals :
            /\ Hooked(j) \in seen' => ask'[j] # "none"
            /\ \A choice \in Decisions : Answer_(j, choice) \in seen' => future'[j] # "open" /\ ask'[j] # "none"
      BY <1>1, <2>2, <2>8 DEF ClaudeInv, ClaudeTold, Requests
    <3>2. \A q \in Questions :
            /\ \A p \in Parts : PartOf(q, p) \in seen' => p <= told'[q]
            /\ Reply(q) \in seen' => future'[q] # "open" /\ ask'[q] # "none"
      BY <1>1, <1>4, <2>2, <2>8 DEF ClaudeInv, ClaudeTold, Requests
    <3> QED BY <3>1, <3>2 DEF ClaudeTold, Hooked, PartOf, Reply, Answer_
  <2>10. ClaudeShows'
    <3>1. future'[i] = "open"
      BY <1>1, <2>2
    <3>2. Held(i)'
      BY <2>3, <3>1 DEF Held
    <3> QED BY <2>5, <3>2 DEF ClaudeShows, Attention
  <2>11. ClaudeWaits'
    <3>1. \A j \in Approvals : ask'[j] = "open" => activity' = Attention(j)
      BY <1>2, <2>2, <2>5 DEF Requests
    <3>2. \A q \in Questions : ask'[q] # "open"
      BY <1>2, <1>4, <2>2 DEF Requests
    <3>3. \A j \in Waiting' : inbox' = <<>> /\ future'[j] # "none"
      BY <1>1, <2>2, <2>3
    <3> QED BY <1>1, <2>3, <3>1, <3>2, <3>3 DEF ClaudeWaits, Attention
  <2> QED BY <2>6, <2>7, <2>9, <2>10, <2>11 DEF ClaudeInv
<1> QED BY <1>5, <1>6

\* A hook asks a question: nothing of it is told yet.
LEMMA QuestionClaude ==
  ASSUME ClaudeAlone, ClaudeInv, Drift = FALSE, AtOnce <= 1, NEW q \in Questions, ClaudeQuestion(q)
  PROVE  ClaudeInv'
<1>1. /\ Waiting = {} /\ inbox = <<>> /\ ask[q] = "none" /\ q \in Requests /\ turn
      /\ ask' = [ask EXCEPT ![q] = "open"] /\ future' = [future EXCEPT ![q] = "open"]
      /\ UNCHANGED <<inbox, wire, calls, turn, told, work, buttons, pending, typing, queue, activity, seen>>
  BY NoneAsks DEF ClaudeQuestion, Requests, link, bus, telegram
<1>2. \A j \in Requests : ask[j] # "open"
  BY <1>1 DEF Waiting
<1>3. \A j \in Requests : /\ ask'[j] = IF j = q THEN "open" ELSE ask[j]
                          /\ future'[j] = IF j = q THEN "open" ELSE future[j]
  BY <1>1 DEF ClaudeInv, ClaudeTypes
<1>4. q \notin Approvals /\ told[q] = 0
  BY <1>1, InteractionsAssumption DEF ClaudeInv, ClaudeHooks
<1>5. Waiting' = {q}
  BY <1>1, <1>2, <1>3 DEF Waiting
<1>6. ClaudeTypes'
  BY <1>1 DEF ClaudeInv, ClaudeTypes, Idle
<1>7. ClaudeHooks'
  BY <1>1, <1>3 DEF ClaudeInv, ClaudeHooks, Requests
<1>8. Reply(q) \notin seen
  BY <1>1 DEF ClaudeInv, ClaudeTold
<1>9. ClaudeTold'
  BY <1>1, <1>3, <1>4, <1>8 DEF ClaudeInv, ClaudeTold, Requests, Hooked, PartOf, Reply, Answer_
<1>10. \A j : Held(j) => Held(j)'
  BY <1>1 DEF Held
<1>11. ClaudeShows'
  <2>1. ASSUME NEW j \in Approvals, activity = Attention(j), Held(j)
        PROVE  ClaudeShows'
    BY <1>1, <1>10, <2>1 DEF ClaudeShows, Attention
  <2>2. ASSUME NEW r \in Questions, NEW ps \in SUBSET (1 .. told[r]), activity = Question(r, ps), Held(r)
        PROVE  ClaudeShows'
    BY <1>1, <1>10, <2>2 DEF ClaudeShows, Question
  <2>3. ASSUME activity \in {Running, Over}
        PROVE  ClaudeShows'
    BY <1>1, <2>3 DEF ClaudeShows, Running, Over
  <2> QED BY <2>1, <2>2, <2>3 DEF ClaudeInv, ClaudeShows
<1>12. ClaudeWaits'
  <2>1. \A j \in Approvals : ask'[j] # "open"
    BY <1>2, <1>3, <1>4 DEF Requests
  <2>2. \A r \in Questions : ask'[r] = "open" => told'[r] = 0
    BY <1>1, <1>2, <1>3, <1>4 DEF Requests
  <2>3. \A j \in Waiting' : inbox' = <<>> /\ future'[j] # "none"
    BY <1>1, <1>3, <1>5
  <2> QED BY <1>1, <1>5, <2>1, <2>2, <2>3 DEF ClaudeWaits
<1> QED BY <1>6, <1>7, <1>9, <1>11, <1>12 DEF ClaudeInv

\* A part of the question that is waited for.
LEMMA PartClaude ==
  ASSUME ClaudeAlone, ClaudeInv, 0 \notin Requests, Cardinality(Parts) \in Nat \ {0},
         NEW q \in Questions, ClaudePart(q)
  PROVE  ClaudeInv'
<1> DEFINE p == told[q] + 1
<1>1. /\ future[q] # "none" /\ p \in Parts /\ told' = [told EXCEPT ![q] = p]
      /\ Publish(PartOf(q, p)) /\ queue' = queue
      /\ UNCHANGED <<ask, future, turn, inbox, wire, calls, work, buttons, pending, typing>>
  BY DEF ClaudePart, Enqueue, Routed, ClaudeAlone, PartOf, link
<1>2. told[q] \in Nat /\ p # 0 /\ p > told[q] /\ p \in Nat
  <2>1. Parts \subseteq Nat
    BY InteractionsAssumption
  <2>2. told[q] \in {0} \cup Parts
    BY DEF ClaudeInv, ClaudeTypes
  <2>3. told[q] = 0 \/ told[q] \in Parts
    BY <2>2
  <2>4. told[q] \in Parts => told[q] \in Nat
    BY <2>1
  <2>5. told[q] \in Nat
    BY <2>3, <2>4
  <2> QED BY <2>5
<1>3. p <= Cardinality(Parts)
  BY <1>1, InteractionsAssumption
<1>4. q \in Requests /\ q # 0 /\ q \notin Approvals /\ q # NoId
  BY InteractionsAssumption DEF Requests
<1>5. ask[q] = "open" /\ future[q] = "open" /\ q \in Waiting
  <2>1. told[q] # Cardinality(Parts)
    BY <1>2, <1>3
  <2> QED BY <1>1, <1>4, <2>1 DEF ClaudeInv, ClaudeHooks, Waiting
<1> HIDE DEF p
<1>6. \A r \in Questions : told'[r] = IF r = q THEN p ELSE told[r]
  BY <1>1 DEF ClaudeInv, ClaudeTypes
<1>7. PartOf(q, p) \notin seen
  BY <1>1, <1>2 DEF ClaudeInv, ClaudeTold
<1>8. /\ seen' = seen \cup {PartOf(q, p)}
      /\ activity' = Question(q, {p} \cup (IF activity.req = q THEN activity.parts ELSE {}))
  BY <1>1, <1>4, <1>7, PublishPart
<1>9. activity.req = q => activity.parts \subseteq 1 .. told[q]
  <2> SUFFICES ASSUME activity.req = q
               PROVE  activity.parts \subseteq 1 .. told[q]
    OBVIOUS
  <2>1. activity \notin {Running, Over}
    BY <1>4, NotTheSame
  <2>2. ASSUME NEW j \in Approvals, activity = Attention(j)
        PROVE  FALSE
    <3>1. Attention(j).req = j
      BY DEF Attention
    <3> QED BY <1>4, <2>2, <3>1
  <2>3. PICK r \in Questions : \E ps \in SUBSET (1 .. told[r]) : activity = Question(r, ps)
    BY <2>1, <2>2 DEF ClaudeInv, ClaudeShows
  <2>4. activity.req = r /\ activity.parts \in SUBSET (1 .. told[r])
    BY <2>3 DEF Question
  <2> QED BY <2>4
<1>10. PICK ps : activity' = Question(q, ps) /\ ps \subseteq 1 .. p
  BY <1>2, <1>8, <1>9
<1>11. Waiting' = Waiting
  BY <1>1 DEF Waiting
<1>12. ClaudeTypes'
  BY <1>1 DEF ClaudeInv, ClaudeTypes, Idle
<1>13. ClaudeHooks'
  BY <1>1, <1>5, <1>6 DEF ClaudeInv, ClaudeHooks
<1>14. \A j, x : /\ Hooked(j) \in seen' => Hooked(j) \in seen
                 /\ PartOf(j, x) \in seen' => PartOf(j, x) \in seen \/ (j = q /\ x = p)
                 /\ Reply(j) \in seen' => Reply(j) \in seen
                 /\ Answer_(j, x) \in seen' => Answer_(j, x) \in seen
  BY <1>8, HooksDiffer
<1>15. ClaudeTold'
  <2>1. \A j \in Approvals :
          /\ Hooked(j) \in seen' => ask'[j] # "none"
          /\ \A choice \in Decisions : Answer_(j, choice) \in seen' => future'[j] # "open" /\ ask'[j] # "none"
    BY <1>1, <1>14 DEF ClaudeInv, ClaudeTold
  <2>2. \A r \in Questions : Reply(r) \in seen' => future'[r] # "open" /\ ask'[r] # "none"
    BY <1>1, <1>14 DEF ClaudeInv, ClaudeTold
  <2>3. ASSUME NEW r \in Questions, NEW x \in Parts, PartOf(r, x) \in seen'
        PROVE  x <= told'[r]
    <3>1. CASE r = q /\ x = p
      BY <1>2, <1>6, <3>1
    <3>2. CASE PartOf(r, x) \in seen
      <4>1. x <= told[r] /\ x \in Nat
        BY <3>2, InteractionsAssumption DEF ClaudeInv, ClaudeTold
      <4> QED BY <1>2, <1>6, <4>1
    <3> QED BY <1>14, <2>3, <3>1, <3>2
  <2> QED BY <2>1, <2>2, <2>3 DEF ClaudeTold, Hooked, PartOf, Reply, Answer_
<1>16. ClaudeShows'
  <2>1. Held(q)'
    BY <1>1, <1>5, <1>11 DEF Held
  <2>2. ps \in SUBSET (1 .. told'[q])
    BY <1>6, <1>10
  <2> QED BY <1>10, <2>1, <2>2 DEF ClaudeShows, Question
<1>17. ClaudeWaits'
  <2>1. \A j \in Requests : ask'[j] = "open" => j = q
    BY <1>1, <1>5 DEF ClaudeInv, ClaudeWaits, Waiting
  <2>2. \A j \in Approvals : ask'[j] # "open"
    BY <1>4, <2>1 DEF Requests
  <2>3. \A r \in Questions : ask'[r] = "open" => \E x \in SUBSET (1 .. told'[r]) : activity' = Question(r, x)
    BY <1>6, <1>10, <2>1 DEF Requests
  <2>4. \A j \in Waiting' : inbox' = <<>> /\ future'[j] # "none"
    BY <1>1, <1>11 DEF ClaudeInv, ClaudeWaits
  <2>5. (\A i, j \in Waiting' : i = j) /\ (~turn' => Waiting' = {})
    BY <1>1, <1>11 DEF ClaudeInv, ClaudeWaits
  <2> QED BY <2>2, <2>3, <2>4, <2>5 DEF ClaudeWaits, Question
<1> QED BY <1>12, <1>13, <1>15, <1>16, <1>17 DEF ClaudeInv

\* A hook responds.
LEMMA ReturnsClaude ==
  ASSUME ClaudeAlone, ClaudeInv, NEW i \in Requests, HookReturns(i)
  PROVE  ClaudeInv'
<1>1. /\ future[i] = "done" /\ future' = [future EXCEPT ![i] = "none"]
      /\ (i \in Questions => told[i] = Cardinality(Parts))
      /\ UNCHANGED <<told, turn, inbox, wire, calls, queue, work, buttons, pending, typing, activity, seen>>
      /\ ask' = IF ask[i] = "open" THEN [ask EXCEPT ![i] = "closed"] ELSE ask
  BY DEF HookReturns, Relayed, link, bus, telegram
<1>2. ask[i] # "none"
  BY <1>1 DEF ClaudeInv, ClaudeHooks
<1>3. \A j \in Requests : future'[j] = IF j = i THEN "none" ELSE future[j]
  BY <1>1 DEF ClaudeInv, ClaudeTypes
<1>4. \A j \in Requests : ask'[j] = IF j = i /\ ask[i] = "open" THEN "closed" ELSE ask[j]
  BY <1>1 DEF ClaudeInv, ClaudeTypes
<1>5. ClaudeTypes'
  BY <1>1 DEF ClaudeInv, ClaudeTypes, Idle
<1>6. \A j \in Requests : /\ future'[j] = "open" <=> future[j] = "open"
                          /\ ask'[j] = "none" <=> ask[j] = "none"
                          /\ ask'[j] = "open" => ask[j] = "open" /\ j # i
                          /\ ask[j] = "open" /\ future[j] = "open" => ask'[j] = "open"
  BY <1>1, <1>2, <1>3, <1>4
<1>7. ClaudeHooks'
  <2>1. \A j \in Requests : ask'[j] = "none" => future'[j] = "none"
    BY <1>3, <1>6 DEF ClaudeInv, ClaudeHooks
  <2>2. \A q \in Questions : ask'[q] = "none" => told'[q] = 0
    BY <1>1, <1>6 DEF ClaudeInv, ClaudeHooks, Requests
  <2>3. \A q \in Questions : future'[q] # "none" =>
          told'[q] = Cardinality(Parts) \/ (ask'[q] = "open" /\ future'[q] = "open")
    BY <1>1, <1>3, <1>6 DEF ClaudeInv, ClaudeHooks, Requests
  <2> QED BY <2>1, <2>2, <2>3 DEF ClaudeHooks
<1>8. ClaudeTold'
  BY <1>1, <1>6 DEF ClaudeInv, ClaudeTold, Requests, Hooked, PartOf, Reply, Answer_
<1>9. \A j : Held(j) => Held(j)'
  BY <1>1, <1>6 DEF Held, Waiting
<1>10. ClaudeShows'
  <2>1. ASSUME NEW j \in Approvals, activity = Attention(j), Held(j)
        PROVE  ClaudeShows'
    BY <1>1, <1>9, <2>1 DEF ClaudeShows, Attention
  <2>2. ASSUME NEW q \in Questions, NEW ps \in SUBSET (1 .. told[q]), activity = Question(q, ps), Held(q)
        PROVE  ClaudeShows'
    BY <1>1, <1>9, <2>2 DEF ClaudeShows, Question
  <2>3. ASSUME activity \in {Running, Over}
        PROVE  ClaudeShows'
    BY <1>1, <2>3 DEF ClaudeShows, Running, Over
  <2> QED BY <2>1, <2>2, <2>3 DEF ClaudeInv, ClaudeShows
<1>11. ClaudeWaits'
  <2>1. \A j \in Waiting' : j \in Waiting /\ j # i
    BY <1>6 DEF Waiting
  <2>2. (\A j, k \in Waiting' : j = k) /\ (~turn' => Waiting' = {})
    BY <1>1, <2>1 DEF ClaudeInv, ClaudeWaits
  <2>3. \A j \in Waiting' : inbox' = <<>> /\ future'[j] # "none"
    BY <1>1, <1>3, <2>1 DEF ClaudeInv, ClaudeWaits, Waiting
  <2>4. \A j \in Approvals : ask'[j] = "open" /\ future'[j] = "open" => activity' = Attention(j)
    BY <1>1, <1>6 DEF ClaudeInv, ClaudeWaits, Requests
  <2>5. \A q \in Questions : ask'[q] = "open" /\ future'[q] = "open" /\ told'[q] # 0 =>
          \E ps \in SUBSET (1 .. told'[q]) : activity' = Question(q, ps)
    BY <1>1, <1>6 DEF ClaudeInv, ClaudeWaits, Requests
  <2> QED BY <2>2, <2>3, <2>4, <2>5 DEF ClaudeWaits, Attention, Question
<1> QED BY <1>5, <1>7, <1>8, <1>10, <1>11 DEF ClaudeInv

\* The turn's output is handled: nobody waits then, and its failure ends all.
LEMMA HandleClaude ==
  ASSUME ClaudeAlone, ClaudeInv, Drift = FALSE, NoId \notin Requests, Handle
  PROVE  ClaudeInv'
<1>1. PICK k \in DOMAIN inbox : /\ IsNext(k) /\ inbox' = RemoveAt(inbox, k)
                                /\ HandleRequest(k) \/ HandleResolved(k) \/ HandleOther(k)
  BY DEF Handle, Take
<1>2. k = 1 /\ inbox # <<>>
  BY <1>1 DEF IsNext
<1>3. /\ inbox' = Tail(inbox) /\ Tail(inbox) \in Seq(Says)
      /\ DOMAIN inbox = 1 .. Len(inbox) /\ DOMAIN Tail(inbox) = 1 .. Len(inbox) - 1
      /\ Len(inbox) \in Nat \ {0} /\ \A n \in 1 .. Len(inbox) - 1 : Tail(inbox)[n] = inbox[n + 1]
  BY <1>1, <1>2, RemovedFirst, Taken DEF ClaudeInv, ClaudeTypes
<1>4. HandleOther(1)
  BY <1>1, <1>2 DEF ClaudeInv, ClaudeTypes, HandleRequest, HandleResolved
<1>5. PICK kind \in {"started", "progress", "final", "completed", "failed"} :
        inbox[1].kind = kind /\ Publish(Event(kind, NoId, ""))
  BY <1>4 DEF HandleOther
<1>6. seen' = seen /\ activity' = Shown(Event(kind, NoId, ""), activity)
  BY <1>5, PublishFree
<1>7. UNCHANGED <<ask, future, told, turn, wire, calls, telegram>>
  BY <1>4 DEF Handle, HandleOther, provider
<1>8. Waiting = {}
  BY <1>2 DEF ClaudeInv, ClaudeWaits
<1>9. Waiting' = {}
  BY <1>7, <1>8 DEF Waiting
<1>10. ClaudeTypes'
  <2>1. \A n \in DOMAIN inbox' : inbox'[n].kind \notin {"request", "resolved"}
    BY <1>3 DEF ClaudeInv, ClaudeTypes
  <2> QED BY <1>3, <1>7, <2>1 DEF ClaudeInv, ClaudeTypes, telegram, Idle
<1>11. ClaudeHooks'
  BY <1>7 DEF ClaudeInv, ClaudeHooks
<1>12. ClaudeTold'
  BY <1>6, <1>7 DEF ClaudeInv, ClaudeTold, Hooked, PartOf, Reply, Answer_
<1>13. ClaudeWaits'
  <2>1. \A j \in Requests : ask'[j] # "open"
    BY <1>9 DEF Waiting
  <2> QED BY <1>9, <2>1 DEF ClaudeWaits, Requests
<1>14. kind = "failed" => activity' = Over
  <2>1. Event("failed", NoId, "").kind = "failed"
    BY DEF Event
  <2>2. \A a : Shown(Event("failed", NoId, ""), a) = Over
    BY <2>1 DEF Shown, Over
  <2> QED BY <1>6, <2>2
<1>15. ASSUME kind # "failed", NEW i, Held(i)
       PROVE  Held(i)'
  <2>1. PICK n \in DOMAIN inbox : inbox[n].kind = "failed"
    BY <1>8, <1>15 DEF Held
  <2>2. n # 1 /\ n \in 1 .. Len(inbox)
    BY <1>3, <1>5, <1>15, <2>1
  <2>3. n - 1 \in 1 .. Len(inbox) - 1 /\ (n - 1) + 1 = n
    BY <1>3, <2>2
  <2>4. inbox'[n - 1] = inbox[n] /\ n - 1 \in DOMAIN inbox'
    BY <1>3, <2>3
  <2> QED BY <2>1, <2>4 DEF Held
<1>16. ClaudeShows'
  <2>1. CASE activity \in {Running, Over}
    <3>1. activity' \in {Running, Over}
      BY <1>6, <2>1, ShowsTalk
    <3> QED BY <3>1 DEF ClaudeShows, Running, Over
  <2>2. CASE kind = "failed"
    BY <1>14, <2>2 DEF ClaudeShows, Running, Over
  <2>3. ASSUME kind # "failed", NEW i \in Approvals, activity = Attention(i), Held(i)
        PROVE  ClaudeShows'
    <3>1. activity' \in {Running, Over, Attention(i)}
      BY <1>6, <2>3, ShowsTalk
    <3>2. Held(i)'
      BY <1>15, <2>3
    <3> QED BY <3>1, <3>2 DEF ClaudeShows, Running, Over, Attention
  <2>4. ASSUME kind # "failed", NEW q \in Questions, NEW ps \in SUBSET (1 .. told[q]),
               activity = Question(q, ps), Held(q)
        PROVE  ClaudeShows'
    <3>1. q # NoId
      BY DEF Requests
    <3>2. activity' \in {Running, Over, Question(q, ps)}
      BY <1>6, <2>4, <3>1, ShowsQuestion
    <3>3. Held(q)'
      BY <1>15, <2>4
    <3>4. ps \in SUBSET (1 .. told'[q])
      BY <1>7
    <3> QED BY <3>2, <3>3, <3>4 DEF ClaudeShows, Running, Over, Question
  <2> QED BY <2>1, <2>2, <2>3, <2>4 DEF ClaudeInv, ClaudeShows
<1> QED BY <1>10, <1>11, <1>12, <1>13, <1>16 DEF ClaudeInv

\* A future that is resolved, with what is published of it, leaves the rest as it is.
LEMMA ResolvedClaude ==
  ASSUME ClaudeAlone, ClaudeInv, NEW i \in Requests, future[i] # "none",
         future' = [future EXCEPT ![i] = "done"],
         UNCHANGED <<ask, told, turn, inbox, wire, calls, queue, work>>,
         buttons' = {}, pending' = {}, typing' = {},
         i \in Questions => told[i] = Cardinality(Parts),
         \A j \in Requests : ask[j] = "open" /\ future[j] = "open" /\ j # i => activity' = activity,
         future[i] = "open" => activity' \in {Running, Over},
         activity' \in {Running, Over, activity},
         \A j, x : /\ Hooked(j) \in seen' => Hooked(j) \in seen
                   /\ PartOf(j, x) \in seen' => PartOf(j, x) \in seen
                   /\ Reply(j) \in seen' => Reply(j) \in seen \/ j = i
                   /\ Answer_(j, x) \in seen' => Answer_(j, x) \in seen \/ j = i
  PROVE  ClaudeInv'
<1>1. \A j \in Requests : future'[j] = IF j = i THEN "done" ELSE future[j]
  BY DEF ClaudeInv, ClaudeTypes
<1>2. ask[i] # "none"
  BY DEF ClaudeInv, ClaudeHooks
<1>3. Waiting' = Waiting
  BY DEF Waiting
<1>4. ClaudeTypes'
  BY DEF ClaudeInv, ClaudeTypes, Idle
<1>5. ClaudeHooks'
  <2>1. \A j \in Requests : ask'[j] = "none" => future'[j] = "none"
    BY <1>1, <1>2 DEF ClaudeInv, ClaudeHooks
  <2>2. \A q \in Questions : ask'[q] = "none" => told'[q] = 0
    BY DEF ClaudeInv, ClaudeHooks
  <2>3. \A q \in Questions : future'[q] # "none" =>
          told'[q] = Cardinality(Parts) \/ (ask'[q] = "open" /\ future'[q] = "open")
    BY <1>1 DEF ClaudeInv, ClaudeHooks, Requests
  <2> QED BY <2>1, <2>2, <2>3 DEF ClaudeHooks
<1>6. ClaudeTold'
  <2>1. \A j \in Approvals :
          /\ Hooked(j) \in seen' => ask'[j] # "none"
          /\ \A choice \in Decisions : Answer_(j, choice) \in seen' => future'[j] # "open" /\ ask'[j] # "none"
    BY <1>1, <1>2 DEF ClaudeInv, ClaudeTold, Requests
  <2>2. \A q \in Questions :
          /\ \A p \in Parts : PartOf(q, p) \in seen' => p <= told'[q]
          /\ Reply(q) \in seen' => future'[q] # "open" /\ ask'[q] # "none"
    BY <1>1, <1>2 DEF ClaudeInv, ClaudeTold, Requests
  <2> QED BY <2>1, <2>2 DEF ClaudeTold, Hooked, PartOf, Reply, Answer_
<1>7. ASSUME activity' = activity, future[i] # "open", NEW j, Held(j), j \in Requests
      PROVE  Held(j)'
  BY <1>1, <1>3, <1>7 DEF Held
<1>8. ClaudeShows'
  <2>1. CASE activity' \in {Running, Over}
    BY <2>1 DEF ClaudeShows, Running, Over
  <2>2. ASSUME activity' = activity, future[i] # "open",
               NEW j \in Approvals, activity = Attention(j), Held(j)
        PROVE  ClaudeShows'
    BY <1>7, <2>2 DEF ClaudeShows, Attention, Requests
  <2>3. ASSUME activity' = activity, future[i] # "open",
               NEW q \in Questions, NEW ps \in SUBSET (1 .. told[q]), activity = Question(q, ps), Held(q)
        PROVE  ClaudeShows'
    BY <1>7, <2>3 DEF ClaudeShows, Question, Requests
  <2> QED BY <2>1, <2>2, <2>3 DEF ClaudeInv, ClaudeShows
<1>9. ClaudeWaits'
  <2>1. (\A j, k \in Waiting' : j = k) /\ (~turn' => Waiting' = {})
    BY <1>3 DEF ClaudeInv, ClaudeWaits
  <2>2. \A j \in Waiting' : inbox' = <<>> /\ future'[j] # "none"
    BY <1>1, <1>3 DEF ClaudeInv, ClaudeWaits, Waiting
  <2>3. \A j \in Requests : future'[j] = "open" => j # i /\ future[j] = "open"
    BY <1>1
  <2>4. \A j \in Approvals : ask'[j] = "open" /\ future'[j] = "open" => activity' = Attention(j)
    BY <2>3 DEF ClaudeInv, ClaudeWaits, Requests
  <2>5. \A q \in Questions : ask'[q] = "open" /\ future'[q] = "open" /\ told'[q] # 0 =>
          \E ps \in SUBSET (1 .. told'[q]) : activity' = Question(q, ps)
    BY <2>3 DEF ClaudeInv, ClaudeWaits, Requests
  <2> QED BY <2>1, <2>2, <2>4, <2>5 DEF ClaudeWaits, Attention, Question
<1> QED BY <1>4, <1>5, <1>6, <1>8, <1>9 DEF ClaudeInv

\* A session that shows no request asks for nothing.
LEMMA ShowsNone ==
  ASSUME NEW a \in {Running, Over}
  PROVE  a.kind # "approval" /\ a.status # "attention"
<1>1. a.kind = "" /\ a.status # "attention"
  BY NotTheSame
<1>2. a.kind # "approval"
  BY <1>1
<1> QED BY <1>1, <1>2

\* A claude session of which nothing counts changes.
LEMMA SameClaude ==
  ASSUME ClaudeInv, UNCHANGED <<ask, future, told, turn, inbox, wire, calls, queue, work, buttons, pending,
                                typing, activity, seen>>
  PROVE  ClaudeInv'
<1>1. Waiting' = Waiting /\ \A i : Held(i) => Held(i)'
  BY DEF Waiting, Held
<1>2. ClaudeTypes'
  BY DEF ClaudeInv, ClaudeTypes, Idle
<1>3. ClaudeHooks'
  BY DEF ClaudeInv, ClaudeHooks
<1>4. ClaudeTold'
  BY DEF ClaudeInv, ClaudeTold, Hooked, PartOf, Reply, Answer_
<1>5. ClaudeShows'
  BY <1>1 DEF ClaudeInv, ClaudeShows, Running, Over, Attention, Question
<1>6. ClaudeWaits'
  BY <1>1 DEF ClaudeInv, ClaudeWaits, Attention, Question
<1> QED BY <1>2, <1>3, <1>4, <1>5, <1>6 DEF ClaudeInv

\* What is shown of a claude that waits is what it waits for.
LEMMA ShownWaits ==
  ASSUME ClaudeInv, NEW i \in Requests, NEW j \in Requests, Held(i), ask[j] = "open"
  PROVE  i = j
<1>1. j \in Waiting /\ inbox = <<>>
  BY DEF Waiting, ClaudeInv, ClaudeWaits
<1>2. i \in Waiting
  BY <1>1 DEF Held
<1> QED BY <1>1, <1>2 DEF ClaudeInv, ClaudeWaits

\* The desktop decides the approval it shows.
LEMMA DecidesClaude ==
  ASSUME ClaudeAlone, ClaudeInv, 0 \notin Requests,
         NEW c \in Clients, NEW i \in Approvals, NEW choice \in Decisions, ClaudeDecide(c, i, choice)
  PROVE  ClaudeInv'
<1>1. /\ Offered(c, i) /\ future[i] # "none" /\ Publish(Answer_(i, choice))
      /\ future' = IF future[i] = "open" THEN [future EXCEPT ![i] = "done"] ELSE future
      /\ UNCHANGED <<ask, told, turn, inbox, wire, calls, queue, work, pending, typing>>
      /\ buttons' \subseteq buttons
  BY DEF ClaudeDecide, Replied, Answer_, Resolve, link
<1>2. activity.kind = "approval" /\ activity.req = i
  BY <1>1 DEF Offered, ClaudeInv, ClaudeTypes, ClaudeAlone
<1>3. i \in Requests /\ i # 0 /\ i \notin Questions
  BY InteractionsAssumption DEF Requests
<1>4. activity = Attention(i) /\ Held(i)
  <2>1. activity \notin {Running, Over}
    BY <1>2, ShowsNone
  <2>2. ASSUME NEW q \in Questions, NEW ps, activity = Question(q, ps)
        PROVE  FALSE
    BY <1>2, <2>2 DEF Question
  <2>3. PICK j \in Approvals : activity = Attention(j) /\ Held(j)
    BY <2>1, <2>2 DEF ClaudeInv, ClaudeShows
  <2>4. j = i
    BY <1>2, <2>3 DEF Attention
  <2> QED BY <2>3, <2>4
<1>5. /\ seen' = seen \cup {Answer_(i, choice)}
      /\ activity' = IF Answer_(i, choice) \in seen THEN activity ELSE Running
  BY <1>1, <1>3, <1>4, PublishKeyed, ShowsAnswer DEF Answer_
<1>6. future' = [future EXCEPT ![i] = "done"]
  BY <1>1, <1>3 DEF ClaudeInv, ClaudeTypes
<1>7. future[i] = "open" => activity' = Running
  BY <1>5 DEF ClaudeInv, ClaudeTold
<1>8. \A j \in Requests : ask[j] = "open" => j = i
  BY <1>3, <1>4, ShownWaits
<1>9. \A j, x : /\ Hooked(j) \in seen' => Hooked(j) \in seen
                /\ PartOf(j, x) \in seen' => PartOf(j, x) \in seen
                /\ Reply(j) \in seen' => Reply(j) \in seen
                /\ Answer_(j, x) \in seen' => Answer_(j, x) \in seen \/ j = i
  BY <1>5, HooksDiffer, EventsDiffer
<1>10. buttons' = {} /\ pending' = {} /\ typing' = {}
  BY <1>1 DEF ClaudeInv, ClaudeTypes
<1> QED BY <1>1, <1>3, <1>5, <1>6, <1>7, <1>8, <1>9, <1>10, ResolvedClaude

\* The desktop answers the question it shows, once it knows every part.
LEMMA AnswersClaude ==
  ASSUME ClaudeAlone, ClaudeInv, 0 \notin Requests, NoId \notin Requests, Cardinality(Parts) \in Nat \ {0},
         NEW q \in Questions, Answer(q)
  PROVE  ClaudeInv'
<1>1. DesktopAnswers(q)
  BY DEF Answer, TelegramPresses, TelegramTexts, TelegramTypes, TelegramExpired, ClaudeInv, ClaudeTypes
<1>2. /\ IsPending(q) /\ activity.parts = Parts /\ Submit(q, Parts)
      /\ UNCHANGED <<ask, told, turn, inbox, wire, calls, queue, work, buttons>>
  BY <1>1 DEF DesktopAnswers, link
<1>3. pending' = {} /\ typing' = {}
  BY <1>2 DEF Submit, Discard, ClaudeInv, ClaudeTypes
<1>4. q \in Requests /\ q # 0 /\ q # NoId /\ q \notin Approvals
  BY InteractionsAssumption DEF Requests
<1>5. PICK ps \in SUBSET (1 .. told[q]) : activity = Question(q, ps) /\ Held(q)
  <2>1. activity \notin {Running, Over}
    BY <1>2, ShowsNone DEF IsPending
  <2>2. ASSUME NEW j \in Approvals, activity = Attention(j)
        PROVE  FALSE
    BY <1>2, <2>2 DEF Attention, IsPending
  <2>3. PICK r \in Questions : \E ps \in SUBSET (1 .. told[r]) : activity = Question(r, ps) /\ Held(r)
    BY <2>1, <2>2 DEF ClaudeInv, ClaudeShows
  <2>4. r = q
    BY <1>2, <2>3 DEF Question, IsPending
  <2> QED BY <2>3, <2>4
<1>6. told[q] = Cardinality(Parts)
  <2>1. Parts \in SUBSET (1 .. told[q]) /\ Parts = 1 .. Cardinality(Parts)
    BY <1>2, <1>5, InteractionsAssumption DEF Question
  <2>2. Cardinality(Parts) \in Parts
    BY <2>1
  <2>3. Cardinality(Parts) \in 1 .. told[q]
    BY <2>1, <2>2
  <2>4. told[q] = 0 \/ told[q] \in Parts
    BY DEF ClaudeInv, ClaudeTypes
  <2>5. CASE told[q] = 0
    BY <2>3, <2>5
  <2>6. CASE told[q] \in Parts
    <3>1. told[q] \in 1 .. Cardinality(Parts)
      BY <2>1, <2>6
    <3> QED BY <2>3, <3>1
  <2> QED BY <2>4, <2>5, <2>6
<1>7. CASE future[q] = "open"
  <2>1. future' = [future EXCEPT ![q] = "done"] /\ Publish(Reply(q))
    BY <1>2, <1>7 DEF Submit, Resolve, Reply
  <2>2. Reply(q) \notin seen
    BY <1>7 DEF ClaudeInv, ClaudeTold
  <2>3. seen' = seen \cup {Reply(q)} /\ activity' = Running
    <3>1. seen' = seen \cup {Reply(q)} /\ activity' = Shown(Reply(q), activity)
      BY <1>4, <2>1, <2>2, PublishKeyed DEF Reply
    <3>2. activity.req = q /\ activity.status = "attention"
      BY <1>2 DEF IsPending
    <3> QED BY <3>1, <3>2, ShowsReply
  <2>4. \A j \in Requests : ask[j] = "open" => j = q
    BY <1>4, <1>5, ShownWaits
  <2>5. \A j, x : /\ Hooked(j) \in seen' => Hooked(j) \in seen
                  /\ PartOf(j, x) \in seen' => PartOf(j, x) \in seen
                  /\ Reply(j) \in seen' => Reply(j) \in seen \/ j = q
                  /\ Answer_(j, x) \in seen' => Answer_(j, x) \in seen
    BY <2>3, HooksDiffer
  <2>6. buttons' = {}
    BY <1>2 DEF ClaudeInv, ClaudeTypes
  <2>7. activity' \in {Running, Over} /\ future[q] # "none"
    BY <1>7, <2>3
  <2> QED BY <1>2, <1>3, <1>4, <1>6, <2>1, <2>4, <2>5, <2>6, <2>7, ResolvedClaude
<1>8. CASE future[q] # "open"
  <2>1. UNCHANGED <<future, activity, seen>>
    BY <1>2, <1>8 DEF Submit, bus
  <2>2. UNCHANGED <<pending, typing>>
    BY <1>3 DEF ClaudeInv, ClaudeTypes
  <2> QED BY <1>2, <2>1, <2>2, SameClaude
<1> QED BY <1>7, <1>8

\* Every step of a claude session of no topic whose replies are not held up.
LEMMA ClaudeKept ==
  ASSUME ClaudeAlone, ClaudeInv, Drift = FALSE, AtOnce <= 1, 0 \notin Requests, NoId \notin Requests,
         Cardinality(Parts) \in Nat \ {0}, [Next]_vars
  PROVE  ClaudeInv'
<1>1. CASE UNCHANGED vars
  <2>1. UNCHANGED <<ask, future, told, turn, inbox, wire, calls, queue, work, buttons, pending, typing,
                    activity, seen>>
    BY <1>1 DEF vars, provider, link, bus, telegram
  <2> QED BY <2>1, SameClaude
<1>2. CASE Provider
  <2>1. \A i \in Approvals : ~CodexAsks(i)
    BY DEF CodexAsks, ClaudeAlone
  <2>2. ASSUME NEW i \in Approvals, ClaudeAsks(i)
        PROVE  ClaudeInv'
    BY <2>2, AsksClaude
  <2>3. ASSUME NEW q \in Questions, ClaudeQuestion(q) \/ ClaudePart(q)
        PROVE  ClaudeInv'
    BY <2>3, QuestionClaude, PartClaude
  <2>4. ASSUME NEW i \in Requests, HookReturns(i)
        PROVE  ClaudeInv'
    BY <2>4, ReturnsClaude
  <2>5. ASSUME GoesOn \/ Ends \/ Interrupted \/ NextTurn
        PROVE  ClaudeInv'
    BY <2>5, TalksClaude, InterruptedClaude
  <2> QED BY <1>2, <2>1, <2>2, <2>3, <2>4, <2>5 DEF Provider
<1>3. CASE Handle
  BY <1>3, HandleClaude
<1>4. ~Consumer /\ ~PostFails
  BY DEF Consumer, TakeTask, ApprovalPosted, PartPosted, KeysAttached, PostFails, ClaudeInv, ClaudeTypes, Idle
<1>5. ASSUME NEW c \in Clients, NEW i \in Approvals, NEW choice \in Decisions, Decide(c, i, choice)
      PROVE  ClaudeInv'
  <2>1. ~CodexDecide(c, i, choice) /\ ~SendReturns(c, i, choice) /\ ~CodexTakes(c, i, choice)
    BY DEF CodexDecide, SendReturns, CodexTakes, ClaudeAlone, ClaudeInv, ClaudeTypes
  <2> QED BY <1>5, <2>1, DecidesClaude DEF Decide
<1>6. ASSUME NEW q \in Questions, Answer(q)
      PROVE  ClaudeInv'
  BY <1>6, AnswersClaude
<1> QED BY <1>1, <1>2, <1>3, <1>4, <1>5, <1>6 DEF Next

-----------------------------------------------------------------------------
(* What the session shows is true.                                         *)

\* At first nobody waits and nothing is shown.
LEMMA InitShown ==
  ASSUME Init
  PROVE  ShownInv /\ ClaudeInv
<1>1. Waiting = {} /\ \A i \in Requests : ask[i] = "none" /\ took[i] = {} /\ future[i] = "none"
  BY DEF Init, Waiting
<1>2. /\ inbox = <<>> /\ queue = <<>> /\ DOMAIN inbox = {} /\ DOMAIN queue = {}
      /\ inbox \in Seq(Says) /\ seen = {} /\ wire = {} /\ calls = {} /\ activity = Running /\ turn
      /\ work = Idle /\ buttons = {} /\ pending = {} /\ typing = {}
  BY DEF Init
<1>3. \A i \in Approvals : work # Posting(i)
  BY <1>2 DEF Posting, Idle
<1>4. ShownInv
  <2>1. CodexSaid
    BY <1>2 DEF CodexSaid
  <2>2. CodexTold
    BY <1>2, <1>3 DEF CodexTold
  <2>3. CodexTook
    <3>1. \A i \in Approvals : \A choice : took[i] # {choice}
      BY <1>1 DEF Requests
    <3> QED BY <1>1, <1>2, <3>1 DEF CodexTook, Requests
  <2>4. OneOpen /\ OpenIsShown
    BY <1>1 DEF OneOpen, OpenIsShown
  <2>5. CodexShows
    BY <1>2 DEF CodexShows
  <2> QED BY <2>1, <2>2, <2>3, <2>4, <2>5 DEF ShownInv
<1>5. ClaudeInv
  <2>1. ClaudeTypes
    BY <1>2 DEF Init, ClaudeTypes
  <2>2. ClaudeHooks
    BY <1>1 DEF ClaudeHooks, Requests, Init
  <2>3. ClaudeTold
    BY <1>2 DEF ClaudeTold
  <2>4. ClaudeShows
    BY <1>2 DEF ClaudeShows
  <2>5. ClaudeWaits
    BY <1>1, <1>2 DEF ClaudeWaits, Requests
  <2> QED BY <2>1, <2>2, <2>3, <2>4, <2>5 DEF ClaudeInv
<1> QED BY <1>4, <1>5

\* A codex session at rest that nobody overruled shows what codex waits for.
LEMMA CodexFaithful ==
  ASSUME IsCodex, CodexTypes, ShownInv, AtRest, ~Outdated
  PROVE  Faithful
<1>1. inbox = <<>> /\ wire = {}
  BY DEF AtRest
<1>2. ~Overruled
  <2> SUFFICES ASSUME NEW i \in Approvals, NEW choice \in Decisions,
                      Answer_(i, choice) \in seen, took[i] # {choice}
               PROVE  FALSE
    BY DEF Overruled
  <2>1. /\ Answer_(i, choice).kind = "answered" /\ Answer_(i, choice).of = i
        /\ Answer_(i, choice).detail = choice
    BY DEF Answer_, Event
  <2> QED BY <2>1 DEF Outdated
<1>3. \A i : Coming(i) => ask[i] = "open"
  BY <1>1 DEF Coming, Later
<1>4. \A i \in Waiting : activity = Attention(i)
  <2>1. \A i : ~Decided(i)
    BY <1>1 DEF Decided
  <2> QED BY <1>1, <1>2, <2>1 DEF ShownInv, OpenIsShown
<1>5. \A i : Attention(i).status = "attention" /\ Attention(i).req = i
  BY DEF Attention
<1>6. ASSUME activity.status = "attention"
      PROVE  Waiting # {}
  <2>1. activity \notin {Running, Over}
    BY <1>6, ShowsNone
  <2>2. PICK i \in Approvals : Coming(i)
    BY <2>1 DEF ShownInv, CodexShows
  <2> QED BY <1>3, <2>2 DEF Waiting, Requests
<1> QED BY <1>4, <1>5, <1>6 DEF Faithful

\* And so does a claude session at rest.
LEMMA ClaudeFaithful ==
  ASSUME ClaudeInv, AtRest, Cardinality(Parts) \in Nat \ {0}
  PROVE  Faithful
<1>1. /\ inbox = <<>> /\ \A i \in Requests : future[i] # "done"
      /\ \A q \in Questions : future[q] = "open" => told[q] = Cardinality(Parts)
  BY DEF AtRest, AllTold
<1>2. ASSUME NEW i \in Waiting
      PROVE  activity.status = "attention" /\ activity.req = i
  <2>1. i \in Requests /\ ask[i] = "open"
    BY DEF Waiting
  <2>2. future[i] = "open"
    BY <1>1, <2>1 DEF ClaudeInv, ClaudeWaits, ClaudeTypes
  <2>3. CASE i \in Approvals
    <3>1. activity = Attention(i)
      BY <2>1, <2>2, <2>3 DEF ClaudeInv, ClaudeWaits
    <3> QED BY <3>1 DEF Attention
  <2>4. CASE i \in Questions
    <3>1. told[i] # 0
      BY <1>1, <2>2, <2>4
    <3>2. PICK ps : activity = Question(i, ps)
      BY <2>1, <2>2, <2>4, <3>1 DEF ClaudeInv, ClaudeWaits
    <3> QED BY <3>2 DEF Question
  <2> QED BY <2>1, <2>3, <2>4 DEF Requests
<1>3. ASSUME activity.status = "attention"
      PROVE  Waiting # {}
  <2>1. activity \notin {Running, Over}
    BY <1>3, ShowsNone
  <2>2. \E i : Held(i)
    BY <2>1 DEF ClaudeInv, ClaudeShows
  <2> QED BY <1>1, <2>2 DEF Held
<1> QED BY <1>2, <1>3 DEF Faithful

\* A session at rest shows "needs attention" exactly while its provider waits, and
\* names the request it waits for: of codex, unless somebody decided what was no
\* longer waited for, and of claude while no Telegram send publishes a request
\* again; for any number of requests of which one is open at a time.
THEOREM AttentionIsTrue ==
  ASSUME 0 \notin Requests, Drift = FALSE, AtOnce <= 1, Cardinality(Parts) \in Nat \ {0}
  PROVE  Spec => []AttentionTrueUnlessLate
<1> DEFINE Inv == /\ IsCodex => CodexTypes /\ LeftInv
                  /\ IsCodex /\ ~setting.late => ShownInv
                  /\ ClaudeAlone => ClaudeInv
<1>1. Init => Inv
  BY InitLeft, InitShown
<1>2. Inv /\ [Next]_vars => Inv'
  <2> SUFFICES ASSUME Inv, [Next]_vars
               PROVE  Inv'
    OBVIOUS
  <2>1. setting' = setting
    BY SameProvider
  <2>2. (IsCodex' <=> IsCodex) /\ (ClaudeAlone' <=> ClaudeAlone)
    BY <2>1 DEF IsCodex, ClaudeAlone
  <2>3. 0 \notin Approvals /\ NoId \notin Requests
    BY InteractionsAssumption DEF Requests
  <2>4. IsCodex => CodexTypes' /\ LeftInv'
    BY <2>3, CodexLeft
  <2>5. IsCodex /\ ~setting.late => ShownInv'
    BY <2>3, <2>4, CodexShown
  <2>6. ClaudeAlone => ClaudeInv'
    BY <2>3, ClaudeKept
  <2> QED BY <2>1, <2>2, <2>4, <2>5, <2>6
<1>3. Inv => AttentionTrueUnlessLate
  <2> SUFFICES ASSUME Inv, ~Outdated, ~setting.late, IsCodex \/ ~setting.topic, AtRest
               PROVE  Faithful
    BY DEF AttentionTrueUnlessLate, AttentionTrue
  <2>1. CASE IsCodex
    BY <2>1, CodexFaithful
  <2>2. CASE ~IsCodex
    <3>1. ClaudeInv
      BY <2>2 DEF ClaudeAlone
    <3> QED BY <3>1, ClaudeFaithful
  <2> QED BY <2>1, <2>2
<1> HIDE DEF Inv
<1> QED BY <1>1, <1>2, <1>3, PTL DEF Spec

-----------------------------------------------------------------------------
(* The remote proxy.                                                       *)

Kinds == {"asks", "resolved"} \X Asks \cup {"list"} \X Lists
Votes == {"cli", "telegram", "timeout", "resolved", ""} \X (Verdicts \cup {""})
Live  == {"sending", "marking", "waiting", "replying"}

ProxyTypes ==
  /\ Proxy!TypeOK
  /\ down \in Seq(Kinds)
  /\ replies \in [Asks -> Seq(Votes)]

\* The relay holds the CLI's reply to the request.
Carried(r) == outbound # Proxy!NoReply /\ outbound.request = r

\* A request is under way to the CLI once at most, and before its prompt is there.
AskedOnce(r) ==
  \A j, k \in DOMAIN down :
    down[j] = <<"asks", r>> /\ down[k] = <<"asks", r>> => j = k /\ prompt[r] = "none"

\* Which replies are the proxy's.
Proxied(s) == {k \in DOMAIN s : s[k][1] # "cli"}

\* Nobody has replied to the request.
Unanswered(r) == replies[r] = <<>> /\ ~Carried(r)

\* As long as the task may still reply, the CLI cannot without deciding the race,
\* and it has not.
Raced(r) ==
  /\ AskedOnce(r)
  /\ prompt[r] = "none" => mirror[r] = "none" /\ answered[r] = "" /\ ~race[r] /\ Unanswered(r)
  /\ mirror[r] \in Live /\ prompt[r] = "open" => race[r]
  /\ race[r] => mirror[r] \notin {"none", "over"} /\ (mirror[r] # "replying" => answered[r] = "")
  /\ mirror[r] \in Live /\ (answered[r] = "" \/ mirror[r] = "replying") => Unanswered(r)
  /\ mirror[r] = "replying" => answered[r] \in {"telegram", "timeout"}
  /\ Proxied(replies[r]) \subseteq {1}
  /\ \A k \in Proxied(replies[r]) :
       replies[r][k][1] = answered[r] /\ answered[r] \in {"telegram", "timeout"}

AllRaced == \A r \in Asks : Raced(r)

ProxyInv == ProxyTypes /\ AllRaced

-----------------------------------------------------------------------------
(* Sequences.                                                              *)

\* The app-server puts a message at the end.
LEMMA Sent ==
  ASSUME down \in Seq(Kinds), NEW kind, NEW x, <<kind, x>> \in Kinds, Proxy!Sends(kind, x)
  PROVE  /\ down' \in Seq(Kinds)
         /\ \A k \in DOMAIN down' :
              \/ k \in DOMAIN down /\ down'[k] = down[k]
              \/ k = Len(down) + 1 /\ down'[k] = <<kind, x>>
<1> DEFINE e == <<kind, x>>
<1>1. down' = Append(down, e) /\ e \in Kinds
  BY DEF Proxy!Sends
<1> HIDE DEF e
<1>2. /\ down' \in Seq(Kinds) /\ Len(down) \in Nat
      /\ DOMAIN down = 1 .. Len(down) /\ DOMAIN down' = 1 .. Len(down) + 1
      /\ \A k \in 1 .. Len(down) : down'[k] = down[k]
      /\ down'[Len(down) + 1] = e
  BY <1>1, Put
<1> QED BY <1>2 DEF e

\* The relay takes the first message away.
LEMMA ProxyRelayed ==
  ASSUME down \in Seq(Kinds), NEW kind, NEW x, Proxy!Relays(kind, x)
  PROVE  /\ down' \in Seq(Kinds)
         /\ 1 \in DOMAIN down /\ down[1] = <<kind, x>>
         /\ \A k \in DOMAIN down' :
              k \in Nat \ {0} /\ k + 1 \in DOMAIN down /\ down'[k] = down[k + 1]
<1>1. down # <<>> /\ Head(down) = <<kind, x>> /\ down' = Tail(down)
  BY DEF Proxy!Relays
<1>2. /\ Len(down) \in Nat /\ Len(down) > 0 /\ Tail(down) \in Seq(Kinds) /\ Head(down) = down[1]
      /\ Len(Tail(down)) = Len(down) - 1
      /\ DOMAIN down = 1 .. Len(down) /\ DOMAIN Tail(down) = 1 .. Len(Tail(down))
      /\ \A k \in 1 .. Len(Tail(down)) : Tail(down)[k] = down[k + 1]
  BY <1>1, HeadTailProperties, EmptySeq, LenProperties
<1> QED BY <1>1, <1>2

\* What is under way stays asked for once, as its first message goes.
LEMMA RelayedOnce ==
  ASSUME down \in Seq(Kinds), NEW kind, NEW x, Proxy!Relays(kind, x), NEW r, AskedOnce(r),
         prompt'[r] = prompt[r] \/ <<kind, x>> = <<"asks", r>>
  PROVE  AskedOnce(r)'
<1>1. ASSUME NEW k \in DOMAIN down', down'[k] = <<"asks", r>>
      PROVE  /\ k \in Nat \ {0} /\ k + 1 \in DOMAIN down /\ down[k + 1] = <<"asks", r>>
             /\ prompt'[r] = prompt[r]
  <2>1. k \in Nat \ {0} /\ k + 1 \in DOMAIN down /\ down[k + 1] = <<"asks", r>>
    BY <1>1, ProxyRelayed
  <2>2. 1 \in DOMAIN down /\ down[1] = <<kind, x>> /\ k + 1 # 1
    BY <2>1, ProxyRelayed
  <2>3. <<kind, x>> # <<"asks", r>>
    BY <2>1, <2>2 DEF AskedOnce
  <2> QED BY <2>1, <2>3
<1>2. ASSUME NEW j \in DOMAIN down', NEW k \in DOMAIN down',
             down'[j] = <<"asks", r>>, down'[k] = <<"asks", r>>
      PROVE  j = k /\ prompt'[r] = "none"
  <2>1. j + 1 = k + 1 /\ prompt[r] = "none"
    BY <1>1, <1>2 DEF AskedOnce
  <2> QED BY <1>1, <1>2, <2>1
<1> QED BY <1>2 DEF AskedOnce

\* A reply more.
LEMMA OneMore ==
  ASSUME NEW s \in Seq(Votes), NEW e \in Votes
  PROVE  /\ Append(s, e) \in Seq(Votes)
         /\ e[1] = "cli" => /\ Proxied(Append(s, e)) = Proxied(s)
                            /\ \A k \in Proxied(s) : Append(s, e)[k] = s[k]
         /\ s = <<>> /\ e[1] # "cli" => /\ Proxied(Append(s, e)) = {1}
                                       /\ Append(s, e)[1] = e
<1> DEFINE q == Append(s, e)
<1>1. /\ q \in Seq(Votes) /\ Len(s) \in Nat
      /\ DOMAIN s = 1 .. Len(s) /\ DOMAIN q = 1 .. Len(s) + 1
      /\ \A k \in 1 .. Len(s) : q[k] = s[k]
      /\ q[Len(s) + 1] = e
  BY Put
<1> HIDE DEF q
<1>2. ASSUME e[1] = "cli"
      PROVE  Proxied(q) = Proxied(s) /\ (\A k \in Proxied(s) : q[k] = s[k])
  BY <1>1, <1>2 DEF Proxied
<1>3. ASSUME s = <<>>, e[1] # "cli"
      PROVE  Proxied(q) = {1} /\ q[1] = e
  <2>1. Len(s) = 0
    BY <1>3
  <2>2. DOMAIN q = {1} /\ q[1] = e
    BY <1>1, <2>1
  <2> QED BY <1>3, <2>2 DEF Proxied
<1> QED BY <1>1, <1>2, <1>3 DEF q

-----------------------------------------------------------------------------
(* The steps.                                                              *)

\* The types, one by one.
LinkTypes ==
  /\ connected \in BOOLEAN
  /\ outbound \in [request : Asks, choice : Verdicts] \cup {Proxy!NoReply}
  /\ prompt \in [Asks -> {"none", "open", "answered", "closed"}]
  /\ resolved \in [Asks -> BOOLEAN]
  /\ down \in Seq(Kinds) /\ replies \in [Asks -> Seq(Votes)]

RaceTypes ==
  /\ race \in [Asks -> BOOLEAN] /\ event \in [Asks -> BOOLEAN]
  /\ answered \in [Asks -> {"", "cli", "telegram", "timeout", "resolved"}]
  /\ mirror \in [Asks -> {"none", "sending", "marking", "waiting", "replying",
                              "over", "cancelled"}]
  /\ \A r \in Asks : answered[r] # "" => event[r]

CardTypes ==
  /\ waiting \in [Asks -> BOOLEAN] /\ card \in [Asks -> BOOLEAN]
  /\ pressable \in [Asks -> BOOLEAN]
  /\ chosen \in [Asks -> Verdicts \cup {""}] /\ said \in [Asks -> Verdicts \cup {""}]

ListTypes ==
  /\ cwds \subseteq {Id[l] : l \in Lists}
  /\ list \in [Lists -> {"none", "asked", "cut", "whole"}]

FlatTypes == LinkTypes /\ RaceTypes /\ CardTypes /\ ListTypes

\* The type invariant in the groups the steps are proved by.
LEMMA TypesAre == ProxyInv => FlatTypes /\ \A r \in Asks : Raced(r)
BY DEF ProxyInv, AllRaced, ProxyTypes, Proxy!TypeOK, FlatTypes, LinkTypes, RaceTypes, CardTypes, ListTypes

\* And back: the groups make the invariant.
LEMMA TypesMake == FlatTypes /\ AllRaced => ProxyInv
<1> SUFFICES ASSUME FlatTypes, AllRaced
             PROVE  ProxyInv
  OBVIOUS
<1> USE DEF FlatTypes
<1>1. \A k \in DOMAIN down : down[k] \in {"asks", "resolved"} \X Asks \cup {"list"} \X Lists
  <2> DEFINE K == {"asks", "resolved"} \X Asks \cup {"list"} \X Lists
  <2>1. down \in Seq(K)
    BY DEF LinkTypes, Kinds
  <2> HIDE DEF K
  <2>2. \A k \in DOMAIN down : down[k] \in K
    BY <2>1, ElementOfSeq, LenProperties
  <2> QED BY <2>2 DEF K
<1>2. \A r \in Asks : race[r] => mirror[r] \notin {"none", "over"}
  BY DEF AllRaced, Raced
<1>3. {race, waiting, event, card, pressable, resolved} \subseteq [Asks -> BOOLEAN]
  BY DEF LinkTypes, RaceTypes, CardTypes
<1>4. /\ answered \in [Asks -> {"", "cli", "telegram", "timeout", "resolved"}]
      /\ mirror \in [Asks -> {"none", "sending", "marking", "waiting", "replying",
                                  "over", "cancelled"}]
      /\ \A r \in Asks : answered[r] # "" => event[r]
  BY DEF RaceTypes
<1>5. chosen \in [Asks -> Verdicts \cup {""}] /\ said \in [Asks -> Verdicts \cup {""}]
  BY DEF CardTypes
<1>6. /\ connected \in BOOLEAN
      /\ outbound \in [request : Asks, choice : Verdicts] \cup {Proxy!NoReply}
      /\ prompt \in [Asks -> {"none", "open", "answered", "closed"}]
  BY DEF LinkTypes
<1>7. Proxy!TypeOK
  BY <1>1, <1>2, <1>3, <1>4, <1>5, <1>6 DEF Proxy!TypeOK, ListTypes
<1> QED BY <1>7 DEF ProxyInv, ProxyTypes, LinkTypes

\* A step that concerns one request.
LEMMA OneRequestStep ==
  ASSUME ProxyInv, NEW r \in Asks, FlatTypes', Raced(r)',
         \A x \in Asks \ {r} :
           /\ AskedOnce(x)'
           /\ prompt'[x] = prompt[x] /\ mirror'[x] = mirror[x] /\ answered'[x] = answered[x]
           /\ race'[x] = race[x] /\ replies'[x] = replies[x] /\ (Carried(x)' => Carried(x))
  PROVE  ProxyInv'
<1>1. ASSUME NEW x \in Asks, x # r
      PROVE  Raced(x)'
  <2>1. Raced(x) /\ (Unanswered(x) => Unanswered(x)')
    BY <1>1, TypesAre DEF Unanswered
  <2> QED BY <1>1, <2>1 DEF Raced
<1>2. AllRaced'
  BY <1>1 DEF AllRaced
<1> QED BY <1>2, TypesMake, PTL

\* A step that concerns none.
LEMMA NoRequestStep ==
  ASSUME ProxyInv, FlatTypes',
         UNCHANGED <<prompt, mirror, answered, race, replies, outbound>>,
         \A x \in Asks : AskedOnce(x)'
  PROVE  ProxyInv'
<1>1. ASSUME NEW x \in Asks
      PROVE  Raced(x)'
  <2>1. Raced(x) /\ (Unanswered(x) => Unanswered(x)')
    BY <1>1, TypesAre DEF Unanswered, Carried
  <2> QED BY <1>1, <2>1 DEF Raced
<1>2. AllRaced'
  BY <1>1 DEF AllRaced
<1> QED BY <1>2, TypesMake, PTL

\* As long as the messages under way are the same, so is what is asked for.
LEMMA AskedSame ==
  ASSUME NEW r, AskedOnce(r), UNCHANGED down,
         prompt'[r] = prompt[r] \/ prompt[r] # "none"
  PROVE  AskedOnce(r)'
BY DEF AskedOnce

\* Every step of the proxy.
LEMMA ProxyStep ==
  ASSUME ProxyInv, [Proxy!Next]_(Proxy!vars)
  PROVE  ProxyInv'
<1> USE DEF Proxy!Drop, Proxy!Goes, Proxy!Discard, Proxy!Mark, Proxy!approval, Proxy!lists
<1>0. LinkTypes /\ RaceTypes /\ CardTypes /\ ListTypes
      /\ \A x \in Asks : Raced(x) /\ AskedOnce(x)
  BY TypesAre DEF Raced, FlatTypes
<1>1. CASE UNCHANGED Proxy!vars
  <2>1. FlatTypes'
    BY <1>0, <1>1 DEF Proxy!vars, FlatTypes, LinkTypes, RaceTypes, CardTypes, ListTypes
  <2>2. \A x \in Asks : AskedOnce(x)'
    BY <1>0, <1>1, AskedSame DEF Proxy!vars
  <2> QED BY <1>1, <2>1, <2>2, NoRequestStep DEF Proxy!vars
<1>2. ASSUME NEW r \in Asks, Proxy!ServerAsks(r)
      PROVE  ProxyInv'
  <2>1. <<"asks", r>> \in Kinds /\ Proxy!Sends("asks", r) /\ ~Proxy!Asked(r)
    BY <1>2 DEF Proxy!ServerAsks, Kinds
  <2>2. /\ down' \in Seq(Kinds)
        /\ \A k \in DOMAIN down' : \/ k \in DOMAIN down /\ down'[k] = down[k]
                                   \/ k = Len(down) + 1 /\ down'[k] = <<"asks", r>>
    BY <1>0, <2>1, Sent DEF LinkTypes, RaceTypes, CardTypes
  <2>3. \A x \in Asks : AskedOnce(x)'
    BY <1>0, <1>2, <2>1, <2>2 DEF AskedOnce, Proxy!Asked, Proxy!ServerAsks
  <2>4. FlatTypes'
    <3>t1. LinkTypes'
      BY <1>0, <1>2, <2>2 DEF Proxy!ServerAsks, LinkTypes
    <3>t2. RaceTypes'
      BY <1>0, <1>2, <2>2 DEF Proxy!ServerAsks, RaceTypes
    <3>t3. CardTypes'
      BY <1>0, <1>2, <2>2 DEF Proxy!ServerAsks, CardTypes
    <3>t4. ListTypes'
      BY <1>0, <1>2, <2>2 DEF Proxy!ServerAsks, ListTypes
    <3> QED BY <3>t1, <3>t2, <3>t3, <3>t4 DEF FlatTypes
  <2> QED BY <1>2, <2>3, <2>4, NoRequestStep DEF Proxy!ServerAsks
<1>3. ASSUME NEW r \in Asks, Proxy!ServerResolves(r)
      PROVE  ProxyInv'
  <2>1. <<"resolved", r>> \in Kinds /\ Proxy!Sends("resolved", r)
    BY <1>3 DEF Proxy!ServerResolves, Kinds
  <2>2. /\ down' \in Seq(Kinds)
        /\ \A k \in DOMAIN down' : \/ k \in DOMAIN down /\ down'[k] = down[k]
                                   \/ k = Len(down) + 1 /\ down'[k] = <<"resolved", r>>
    BY <1>0, <2>1, Sent DEF LinkTypes, RaceTypes, CardTypes
  <2>3. \A x \in Asks : AskedOnce(x)'
    BY <1>0, <1>3, <2>2 DEF AskedOnce, Proxy!ServerResolves
  <2>4. FlatTypes'
    <3>t1. LinkTypes'
      BY <1>0, <1>3, <2>2 DEF Proxy!ServerResolves, LinkTypes
    <3>t2. RaceTypes'
      BY <1>0, <1>3, <2>2 DEF Proxy!ServerResolves, RaceTypes
    <3>t3. CardTypes'
      BY <1>0, <1>3, <2>2 DEF Proxy!ServerResolves, CardTypes
    <3>t4. ListTypes'
      BY <1>0, <1>3, <2>2 DEF Proxy!ServerResolves, ListTypes
    <3> QED BY <3>t1, <3>t2, <3>t3, <3>t4 DEF FlatTypes
  <2> QED BY <1>3, <2>3, <2>4, NoRequestStep DEF Proxy!ServerResolves
<1>4. ASSUME NEW l \in Lists, Proxy!ServerLists(l)
      PROVE  ProxyInv'
  <2>1. <<"list", l>> \in Kinds /\ Proxy!Sends("list", l)
    BY <1>4 DEF Proxy!ServerLists, Kinds
  <2>2. /\ down' \in Seq(Kinds)
        /\ \A k \in DOMAIN down' : \/ k \in DOMAIN down /\ down'[k] = down[k]
                                   \/ k = Len(down) + 1 /\ down'[k] = <<"list", l>>
    BY <1>0, <2>1, Sent DEF LinkTypes, RaceTypes, CardTypes
  <2>3. \A x \in Asks : AskedOnce(x)'
    BY <1>0, <1>4, <2>2 DEF AskedOnce, Proxy!ServerLists
  <2>4. FlatTypes'
    <3>t1. LinkTypes'
      BY <1>0, <1>4, <2>2 DEF Proxy!ServerLists, LinkTypes
    <3>t2. RaceTypes'
      BY <1>0, <1>4, <2>2 DEF Proxy!ServerLists, RaceTypes
    <3>t3. CardTypes'
      BY <1>0, <1>4, <2>2 DEF Proxy!ServerLists, CardTypes
    <3>t4. ListTypes'
      BY <1>0, <1>4, <2>2 DEF Proxy!ServerLists, ListTypes
    <3> QED BY <3>t1, <3>t2, <3>t3, <3>t4 DEF FlatTypes
  <2> QED BY <1>4, <2>3, <2>4, NoRequestStep DEF Proxy!ServerLists
<1>5. ASSUME NEW r \in Asks, Proxy!RelayAsks(r)
      PROVE  ProxyInv'
  <2>1. Proxy!Relays("asks", r) /\ down \in Seq(Kinds)
    BY <1>0, <1>5 DEF Proxy!RelayAsks, LinkTypes, RaceTypes, CardTypes
  <2>2. prompt[r] = "none"
    BY <1>0, <2>1, ProxyRelayed DEF AskedOnce
  <2>3. /\ prompt' = [prompt EXCEPT ![r] = "open"]
        /\ \/ /\ race' = [race EXCEPT ![r] = TRUE]
              /\ waiting' = [waiting EXCEPT ![r] = TRUE]
              /\ mirror' = [mirror EXCEPT ![r] = "sending"]
           \/ UNCHANGED <<race, waiting, mirror>>
        /\ UNCHANGED <<connected, outbound, answered, event, chosen, card, pressable, said, replies,
                       resolved, list>>
        /\ cwds' = cwds \ {Id[r]}
    BY <1>5 DEF Proxy!RelayAsks
  <2>4. \A x \in Asks : AskedOnce(x)'
    BY <1>0, <2>1, <2>3, RelayedOnce DEF LinkTypes, RaceTypes, CardTypes
  <2>5. FlatTypes'
    <3>t1. LinkTypes'
      BY <1>0, <2>1, <2>3, ProxyRelayed DEF LinkTypes
    <3>t2. RaceTypes'
      BY <1>0, <2>1, <2>3 DEF RaceTypes
    <3>t3. CardTypes'
      BY <1>0, <2>1, <2>3 DEF CardTypes
    <3>t4. ListTypes'
      BY <1>0, <2>1, <2>3 DEF ListTypes
    <3> QED BY <3>t1, <3>t2, <3>t3, <3>t4 DEF FlatTypes
  <2>6. Raced(r)'
    <3>1. /\ prompt'[r] = "open" /\ replies'[r] = replies[r] /\ answered'[r] = answered[r]
          /\ \/ race'[r] = TRUE /\ mirror'[r] = "sending"
             \/ race'[r] = race[r] /\ mirror'[r] = mirror[r]
      BY <1>0, <2>3 DEF LinkTypes, RaceTypes
    <3>2. /\ mirror[r] = "none" /\ answered[r] = "" /\ ~race[r] /\ Unanswered(r)
          /\ Proxied(replies[r]) \subseteq {1}
          /\ \A k \in Proxied(replies[r]) :
               replies[r][k][1] = answered[r] /\ answered[r] \in {"telegram", "timeout"}
      BY <1>0, <2>2 DEF Raced
    <3>3. Unanswered(r)'
      BY <2>3, <3>1, <3>2 DEF Unanswered, Carried
    <3> QED BY <2>4, <3>1, <3>2, <3>3 DEF Raced, Live
  <2>7. \A x \in Asks \ {r} :
          /\ prompt'[x] = prompt[x] /\ mirror'[x] = mirror[x] /\ race'[x] = race[x]
          /\ (Carried(x)' => Carried(x))
    <3>1. \A x \in Asks : Carried(x)' => Carried(x)
      BY <2>3 DEF Carried
    <3> QED BY <1>0, <2>3, <3>1 DEF LinkTypes, RaceTypes
  <2> QED BY <2>3, <2>4, <2>5, <2>6, <2>7, OneRequestStep
<1>6. ASSUME NEW r \in Asks, Proxy!RelayResolved(r)
      PROVE  ProxyInv'
  <2>1. Proxy!Relays("resolved", r) /\ down \in Seq(Kinds)
    BY <1>0, <1>6 DEF Proxy!RelayResolved, LinkTypes, RaceTypes, CardTypes
  <2>3. /\ prompt' = [prompt EXCEPT ![r] = IF @ = "open" THEN "closed" ELSE @]
        /\ \/ /\ race[r]
              /\ race' = [race EXCEPT ![r] = FALSE]
              /\ answered' = [answered EXCEPT ![r] = IF @ = "" THEN "resolved" ELSE @]
              /\ event' = [event EXCEPT ![r] = TRUE]
              /\ waiting' = [waiting EXCEPT ![r] = FALSE]
              /\ card' = [card EXCEPT ![r] = FALSE]
           \/ UNCHANGED <<race, answered, event, waiting, card>>
        /\ UNCHANGED <<connected, outbound, chosen, pressable, said, mirror, replies, resolved, Proxy!lists>>
    BY <1>6 DEF Proxy!RelayResolved
  <2>a. \A x \in Asks \ {r} :
          /\ prompt'[x] = prompt[x] /\ answered'[x] = answered[x] /\ race'[x] = race[x]
          /\ (Carried(x)' => Carried(x))
    <3>1. \A x \in Asks : Carried(x)' => Carried(x)
      BY <2>3 DEF Carried
    <3> QED BY <1>0, <2>3, <3>1 DEF LinkTypes, RaceTypes
  <2>b. prompt'[r] = IF prompt[r] = "open" THEN "closed" ELSE prompt[r]
    BY <1>0, <2>3 DEF LinkTypes, RaceTypes, CardTypes
  <2>4. \A x \in Asks : AskedOnce(x)'
    <3>1. ASSUME NEW x \in Asks
          PROVE  AskedOnce(x)'
      <4>1. CASE x # r \/ prompt[x] # "open"
        BY <1>0, <2>1, <2>a, <2>b, <4>1, RelayedOnce
      <4>2. CASE x = r /\ prompt[x] = "open"
        <5>1. \A k \in DOMAIN down : down[k] # <<"asks", x>>
          BY <1>0, <4>2 DEF AskedOnce
        <5>2. \A k \in DOMAIN down' : down'[k] # <<"asks", x>>
          BY <2>1, <5>1, ProxyRelayed
        <5> QED BY <5>2 DEF AskedOnce
      <4> QED BY <4>1, <4>2
    <3> QED BY <3>1
  <2>5. FlatTypes'
    <3>t1. LinkTypes'
      BY <1>0, <2>1, <2>3, ProxyRelayed DEF LinkTypes
    <3>t2. RaceTypes'
      BY <1>0, <2>1, <2>3 DEF RaceTypes
    <3>t3. CardTypes'
      BY <1>0, <2>1, <2>3 DEF CardTypes
    <3>t4. ListTypes'
      BY <1>0, <2>1, <2>3 DEF ListTypes
    <3> QED BY <3>t1, <3>t2, <3>t3, <3>t4 DEF FlatTypes
  <2>6. Raced(r)'
    <3>1. CASE /\ race[r]
               /\ race' = [race EXCEPT ![r] = FALSE]
               /\ answered' = [answered EXCEPT ![r] = IF @ = "" THEN "resolved" ELSE @]
      <4>1. /\ race'[r] = FALSE /\ answered'[r] = IF answered[r] = "" THEN "resolved" ELSE answered[r]
            /\ mirror'[r] = mirror[r] /\ replies'[r] = replies[r] /\ Carried(r)' = Carried(r)
            /\ prompt'[r] # "open" /\ (prompt'[r] = "none" => prompt[r] = "none")
        BY <1>0, <2>3, <2>b, <3>1 DEF LinkTypes, RaceTypes, CardTypes, Carried
      <4>2. prompt[r] # "none"
        BY <1>0, <3>1 DEF Raced
      <4> QED BY <1>0, <2>4, <4>1, <4>2 DEF Raced, Unanswered
    <3>2. CASE UNCHANGED <<race, answered, event, waiting, card>>
      <4>1. /\ mirror'[r] = mirror[r] /\ replies'[r] = replies[r] /\ Carried(r)' = Carried(r)
            /\ prompt'[r] # "open" /\ (prompt'[r] = "none" => prompt[r] = "none")
        BY <2>3, <2>b, <3>2 DEF Carried
      <4> QED BY <1>0, <2>4, <3>2, <4>1 DEF Raced, Unanswered
    <3> QED BY <2>3, <3>1, <3>2
  <2> QED BY <2>3, <2>4, <2>5, <2>6, <2>a, OneRequestStep
<1>7. ASSUME NEW l \in Lists, Proxy!RelayList(l)
      PROVE  ProxyInv'
  <2>1. Proxy!Relays("list", l) /\ down \in Seq(Kinds)
    BY <1>0, <1>7 DEF Proxy!RelayList, LinkTypes, RaceTypes, CardTypes
  <2>2. \A x \in Asks : AskedOnce(x)'
    BY <1>0, <1>7, <2>1, RelayedOnce DEF Proxy!RelayList
  <2>3. FlatTypes'
    <3>t1. LinkTypes'
      BY <1>0, <1>7, <2>1, ProxyRelayed DEF Proxy!RelayList, LinkTypes
    <3>t2. RaceTypes'
      BY <1>0, <1>7, <2>1 DEF Proxy!RelayList, RaceTypes
    <3>t3. CardTypes'
      BY <1>0, <1>7, <2>1 DEF Proxy!RelayList, CardTypes
    <3>t4. ListTypes'
      BY <1>0, <1>7, <2>1 DEF Proxy!RelayList, ListTypes
    <3> QED BY <3>t1, <3>t2, <3>t3, <3>t4 DEF FlatTypes
  <2> QED BY <1>7, <2>2, <2>3, NoRequestStep DEF Proxy!RelayList
<1>8. ASSUME NEW l \in Lists, Proxy!CliLists(l)
      PROVE  ProxyInv'
  <2>1. FlatTypes'
    <3>t1. LinkTypes'
      BY <1>0, <1>8 DEF Proxy!CliLists, LinkTypes
    <3>t2. RaceTypes'
      BY <1>0, <1>8 DEF Proxy!CliLists, RaceTypes
    <3>t3. CardTypes'
      BY <1>0, <1>8 DEF Proxy!CliLists, CardTypes
    <3>t4. ListTypes'
      BY <1>0, <1>8 DEF Proxy!CliLists, ListTypes
    <3> QED BY <3>t1, <3>t2, <3>t3, <3>t4 DEF FlatTypes
  <2>2. \A x \in Asks : AskedOnce(x)'
    BY <1>0, <1>8, AskedSame DEF Proxy!CliLists
  <2> QED BY <1>8, <2>1, <2>2, NoRequestStep DEF Proxy!CliLists
<1>9. ASSUME NEW r \in Asks, NEW c \in Verdicts, Proxy!CliAnswers(r, c)
      PROVE  ProxyInv'
  <2>1. /\ connected /\ outbound = Proxy!NoReply /\ prompt[r] = "open"
        /\ prompt' = [prompt EXCEPT ![r] = "answered"]
        /\ race' = [race EXCEPT ![r] = FALSE]
        /\ UNCHANGED <<connected, down, chosen, pressable, said, mirror, replies, resolved, Proxy!lists>>
    BY <1>9 DEF Proxy!CliAnswers
  <2>2. \/ /\ race[r] /\ answered[r] # ""
           /\ UNCHANGED <<outbound, answered, event, waiting, card>>
        \/ /\ race[r] /\ answered[r] = ""
           /\ outbound' = [request |-> r, choice |-> c]
           /\ answered' = [answered EXCEPT ![r] = IF @ = "" THEN "cli" ELSE @]
           /\ event' = [event EXCEPT ![r] = TRUE]
           /\ waiting' = [waiting EXCEPT ![r] = FALSE]
           /\ card' = [card EXCEPT ![r] = FALSE]
        \/ /\ ~race[r]
           /\ outbound' = [request |-> r, choice |-> c]
           /\ UNCHANGED <<answered, event, waiting, card>>
    BY <1>9 DEF Proxy!CliAnswers
  <2>3. FlatTypes'
    <3>t1. LinkTypes'
      <4>1. outbound' \in [request : Asks, choice : Verdicts] \cup {Proxy!NoReply}
        <5>1. CASE UNCHANGED outbound
          BY <1>0, <5>1 DEF LinkTypes
        <5>2. CASE outbound' = [request |-> r, choice |-> c]
          BY <1>9, <5>2
        <5> QED BY <2>2, <5>1, <5>2
      <4> QED BY <1>0, <2>1, <4>1 DEF LinkTypes
    <3>t2. RaceTypes'
      BY <1>0, <2>1, <2>2 DEF RaceTypes
    <3>t3. CardTypes'
      BY <1>0, <2>1, <2>2 DEF CardTypes
    <3>t4. ListTypes'
      BY <1>0, <2>1, <2>2 DEF ListTypes
    <3> QED BY <3>t1, <3>t2, <3>t3, <3>t4 DEF FlatTypes
  <2>4. \A x \in Asks : AskedOnce(x)'
    BY <1>0, <2>1, AskedSame DEF LinkTypes, RaceTypes, CardTypes
  <2>5. \A x \in Asks \ {r} :
          /\ prompt'[x] = prompt[x] /\ answered'[x] = answered[x] /\ race'[x] = race[x]
          /\ (Carried(x)' => Carried(x))
    <3>1. ASSUME NEW x \in Asks \ {r}
          PROVE  Carried(x)' => Carried(x)
      <4>1. CASE UNCHANGED outbound
        BY <4>1 DEF Carried
      <4>2. CASE outbound' = [request |-> r, choice |-> c]
        BY <4>2 DEF Carried
      <4> QED BY <2>2, <4>1, <4>2
    <3> QED BY <1>0, <2>1, <2>2, <3>1 DEF LinkTypes, RaceTypes
  <2>6. /\ prompt'[r] = "answered" /\ ~race'[r] /\ mirror'[r] = mirror[r]
        /\ replies'[r] = replies[r]
    BY <1>0, <2>1 DEF LinkTypes, RaceTypes, CardTypes
  <2>7. Raced(r)'
    <3>1. CASE race[r] /\ answered[r] # "" /\ UNCHANGED <<outbound, answered, event, waiting, card>>
      BY <1>0, <2>1, <2>4, <2>6, <3>1 DEF Raced, Unanswered, Carried
    <3>2. CASE /\ race[r] /\ answered[r] = ""
               /\ answered' = [answered EXCEPT ![r] = IF @ = "" THEN "cli" ELSE @]
      <4>1. answered'[r] = "cli"
        BY <1>0, <3>2 DEF LinkTypes, RaceTypes, CardTypes
      <4>2. mirror[r] # "replying" /\ Proxied(replies[r]) = {}
        BY <1>0, <3>2 DEF Raced
      <4>3. Proxied(replies'[r]) = {}
        BY <2>6, <4>2 DEF Proxy!ByProxy
      <4> QED BY <1>0, <2>1, <2>4, <2>6, <4>1, <4>2, <4>3 DEF Raced
    <3>3. CASE ~race[r] /\ UNCHANGED <<answered, event, waiting, card>>
      <4>1. mirror[r] \notin Live
        BY <1>0, <2>1, <3>3 DEF Raced
      <4> QED BY <1>0, <2>4, <2>6, <3>3, <4>1 DEF Raced, Live
    <3> QED BY <2>2, <3>1, <3>2, <3>3
  <2> QED BY <2>1, <2>3, <2>4, <2>5, <2>7, OneRequestStep
<1>10. CASE Proxy!Forward
  <2>0. outbound # Proxy!NoReply /\ outbound \in [request : Asks, choice : Verdicts]
    BY <1>0, <1>10 DEF Proxy!Forward, LinkTypes
  <2>p. PICK r \in Asks, c \in Verdicts : outbound.request = r /\ outbound.choice = c
    BY <2>0
  <2>1. /\ replies' = [replies EXCEPT ![r] = Append(@, <<"cli", c>>)]
        /\ outbound' = Proxy!NoReply
        /\ UNCHANGED <<connected, down, prompt, Proxy!approval, resolved, Proxy!lists>>
    BY <1>10, <2>p DEF Proxy!Forward, Proxy!Received
  <2>2. Carried(r)
    BY <2>0, <2>p DEF Carried
  <2> DEFINE e == <<"cli", c>>
  <2>3. /\ replies[r] \in Seq(Votes) /\ e \in Votes /\ e[1] = "cli"
        /\ replies'[r] = Append(replies[r], e)
        /\ \A x \in Asks : x # r => replies'[x] = replies[x]
    BY <1>0, <2>1 DEF LinkTypes, RaceTypes, CardTypes, Votes
  <2>4. /\ replies'[r] \in Seq(Votes) /\ Proxied(replies'[r]) = Proxied(replies[r])
        /\ \A k \in Proxied(replies[r]) : replies'[r][k] = replies[r][k]
    <3> HIDE DEF e
    <3>1. /\ Append(replies[r], e) \in Seq(Votes)
          /\ Proxied(Append(replies[r], e)) = Proxied(replies[r])
          /\ \A k \in Proxied(replies[r]) : Append(replies[r], e)[k] = replies[r][k]
      BY <2>3, OneMore
    <3> QED BY <2>3, <3>1
  <2>5. FlatTypes'
    <3>t1. LinkTypes'
      BY <1>0, <2>1, <2>4 DEF LinkTypes
    <3>t2. RaceTypes'
      BY <1>0, <2>1, <2>4 DEF RaceTypes
    <3>t3. CardTypes'
      BY <1>0, <2>1, <2>4 DEF CardTypes
    <3>t4. ListTypes'
      BY <1>0, <2>1, <2>4 DEF ListTypes
    <3> QED BY <3>t1, <3>t2, <3>t3, <3>t4 DEF FlatTypes
  <2>6. \A x \in Asks : AskedOnce(x)'
    BY <1>0, <2>1, AskedSame
  <2>7. \A x \in Asks : ~Carried(x)'
    BY <2>1 DEF Carried
  <2>8. Raced(r)'
    <3>1. prompt[r] # "none" /\ ~(mirror[r] \in Live /\ (answered[r] = "" \/ mirror[r] = "replying"))
      BY <1>0, <2>1, <2>2 DEF Raced, Unanswered
    <3> QED BY <1>0, <2>1, <2>4, <2>6, <3>1 DEF Raced
  <2>9. UNCHANGED <<prompt, mirror, answered, race>> /\ r \in Asks
    BY <2>1
  <2> QED BY <2>3, <2>5, <2>6, <2>7, <2>8, <2>9, OneRequestStep
<1>11. ASSUME NEW r \in Asks, Proxy!CardSent(r) \/ Proxy!CardMarked(r)
       PROVE  ProxyInv'
  <2>1. /\ mirror[r] \in {"sending", "marking"}
        /\ UNCHANGED <<connected, down, outbound, prompt, answered, chosen, said, replies, resolved,
                       Proxy!lists>>
        /\ \/ mirror' = [mirror EXCEPT ![r] = "marking"] /\ UNCHANGED race
           \/ mirror' = [mirror EXCEPT ![r] = "waiting"] /\ UNCHANGED race
           \/ mirror' = [mirror EXCEPT ![r] = "over"] /\ race' = [race EXCEPT ![r] = FALSE]
    BY <1>11 DEF Proxy!CardSent, Proxy!CardMarked, Proxy!GivesUp
  <2>2. FlatTypes'
    <3>1. pressable' \in [Asks -> BOOLEAN] /\ card' \in [Asks -> BOOLEAN]
      BY <1>0, <1>11 DEF Proxy!CardSent, Proxy!CardMarked, CardTypes
    <3>2. waiting' \in [Asks -> BOOLEAN]
      BY <1>0, <1>11 DEF Proxy!CardSent, Proxy!CardMarked, Proxy!GivesUp, CardTypes
    <3>3. event' \in [Asks -> BOOLEAN] /\ \A x \in Asks : event[x] => event'[x]
      <4>1. UNCHANGED event \/ event' = [event EXCEPT ![r] = @ \/ waiting[r]]
        BY <1>11 DEF Proxy!CardSent, Proxy!CardMarked, Proxy!GivesUp
      <4> QED BY <1>0, <4>1 DEF RaceTypes
    <3>t1. LinkTypes'
      BY <1>0, <2>1 DEF LinkTypes
    <3>t2. RaceTypes'
      BY <1>0, <2>1, <3>3 DEF RaceTypes
    <3>t3. CardTypes'
      BY <1>0, <2>1, <3>1, <3>2 DEF CardTypes
    <3>t4. ListTypes'
      BY <1>0, <2>1 DEF ListTypes
    <3> QED BY <3>t1, <3>t2, <3>t3, <3>t4 DEF FlatTypes
  <2>3. \A x \in Asks : AskedOnce(x)'
    BY <1>0, <2>1, AskedSame
  <2>4. \A x \in Asks \ {r} :
          /\ mirror'[x] = mirror[x] /\ race'[x] = race[x] /\ (Carried(x)' => Carried(x))
    <3>1. \A x \in Asks : Carried(x)' => Carried(x)
      BY <2>1 DEF Carried
    <3> QED BY <1>0, <2>1, <3>1 DEF RaceTypes
  <2>5. /\ \/ mirror'[r] \in {"marking", "waiting"} /\ race'[r] = race[r]
           \/ mirror'[r] = "over" /\ ~race'[r]
        /\ Carried(r)' = Carried(r)
    BY <1>0, <2>1 DEF LinkTypes, RaceTypes, CardTypes, Carried
  <2>6. Raced(r)'
    BY <1>0, <2>1, <2>3, <2>5 DEF Raced, Unanswered, Live
  <2> QED BY <2>1, <2>2, <2>3, <2>4, <2>6, OneRequestStep
<1>12. ASSUME NEW r \in Asks, NEW c \in Verdicts, Proxy!Press(r, c)
       PROVE  ProxyInv'
  <2>1. FlatTypes'
    <3>t1. LinkTypes'
      BY <1>0, <1>12 DEF Proxy!Press, LinkTypes
    <3>t2. RaceTypes'
      BY <1>0, <1>12 DEF Proxy!Press, RaceTypes
    <3>t3. CardTypes'
      BY <1>0, <1>12 DEF Proxy!Press, CardTypes
    <3>t4. ListTypes'
      BY <1>0, <1>12 DEF Proxy!Press, ListTypes
    <3> QED BY <3>t1, <3>t2, <3>t3, <3>t4 DEF FlatTypes
  <2>2. \A x \in Asks : AskedOnce(x)'
    BY <1>0, <1>12, AskedSame DEF Proxy!Press
  <2> QED BY <1>12, <2>1, <2>2, NoRequestStep DEF Proxy!Press
<1>13. ASSUME NEW r \in Asks, Proxy!Wakes(r) \/ Proxy!TimesOut(r)
       PROVE  ProxyInv'
  <2>1. /\ mirror[r] = "waiting"
        /\ UNCHANGED <<connected, down, outbound, prompt, race, chosen, pressable, said, replies, resolved,
                       Proxy!lists>>
        /\ \/ /\ answered[r] # "" /\ mirror' = [mirror EXCEPT ![r] = "over"]
              /\ UNCHANGED <<answered, event>>
              /\ waiting' = [waiting EXCEPT ![r] = FALSE] /\ card' = [card EXCEPT ![r] = FALSE]
           \/ /\ answered[r] = "" /\ mirror' = [mirror EXCEPT ![r] = "replying"]
              /\ event' = [event EXCEPT ![r] = TRUE]
              /\ \E who \in {"telegram", "timeout"} : answered' = [answered EXCEPT ![r] = who]
              /\ UNCHANGED <<waiting, card>>
    <3>1. CASE Proxy!Wakes(r)
      BY <1>0, <3>1 DEF Proxy!Wakes, Proxy!Decided, LinkTypes, RaceTypes, CardTypes
    <3>2. CASE Proxy!TimesOut(r)
      <4>1. answered[r] = ""
        BY <1>0, <3>2 DEF Proxy!TimesOut, LinkTypes, RaceTypes, CardTypes
      <4> QED BY <1>0, <3>2, <4>1 DEF Proxy!TimesOut, FlatTypes
    <3> QED BY <1>13, <3>1, <3>2
  <2>2. FlatTypes'
    <3>t1. LinkTypes'
      BY <1>0, <2>1 DEF LinkTypes
    <3>t2. RaceTypes'
      BY <1>0, <2>1 DEF RaceTypes
    <3>t3. CardTypes'
      BY <1>0, <2>1 DEF CardTypes
    <3>t4. ListTypes'
      BY <1>0, <2>1 DEF ListTypes
    <3> QED BY <3>t1, <3>t2, <3>t3, <3>t4 DEF FlatTypes
  <2>3. \A x \in Asks : AskedOnce(x)'
    BY <1>0, <2>1, AskedSame
  <2>4. \A x \in Asks \ {r} :
          mirror'[x] = mirror[x] /\ answered'[x] = answered[x] /\ (Carried(x)' => Carried(x))
    BY <1>0, <2>1 DEF LinkTypes, RaceTypes, CardTypes, Carried
  <2>5. Raced(r)'
    <3>1. CASE answered[r] # "" /\ mirror' = [mirror EXCEPT ![r] = "over"] /\ UNCHANGED answered
      <4>1. mirror'[r] = "over" /\ ~race[r] /\ prompt[r] # "none"
        BY <1>0, <2>1, <3>1 DEF Raced, LinkTypes, RaceTypes, CardTypes
      <4> QED BY <1>0, <2>1, <2>3, <3>1, <4>1 DEF Raced, Live
    <3>2. ASSUME answered[r] = "", mirror' = [mirror EXCEPT ![r] = "replying"],
                 NEW who \in {"telegram", "timeout"}, answered' = [answered EXCEPT ![r] = who]
          PROVE  Raced(r)'
      <4>1. mirror'[r] = "replying" /\ answered'[r] = who
        BY <1>0, <3>2 DEF LinkTypes, RaceTypes, CardTypes
      <4>2. Unanswered(r) /\ prompt[r] # "none" /\ Proxied(replies[r]) = {}
            /\ (prompt[r] = "open" => race[r])
        BY <1>0, <2>1, <3>2 DEF Raced, Live
      <4>3. Unanswered(r)' /\ Proxied(replies'[r]) = {}
        BY <2>1, <4>2 DEF Unanswered, Carried
      <4> QED BY <2>1, <2>3, <3>2, <4>1, <4>2, <4>3 DEF Raced
    <3> QED BY <2>1, <3>1, <3>2
  <2> QED BY <2>1, <2>2, <2>3, <2>4, <2>5, OneRequestStep
<1>14. ASSUME NEW r \in Asks, Proxy!Replies(r)
       PROVE  ProxyInv'
  <2> DEFINE c == IF answered[r] = "timeout" THEN "" ELSE chosen[r]
  <2>1. /\ mirror[r] = "replying" /\ outbound = Proxy!NoReply
        /\ replies' = [replies EXCEPT ![r] = Append(@, <<answered[r], c>>)]
        /\ race' = [race EXCEPT ![r] = FALSE]
        /\ waiting' = [waiting EXCEPT ![r] = FALSE] /\ card' = [card EXCEPT ![r] = FALSE]
        /\ mirror' = [mirror EXCEPT ![r] = "over"]
        /\ UNCHANGED <<connected, down, outbound, prompt, answered, event, chosen, pressable, said,
                       resolved, Proxy!lists>>
    BY <1>14 DEF Proxy!Replies, Proxy!Received
  <2>2. c \in Verdicts \cup {""}
    BY <1>0 DEF LinkTypes, RaceTypes, CardTypes
  <2>3. answered[r] \in {"telegram", "timeout"} /\ replies[r] = <<>> /\ prompt[r] # "none"
    BY <1>0, <2>1 DEF Raced, Unanswered, Live
  <2> HIDE DEF c
  <2> DEFINE e == <<answered[r], c>>
  <2>4. /\ replies[r] \in Seq(Votes) /\ e \in Votes /\ e[1] = answered[r]
        /\ replies'[r] = Append(replies[r], e)
        /\ \A x \in Asks : x # r => replies'[x] = replies[x]
    BY <1>0, <2>1, <2>2, <2>3 DEF LinkTypes, RaceTypes, CardTypes, Votes
  <2>5. /\ replies'[r] \in Seq(Votes) /\ Proxied(replies'[r]) = {1}
        /\ replies'[r][1] = e
    <3> HIDE DEF e
    <3>1. /\ Append(replies[r], e) \in Seq(Votes)
          /\ Proxied(Append(replies[r], e)) = {1} /\ Append(replies[r], e)[1] = e
      BY <2>3, <2>4, OneMore
    <3> QED BY <2>4, <3>1
  <2>6. FlatTypes'
    <3>t1. LinkTypes'
      BY <1>0, <2>1, <2>5 DEF LinkTypes
    <3>t2. RaceTypes'
      BY <1>0, <2>1, <2>5 DEF RaceTypes
    <3>t3. CardTypes'
      BY <1>0, <2>1, <2>5 DEF CardTypes
    <3>t4. ListTypes'
      BY <1>0, <2>1, <2>5 DEF ListTypes
    <3> QED BY <3>t1, <3>t2, <3>t3, <3>t4 DEF FlatTypes
  <2>7. \A x \in Asks : AskedOnce(x)'
    BY <1>0, <2>1, AskedSame
  <2>8. \A x \in Asks \ {r} :
          mirror'[x] = mirror[x] /\ race'[x] = race[x] /\ (Carried(x)' => Carried(x))
    <3>1. \A x \in Asks : Carried(x)' => Carried(x)
      BY <2>1 DEF Carried
    <3> QED BY <1>0, <2>1, <3>1 DEF RaceTypes
  <2>9. Raced(r)'
    <3>1. mirror'[r] = "over" /\ ~race'[r]
      BY <1>0, <2>1 DEF LinkTypes, RaceTypes, CardTypes
    <3>2. Proxied(replies'[r]) = {1} /\ replies'[r][1][1] = answered[r]
      BY <2>5 DEF Proxied
    <3> QED BY <2>1, <2>3, <2>7, <3>1, <3>2 DEF Raced, Live
  <2> QED BY <2>1, <2>4, <2>6, <2>7, <2>8, <2>9, OneRequestStep
<1>15. CASE Proxy!Close
  <2>1. /\ down' = <<>> /\ outbound' = Proxy!NoReply /\ connected' = FALSE /\ cwds' = {}
        /\ prompt' = [x \in Asks |-> IF prompt[x] = "open" THEN "closed" ELSE prompt[x]]
        /\ race' = [x \in Asks |-> FALSE]
        /\ UNCHANGED <<answered, event, chosen, pressable, said, replies, resolved, list>>
    BY <1>15 DEF Proxy!Close
  <2>2. /\ waiting' \in [Asks -> BOOLEAN] /\ card' \in [Asks -> BOOLEAN]
        /\ mirror' \in [Asks -> {"none", "sending", "marking", "waiting", "replying",
                                     "over", "cancelled"}]
        /\ \A x \in Asks : /\ mirror'[x] \notin Live
                           /\ mirror[x] = "none" => mirror'[x] = "none"
    BY <1>0, <1>15 DEF Proxy!Close, LinkTypes, RaceTypes, CardTypes, Live
  <2>3. FlatTypes'
    <3>t1. LinkTypes'
      BY <1>0, <2>1, EmptySeq DEF LinkTypes
    <3>t2. RaceTypes'
      BY <1>0, <2>1, <2>2 DEF RaceTypes
    <3>t3. CardTypes'
      BY <1>0, <2>1, <2>2 DEF CardTypes
    <3>t4. ListTypes'
      BY <1>0, <2>1, <2>2 DEF ListTypes
    <3> QED BY <3>t1, <3>t2, <3>t3, <3>t4 DEF FlatTypes
  <2>4. \A x \in Asks : ~Carried(x)' /\ AskedOnce(x)'
    BY <2>1 DEF Carried, AskedOnce
  <2>5. ASSUME NEW x \in Asks
        PROVE  Raced(x)'
    <3>1. ~race'[x] /\ prompt'[x] # "open" /\ (prompt'[x] = "none" => prompt[x] = "none")
      BY <1>0, <2>1 DEF LinkTypes, RaceTypes, CardTypes
    <3>2. mirror'[x] \notin {"sending", "marking", "waiting", "replying"}
          /\ (mirror[x] = "none" => mirror'[x] = "none")
      BY <2>2 DEF Live
    <3>3. replies'[x] = replies[x] /\ answered'[x] = answered[x] /\ ~Carried(x)' /\ AskedOnce(x)'
      BY <2>1, <2>4
    <3>4. Raced(x)
      BY <1>0
    <3> QED BY <3>1, <3>2, <3>3, <3>4 DEF Raced, Unanswered, Live
  <2>6. AllRaced'
    BY <2>5 DEF AllRaced
  <2> QED BY <2>3, <2>6, TypesMake, PTL
<1> QED
  BY <1>1, <1>2, <1>3, <1>4, <1>5, <1>6, <1>7, <1>8, <1>9, <1>10, <1>11, <1>12, <1>13, <1>14, <1>15
  DEF Proxy!Next, Proxy!Server, Proxy!Relay, Proxy!People, Proxy!Task

\* The types hold, and a race is there for its task to decide only.
THEOREM ProxyInvariant == Proxy!Spec => []ProxyInv
<1>1. Proxy!Init => ProxyInv
  <2> SUFFICES ASSUME Proxy!Init
               PROVE  ProxyInv
    OBVIOUS
  <2>1. LinkTypes /\ ListTypes
    <3>1. down \in Seq(Kinds) /\ replies \in [Asks -> Seq(Votes)]
      BY EmptySeq DEF Proxy!Init
    <3> QED BY <3>1 DEF Proxy!Init, LinkTypes, ListTypes
  <2>a. RaceTypes /\ CardTypes
    BY DEF Proxy!Init, RaceTypes, CardTypes
  <2>2. ASSUME NEW r \in Asks
        PROVE  Raced(r)
    <3>1. replies[r] = <<>> /\ Proxied(replies[r]) = {}
      <4>1. replies[r] = <<>>
        BY DEF Proxy!Init
      <4>2. DOMAIN <<>> = {}
        OBVIOUS
      <4> QED BY <4>1, <4>2 DEF Proxied
    <3>2. AskedOnce(r) /\ Unanswered(r)
      <4>1. down = <<>> /\ outbound = Proxy!NoReply
        BY DEF Proxy!Init
      <4>2. DOMAIN <<>> = {}
        OBVIOUS
      <4>3. AskedOnce(r)
        BY <4>1, <4>2 DEF AskedOnce
      <4> QED BY <3>1, <4>1, <4>3 DEF Unanswered, Carried
    <3> QED BY <3>1, <3>2 DEF Proxy!Init, Raced, Live
  <2> QED BY <2>1, <2>a, <2>2, TypesMake DEF FlatTypes, AllRaced
<1>2. ProxyInv /\ [Proxy!Next]_(Proxy!vars) => ProxyInv'
  BY ProxyStep
<1> QED BY <1>1, <1>2, PTL DEF Proxy!Spec

\* The proxy replies to an approval at most once, as the first, and for the one
\* who decided it.
THEOREM FirstAlwaysDecides == Proxy!Spec => []FirstDecides
<1>1. ProxyInv => FirstDecides
  BY DEF FirstDecides, ProxyInv, AllRaced, Raced, Proxy!FirstDecides, Proxy!ByProxy, Proxied
<1> QED BY <1>1, ProxyInvariant, PTL

-----------------------------------------------------------------------------
(* The connection to the codex app-server.                                 *)

\* No reconnect loop runs.
NoLoop == \A l \in Codex!Loops : tasks[l].pc = "off"

\* A loop sets its new adapter up, or has not made one yet.
SettingUp(t) == tasks[t].pc \in {"setup", "prime"}
Before(t)    == tasks[t].pc \in {"closing", "sleep", "starting", "connect"}

\* What an adapter knows of itself: one that reads no more has told of it, or is
\* in a restart that will read again.
AdapterRight(a) ==
  /\ a <= made <=> adapter[a].link # "none"
  /\ a > made => ~adapter[a].reads /\ ~adapter[a].told /\ ~adapter[a].releases
  /\ adapter[a].link = "open" => server = "up"
  /\ ~adapter[a].releases => adapter[a].idle = "no"
  /\ adapter[a].idle \in {"starting", "connect"} => adapter[a].link = "broken"
  /\ a <= made => adapter[a].told \/ adapter[a].reads \/ Codex!Restarting(a)

\* One loop at a time; it sets up the newest adapter, which may be lost meanwhile.
LoopRight(l) ==
  /\ \A k \in Codex!Loops : tasks[l].pc # "off" /\ tasks[k].pc # "off" => l = k
  /\ SettingUp(l) =>
       /\ made # 0 /\ tasks[l].a = made
       /\ ~adapter[made].releases
       /\ adapter[made].told => skipped
  /\ tasks[l].pc = "prime" => installed = made

\* The first connection's own task, and what is so when no loop runs.
FirstRight ==
  /\ tasks["first"].pc \in {"off", "connect", "prime"}
  /\ tasks["first"].pc = "connect" => made = 0 /\ NoLoop /\ monitor = "off"
  /\ tasks["first"].pc = "prime" =>
       tasks["first"].a = 1 /\ (made = 1 => \A l \in Codex!Loops : ~SettingUp(l))
  /\ NoLoop =>
       /\ installed = made
       /\ made = 0 => tasks["first"].pc = "connect"
       /\ made # 0 => ~adapter[made].told \/ skipped

\* The adapter has a connection, or will find out about it.
Stands(a) == adapter[a].link = "open" \/ adapter[a].reads \/ Codex!Restarting(a)

\* Unless a setup failed while a connection stood, none does but the newest, and
\* none does when a loop is to make the next.
Alone ==
  /\ extra = 0
  /\ \A a \in Codex!Adapters : Stands(a) => a = made
  /\ \A l \in Codex!Loops :
       /\ Before(l) =>
            \A a \in Codex!Adapters : adapter[a].link # "open" /\ ~Codex!Restarting(a)
       /\ tasks[l].pc \in {"starting", "connect"} =>
            \A a \in Codex!Adapters : ~adapter[a].reads
       /\ tasks[l].pc = "starting" => server # "up"

\* A call that is held back waits for an adapter.
Placed == \A c \in Calls : call[c].pc = "held" => call[c].a # 0

ConnectionInv ==
  /\ Codex!TypeOK
  /\ \A a \in Codex!Adapters : AdapterRight(a)
  /\ \A l \in Codex!Loops : LoopRight(l)
  /\ FirstRight /\ Placed
  /\ spoilt \/ Alone

\* What an adapter knows.
Phases == {"no", "wait", "check", "read", "hup", "starting", "connect"}
Knows == [up : BOOLEAN, link : {"none", "open", "broken"}, reads : BOOLEAN, told : BOOLEAN,
          releases : BOOLEAN,
          idle : Phases, moved : BOOLEAN]

Steps == {"off", "closing", "sleep", "starting", "connect", "setup", "prime"}
CallSteps == {"new", "held", "pending", "answered", "failed", "refused"}

AdapterTypes == adapter \in [Codex!Adapters -> Knows]

TaskTypes ==
  /\ made \in 0..MaxAdapters /\ installed \in 0..made
  /\ tasks \in [Codex!Tasks -> [pc : Steps, a : 0..made]]
  /\ inflight \in BOOLEAN
  /\ inflight <=> \E l \in Codex!Loops : tasks[l].pc # "off"

CallTypes ==
  call \in [Calls -> [pc : CallSteps, a : 0..made]]

RestTypes ==
  /\ server \in {"none", "up", "dead"} /\ extra \in Nat /\ running \in BOOLEAN
  /\ monitor \in {"off", "on", "over"}
  /\ faults \in 0..MaxFaults /\ skipped \in BOOLEAN /\ spoilt \in BOOLEAN


\* The module's type invariant, part by part.
LEMMA TypesByPart == Codex!TypeOK <=> AdapterTypes /\ TaskTypes /\ CallTypes /\ RestTypes
BY DEF Codex!TypeOK, AdapterTypes, TaskTypes, CallTypes, RestTypes, Knows, Phases, Steps, CallSteps

USE DEF Codex!Adapters, Codex!Loops, Codex!Tasks, Steps, CallSteps

\* The same but for up and moved, which no other step asks about.
Alike(r, s) ==
  /\ s \in Knows
  /\ s.link = r.link /\ s.reads = r.reads /\ s.told = r.told /\ s.releases = r.releases

\* A link that breaks.
LEMMA WithLink ==
  ASSUME NEW r \in Knows, NEW b \in {"open", "broken"}
  PROVE  /\ [r EXCEPT !.link = b] \in Knows
         /\ [r EXCEPT !.link = b].link = b
         /\ [r EXCEPT !.link = b].reads = r.reads
         /\ [r EXCEPT !.link = b].told = r.told
         /\ [r EXCEPT !.link = b].releases = r.releases
         /\ [r EXCEPT !.link = b].idle = r.idle
BY DEF Knows, Phases

\* An adapter that is marked as lost.
LEMMA WithUp ==
  ASSUME NEW r \in Knows, NEW b \in BOOLEAN
  PROVE  /\ [r EXCEPT !.up = b] \in Knows
         /\ [r EXCEPT !.up = b].link = r.link
         /\ [r EXCEPT !.up = b].reads = r.reads
         /\ [r EXCEPT !.up = b].told = r.told
         /\ [r EXCEPT !.up = b].releases = r.releases
         /\ [r EXCEPT !.up = b].idle = r.idle
BY DEF Knows, Phases

\* Something moved.
LEMMA WithMoved ==
  ASSUME NEW r \in Knows, NEW b \in BOOLEAN
  PROVE  /\ [r EXCEPT !.moved = b] \in Knows
         /\ [r EXCEPT !.moved = b].link = r.link
         /\ [r EXCEPT !.moved = b].reads = r.reads
         /\ [r EXCEPT !.moved = b].told = r.told
         /\ [r EXCEPT !.moved = b].releases = r.releases
         /\ [r EXCEPT !.moved = b].idle = r.idle
BY DEF Knows, Phases

\* A phase of letting go.
LEMMA WithIdle ==
  ASSUME NEW r \in Knows, NEW b \in Phases
  PROVE  /\ [r EXCEPT !.idle = b] \in Knows
         /\ [r EXCEPT !.idle = b].idle = b
         /\ [r EXCEPT !.idle = b].link = r.link
         /\ [r EXCEPT !.idle = b].reads = r.reads
         /\ [r EXCEPT !.idle = b].told = r.told
         /\ [r EXCEPT !.idle = b].releases = r.releases
BY DEF Knows, Phases

\* The wait for idle sessions is on.
LEMMA WithReleases ==
  ASSUME NEW r \in Knows, NEW b \in BOOLEAN
  PROVE  /\ [r EXCEPT !.releases = b] \in Knows
         /\ [r EXCEPT !.releases = b].releases = b
         /\ [r EXCEPT !.releases = b].link = r.link
         /\ [r EXCEPT !.releases = b].reads = r.reads
         /\ [r EXCEPT !.releases = b].told = r.told
         /\ [r EXCEPT !.releases = b].idle = r.idle
BY DEF Knows, Phases

\* The reader ends.
LEMMA WithReads ==
  ASSUME NEW r \in Knows, NEW b \in BOOLEAN
  PROVE  /\ [r EXCEPT !.reads = b] \in Knows
         /\ [r EXCEPT !.reads = b].reads = b
         /\ [r EXCEPT !.reads = b].link = r.link
         /\ [r EXCEPT !.reads = b].told = r.told
         /\ [r EXCEPT !.reads = b].releases = r.releases
         /\ [r EXCEPT !.reads = b].idle = r.idle
BY DEF Knows, Phases

\* The loss is told of.
LEMMA WithTold ==
  ASSUME NEW r \in Knows, NEW b \in BOOLEAN
  PROVE  /\ [r EXCEPT !.told = b] \in Knows
         /\ [r EXCEPT !.told = b].told = b
         /\ [r EXCEPT !.told = b].link = r.link
         /\ [r EXCEPT !.told = b].reads = r.reads
         /\ [r EXCEPT !.told = b].releases = r.releases
         /\ [r EXCEPT !.told = b].idle = r.idle
BY DEF Knows, Phases

\* A change of one adapter.
LEMMA ChangedAt ==
  ASSUME AdapterTypes, NEW a \in Codex!Adapters, NEW s \in Knows,
         adapter' = [adapter EXCEPT ![a] = s]
  PROVE  /\ AdapterTypes'
         /\ adapter'[a] = s
         /\ \A x \in Codex!Adapters : x # a => adapter'[x] = adapter[x]
BY DEF AdapterTypes

\* The links that a dead server leaves.
LEMMA CutDoes ==
  ASSUME AdapterTypes
  PROVE  /\ Codex!Cut \in [Codex!Adapters -> Knows]
         /\ \A x \in Codex!Adapters :
              /\ Codex!Cut[x].link = IF adapter[x].link = "open" THEN "broken" ELSE adapter[x].link
              /\ adapter[x].link # "open" => Codex!Cut[x] = adapter[x]
              /\ Codex!Cut[x].reads = adapter[x].reads /\ Codex!Cut[x].told = adapter[x].told
              /\ Codex!Cut[x].releases = adapter[x].releases /\ Codex!Cut[x].idle = adapter[x].idle
<1>1. ASSUME NEW x \in Codex!Adapters
      PROVE  LET s == [adapter[x] EXCEPT !.link = "broken"] IN
               /\ adapter[x] \in Knows
               /\ s \in Knows /\ s.link = "broken"
               /\ s.reads = adapter[x].reads /\ s.told = adapter[x].told
               /\ s.releases = adapter[x].releases /\ s.idle = adapter[x].idle
  BY WithLink DEF AdapterTypes
<1> QED BY <1>1 DEF Codex!Cut

\* What the adapters know once they heard of a turn.
LEMMA HeardDoes ==
  ASSUME AdapterTypes
  PROVE  /\ Codex!Heard \in [Codex!Adapters -> Knows]
         /\ \A x \in Codex!Adapters :
              /\ Alike(adapter[x], Codex!Heard[x]) /\ Codex!Heard[x].idle = adapter[x].idle
<1>1. ASSUME NEW x \in Codex!Adapters
      PROVE  LET b == adapter[x].moved \/ adapter[x].link = "open"
                 s == [adapter[x] EXCEPT !.moved = b] IN
               Alike(adapter[x], s) /\ s.idle = adapter[x].idle
  <2>1. adapter[x] \in Knows
    BY DEF AdapterTypes
  <2>2. (adapter[x].moved \/ adapter[x].link = "open") \in BOOLEAN
    OBVIOUS
  <2> QED BY <2>1, <2>2, WithMoved DEF Alike
<1> QED BY <1>1 DEF Codex!Heard, Alike

\* What a reconnect that is asked for does: a loop begins unless one runs.
LEMMA ScheduleDoes ==
  ASSUME TaskTypes, UNCHANGED <<made, installed>>,
         NEW t \in [Codex!Tasks -> [pc : Steps, a : 0..made]],
         \A l \in Codex!Loops : t[l] = tasks[l],
         Codex!Schedule(t)
  PROVE  /\ TaskTypes' /\ tasks'["first"] = t["first"]
         /\ \E l \in Codex!Loops : tasks'[l].pc # "off"
         /\ \A l \in Codex!Loops : tasks'[l] = tasks[l] \/ (NoLoop /\ tasks'[l].pc = "closing")
         /\ \A l, k \in Codex!Loops :
              NoLoop /\ tasks'[l].pc # "off" /\ tasks'[k].pc # "off" => l = k
<1>1. CASE inflight
  <2>1. tasks' = t /\ inflight' = inflight /\ \E l \in Codex!Loops : tasks[l].pc # "off"
    BY <1>1 DEF TaskTypes, Codex!Schedule
  <2>2. \E l \in Codex!Loops : tasks'[l].pc # "off"
    BY <2>1
  <2>3. ~NoLoop
    BY <2>1 DEF NoLoop
  <2>4. TaskTypes'
    BY <1>1, <2>1, <2>2 DEF TaskTypes
  <2> QED BY <2>1, <2>2, <2>3, <2>4
<1>2. CASE ~inflight
  <2>1. PICK l \in Codex!Loops : tasks' = [t EXCEPT ![l] = [pc |-> "closing", a |-> 0]]
    BY <1>2 DEF Codex!Schedule
  <2>2. inflight' = TRUE /\ NoLoop
    BY <1>2 DEF Codex!Schedule, TaskTypes, NoLoop
  <2>3. tasks' \in [Codex!Tasks -> [pc : Steps, a : 0..made]]
    BY <2>1 DEF TaskTypes
  <2>4. tasks'[l].pc = "closing" /\ \A x \in Codex!Tasks : x # l => tasks'[x] = t[x]
    BY <2>1
  <2>5. TaskTypes'
    BY <2>2, <2>3, <2>4 DEF TaskTypes
  <2>6. \A x \in Codex!Loops : x # l => tasks'[x].pc = "off" /\ tasks'[x] = tasks[x]
    BY <2>2, <2>4 DEF NoLoop
  <2> QED BY <2>2, <2>4, <2>5, <2>6
<1> QED BY <1>1, <1>2 DEF TaskTypes

\* What a lost adapter knows.
LEMMA LostDoes ==
  ASSUME AdapterTypes, TaskTypes, UNCHANGED <<made, installed>>, skipped \in BOOLEAN,
         NEW a \in Codex!Adapters, NEW left, Codex!Lost(a, left)
  PROVE  /\ AdapterTypes' /\ TaskTypes' /\ skipped' \in BOOLEAN
         /\ \A x \in Codex!Adapters : x # a => adapter'[x] = adapter[x]
         /\ adapter'[a].link = adapter[a].link /\ ~adapter'[a].reads
         /\ adapter'[a].releases = adapter[a].releases /\ adapter'[a].idle = adapter[a].idle
         /\ adapter'[a].told = (adapter[a].told \/ Codex!Tells(a))
<1>1. (adapter[a].told \/ Codex!Tells(a)) \in BOOLEAN
  OBVIOUS
<1> DEFINE r == [adapter[a] EXCEPT !.up = FALSE]
           s == [r EXCEPT !.reads = FALSE]
           u == [s EXCEPT !.told = adapter[a].told \/ Codex!Tells(a)]
<1>2. adapter[a] \in Knows
  BY DEF AdapterTypes
<1>3. r \in Knows /\ r.link = adapter[a].link /\ r.releases = adapter[a].releases
      /\ r.idle = adapter[a].idle
  BY <1>2, WithUp
<1>4. s \in Knows /\ s.link = adapter[a].link /\ s.releases = adapter[a].releases
      /\ s.idle = adapter[a].idle /\ ~s.reads
  <2> HIDE DEF r
  <2> QED BY <1>3, WithReads
<1>5. u \in Knows /\ u.link = adapter[a].link /\ u.releases = adapter[a].releases
      /\ u.idle = adapter[a].idle /\ ~u.reads /\ u.told = (adapter[a].told \/ Codex!Tells(a))
  <2> HIDE DEF s
  <2> QED BY <1>1, <1>4, WithTold
<1>6. adapter' = [adapter EXCEPT ![a] = u]
  BY <1>2 DEF Codex!Lost, AdapterTypes, Knows
<1>7. /\ AdapterTypes' /\ adapter'[a] = u
      /\ \A x \in Codex!Adapters : x # a => adapter'[x] = adapter[x]
  <2> HIDE DEF u
  <2> QED BY <1>5, <1>6, ChangedAt
<1>8. TaskTypes' /\ skipped' \in BOOLEAN
  <2>1. CASE Codex!Tells(a)
    BY <2>1, ScheduleDoes DEF Codex!Lost, TaskTypes
  <2>2. CASE ~Codex!Tells(a)
    BY <2>2 DEF Codex!Lost, TaskTypes
  <2> QED BY <2>1, <2>2
<1> HIDE DEF u
<1> QED BY <1>5, <1>7, <1>8

\* What a restart that failed leaves.
LEMMA RestartFailsDoes ==
  ASSUME AdapterTypes, TaskTypes, UNCHANGED <<made, installed>>,
         NEW a \in Codex!Adapters, Codex!RestartFails(a)
  PROVE  /\ AdapterTypes' /\ TaskTypes'
         /\ \A x \in Codex!Adapters : x # a => adapter'[x] = adapter[x]
         /\ adapter'[a].link = adapter[a].link /\ ~adapter'[a].reads
         /\ adapter'[a].releases = adapter[a].releases /\ adapter'[a].idle = "no"
         /\ adapter'[a].told
<1> DEFINE r == [adapter[a] EXCEPT !.up = FALSE]
           s == [r EXCEPT !.idle = "no"]
           u == [s EXCEPT !.reads = FALSE]
           w == [u EXCEPT !.told = TRUE]
<1>2. adapter[a] \in Knows
  BY DEF AdapterTypes
<1>3. r \in Knows /\ r.link = adapter[a].link /\ r.releases = adapter[a].releases
  BY <1>2, WithUp
<1>4. s \in Knows /\ s.link = adapter[a].link /\ s.releases = adapter[a].releases /\ s.idle = "no"
  <2> HIDE DEF r
  <2> QED BY <1>3, WithIdle DEF Phases
<1>5. u \in Knows /\ u.link = adapter[a].link /\ u.releases = adapter[a].releases
      /\ u.idle = "no" /\ ~u.reads
  <2> HIDE DEF s
  <2> QED BY <1>4, WithReads
<1>6. w \in Knows /\ w.link = adapter[a].link /\ w.releases = adapter[a].releases
      /\ w.idle = "no" /\ ~w.reads /\ w.told
  <2> HIDE DEF u
  <2> QED BY <1>5, WithTold
<1>7. adapter' = [adapter EXCEPT ![a] = w]
  BY <1>2 DEF Codex!RestartFails, AdapterTypes, Knows
<1>8. /\ AdapterTypes' /\ adapter'[a] = w
      /\ \A x \in Codex!Adapters : x # a => adapter'[x] = adapter[x]
  <2> HIDE DEF w
  <2> QED BY <1>6, <1>7, ChangedAt
<1>9. TaskTypes'
  <2>1. CASE ~adapter[a].told
    BY <2>1, ScheduleDoes DEF Codex!RestartFails, TaskTypes
  <2>2. CASE adapter[a].told
    BY <2>2 DEF Codex!RestartFails, TaskTypes
  <2> QED BY <2>1, <2>2
<1> HIDE DEF w
<1> QED BY <1>6, <1>8, <1>9


\* A step of this component that keeps its types keeps its invariant if it keeps the rest.
LEMMA KeepsConnection ==
  ASSUME ConnectionInv,
         AdapterTypes', TaskTypes', CallTypes', Placed', RestTypes',
         \A x \in Codex!Adapters : AdapterRight(x)',
         \A l \in Codex!Loops : LoopRight(l)',
         FirstRight', spoilt' \/ Alone'
  PROVE  ConnectionInv'
<1>1. Codex!TypeOK'
  BY TypesByPart, PTL
<1> QED BY <1>1 DEF ConnectionInv

\* The types that the invariant gives.
LEMMA ConnectionTypes ==
  ASSUME ConnectionInv
  PROVE  AdapterTypes /\ TaskTypes /\ CallTypes /\ Placed /\ RestTypes
BY TypesByPart DEF ConnectionInv

\* An adapter that stands as before.
StandsAsBefore(x) ==
  /\ Alike(adapter[x], adapter'[x])
  /\ \/ adapter'[x].idle = adapter[x].idle
     \/ /\ adapter[x].releases
        /\ {adapter[x].idle, adapter'[x].idle} \subseteq {"no", "wait", "check", "read"}

\* Calls and idle checks change no adapter's standing.
LEMMA StandingKeeps ==
  ASSUME ConnectionInv, AdapterTypes', CallTypes', Placed', RestTypes',
         UNCHANGED <<server, extra, made, installed, tasks, inflight, monitor, skipped, spoilt>>,
         \A x \in Codex!Adapters : StandsAsBefore(x)
  PROVE  ConnectionInv'
<1> USE ConnectionAssumption
<1>1. TaskTypes'
  BY ConnectionTypes DEF TaskTypes
<1>2. ASSUME NEW x \in Codex!Adapters
      PROVE  /\ adapter'[x].link = adapter[x].link /\ adapter'[x].reads = adapter[x].reads
             /\ adapter'[x].told = adapter[x].told /\ adapter'[x].releases = adapter[x].releases
             /\ Codex!Restarting(x)' <=> Codex!Restarting(x)
             /\ AdapterRight(x)'
  BY DEF StandsAsBefore, Alike, Codex!Restarting, ConnectionInv, AdapterRight
<1>3. made # 0 => made \in Codex!Adapters
  BY ConnectionTypes DEF TaskTypes
<1>4. ASSUME NEW l \in Codex!Loops
      PROVE  LoopRight(l)'
  BY <1>2, <1>3 DEF ConnectionInv, LoopRight, SettingUp
<1>5. FirstRight'
  BY <1>2, <1>3 DEF ConnectionInv, FirstRight, SettingUp, NoLoop
<1>6. spoilt' \/ Alone'
  BY <1>2 DEF ConnectionInv, Alone, Stands, Before
<1> QED BY <1>1, <1>2, <1>4, <1>5, <1>6, KeepsConnection

\* A lost adapter is told of to a loop that is to make the next, unless it is the one
\* that the loop is setting up.
LEMMA LossKeeps ==
  ASSUME ConnectionInv, CallTypes', Placed',
         NEW a \in Codex!Adapters, adapter[a].link = "broken", NEW left, Codex!Lost(a, left),
         UNCHANGED <<server, extra, running, made, installed, monitor, faults, spoilt>>
  PROVE  ConnectionInv'
<1> USE ConnectionAssumption, ConnectionTypes
<1>1. /\ AdapterTypes' /\ TaskTypes' /\ skipped' \in BOOLEAN
      /\ \A x \in Codex!Adapters : x # a => adapter'[x] = adapter[x]
      /\ adapter'[a].link = "broken" /\ ~adapter'[a].reads
      /\ adapter'[a].releases = adapter[a].releases /\ adapter'[a].idle = adapter[a].idle
      /\ adapter'[a].told = (adapter[a].told \/ Codex!Tells(a))
  BY LostDoes DEF RestTypes
<1>2. RestTypes'
  BY <1>1 DEF RestTypes
<1>3. ASSUME NEW x \in Codex!Adapters
      PROVE  AdapterRight(x)' /\ (Codex!Restarting(x)' <=> Codex!Restarting(x))
             /\ (Stands(x)' => Stands(x)) /\ (adapter'[x].reads => adapter[x].reads)
             /\ adapter'[x].link = adapter[x].link
  BY <1>1 DEF ConnectionInv, AdapterRight, Codex!Restarting, Codex!Tells, Stands
<1>4. made # 0 => made \in Codex!Adapters
  BY DEF TaskTypes
<1>5. a <= made /\ made # 0
  BY DEF ConnectionInv, AdapterRight, TaskTypes
<1>6. CASE Codex!Tells(a)
  <2>1. /\ tasks'["first"] = tasks["first"]
        /\ \E l \in Codex!Loops : tasks'[l].pc # "off"
        /\ \A l \in Codex!Loops : tasks'[l] = tasks[l] \/ (NoLoop /\ tasks'[l].pc = "closing")
        /\ \A l, k \in Codex!Loops :
             NoLoop /\ tasks'[l].pc # "off" /\ tasks'[k].pc # "off" => l = k
    BY <1>6, ScheduleDoes DEF Codex!Lost, TaskTypes
  <2>2. skipped' = (skipped \/ Codex!InSetup(a))
    BY <1>6 DEF Codex!Lost
  <2>3. ASSUME NEW l \in Codex!Loops
        PROVE  LoopRight(l)'
    <3>1. CASE NoLoop
      BY <3>1, <2>1 DEF LoopRight, SettingUp, NoLoop
    <3>2. CASE ~NoLoop
      BY <3>2, <2>1, <2>2, <1>1, <1>4 DEF ConnectionInv, LoopRight, SettingUp, Codex!InSetup
    <3> QED BY <3>1, <3>2
  <2>4. FirstRight'
    BY <2>1, <1>5 DEF ConnectionInv, FirstRight, SettingUp, NoLoop
  <2>5. ASSUME ~spoilt
        PROVE  Alone'
    <3>1. Alone
      BY <2>5 DEF ConnectionInv
    <3>2. Stands(a) /\ ~Codex!Restarting(a)
      BY <1>6, <1>5 DEF ConnectionInv, AdapterRight, Stands, Codex!Tells
    <3>3. \A x \in Codex!Adapters : adapter[x].link # "open" /\ ~Codex!Restarting(x)
      BY <3>1, <3>2 DEF Alone, Stands
    <3>4. ASSUME NEW l \in Codex!Loops
          PROVE  /\ tasks'[l].pc \in {"starting", "connect"} => \A x \in Codex!Adapters : ~adapter'[x].reads
                 /\ tasks'[l].pc = "starting" => server # "up"
      BY <2>1, <3>1, <1>3 DEF Alone
    <3> QED BY <3>1, <3>3, <3>4, <1>3 DEF Alone
  <2> QED BY <1>1, <1>2, <1>3, <2>3, <2>4, <2>5, KeepsConnection
<1>7. CASE ~Codex!Tells(a)
  <2>1. UNCHANGED <<tasks, skipped>>
    BY <1>7 DEF Codex!Lost
  <2>2. \A x \in Codex!Adapters :
          adapter'[x].told = adapter[x].told /\ adapter'[x].releases = adapter[x].releases
    <3>1. adapter[a].told \in BOOLEAN /\ adapter'[a].told \in BOOLEAN
      BY <1>1, ConnectionTypes DEF AdapterTypes, Knows
    <3>2. adapter'[a].told = adapter[a].told
      BY <1>1, <1>7, <3>1
    <3> QED BY <1>1, <3>2
  <2>3. ASSUME NEW l \in Codex!Loops
        PROVE  LoopRight(l)'
    BY <2>1, <2>2, <1>4 DEF ConnectionInv, LoopRight, SettingUp
  <2>4. FirstRight'
    BY <2>1, <2>2, <1>4 DEF ConnectionInv, FirstRight, SettingUp, NoLoop
  <2>5. spoilt' \/ Alone'
    BY <2>1, <1>3 DEF ConnectionInv, Alone, Before
  <2> QED BY <1>1, <1>2, <1>3, <2>3, <2>4, <2>5, KeepsConnection
<1> QED BY <1>6, <1>7

\* While an adapter restarts, unless a setup was spoilt, it is the program's and no loop runs.
LEMMA RestartIsAlone ==
  ASSUME ConnectionInv, NEW a \in Codex!Adapters, Codex!Restarting(a)
  PROVE  /\ a <= made /\ adapter[a].releases
         /\ \A l \in Codex!Loops : SettingUp(l) => tasks[l].a # a
         /\ spoilt \/ NoLoop
<1> USE ConnectionAssumption, ConnectionTypes
<1>1. adapter[a].releases /\ a <= made
  BY DEF ConnectionInv, AdapterRight, Codex!Restarting, TaskTypes
<1>2. \A l \in Codex!Loops : SettingUp(l) => tasks[l].a # a
  BY <1>1 DEF ConnectionInv, LoopRight
<1>3. ASSUME ~spoilt, NEW l \in Codex!Loops
      PROVE  tasks[l].pc = "off"
  <2>1. a = made /\ ~Before(l)
    BY <1>3 DEF ConnectionInv, Alone, Stands
  <2>2. ~SettingUp(l)
    BY <2>1, <1>2 DEF ConnectionInv, LoopRight
  <2> QED BY <2>1, <2>2 DEF Before, SettingUp, TaskTypes
<1> QED BY <1>1, <1>2, <1>3 DEF NoLoop

\* A restart that fails hands over to a loop.
LEMMA FailedRestartKeeps ==
  ASSUME ConnectionInv, NEW a \in Codex!Adapters, adapter[a].idle \in {"starting", "connect"},
         Codex!RestartFails(a), RestTypes',
         UNCHANGED <<server, extra, running, made, installed, monitor, call, skipped, spoilt>>
  PROVE  ConnectionInv'
<1> USE ConnectionAssumption, ConnectionTypes
<1>0. Codex!Restarting(a)
  BY DEF Codex!Restarting
<1>1. /\ AdapterTypes' /\ TaskTypes'
      /\ \A x \in Codex!Adapters : x # a => adapter'[x] = adapter[x]
      /\ adapter'[a].link = "broken" /\ ~adapter'[a].reads
      /\ adapter'[a].releases = adapter[a].releases /\ adapter'[a].idle = "no"
      /\ adapter'[a].told
  BY RestartFailsDoes DEF ConnectionInv, AdapterRight
<1>2. CallTypes' /\ Placed'
  BY DEF CallTypes, Placed
<1>3. ASSUME NEW x \in Codex!Adapters
      PROVE  /\ AdapterRight(x)' /\ (Codex!Restarting(x)' => Codex!Restarting(x))
             /\ (Stands(x)' => Stands(x) /\ x # a) /\ (adapter'[x].reads => adapter[x].reads)
             /\ (adapter'[x].link = "open" => adapter[x].link = "open")
  BY <1>0, <1>1, RestartIsAlone DEF ConnectionInv, AdapterRight, Codex!Restarting, Stands
<1>4. a <= made /\ made # 0 /\ made \in Codex!Adapters
  BY <1>0, RestartIsAlone DEF TaskTypes
<1>5. \A l \in Codex!Loops : SettingUp(l) => made # a
  BY <1>0, RestartIsAlone DEF ConnectionInv, LoopRight
<1>6. CASE ~adapter[a].told
  <2>1. /\ tasks'["first"] = tasks["first"]
        /\ \E l \in Codex!Loops : tasks'[l].pc # "off"
        /\ \A l \in Codex!Loops : tasks'[l] = tasks[l] \/ (NoLoop /\ tasks'[l].pc = "closing")
        /\ \A l, k \in Codex!Loops :
             NoLoop /\ tasks'[l].pc # "off" /\ tasks'[k].pc # "off" => l = k
    BY <1>6, ScheduleDoes DEF Codex!RestartFails, TaskTypes
  <2>2. ASSUME NEW l \in Codex!Loops
        PROVE  LoopRight(l)'
    <3>1. CASE NoLoop
      BY <3>1, <2>1 DEF LoopRight, SettingUp, NoLoop
    <3>2. CASE ~NoLoop
      BY <3>2, <2>1, <1>1, <1>4, <1>5 DEF ConnectionInv, LoopRight, SettingUp
    <3> QED BY <3>1, <3>2
  <2>3. FirstRight'
    BY <2>1, <1>4 DEF ConnectionInv, FirstRight, SettingUp, NoLoop
  <2>4. ASSUME ~spoilt
        PROVE  Alone'
    <3>1. Alone /\ NoLoop
      BY <2>4, <1>0, RestartIsAlone DEF ConnectionInv
    <3>2. ASSUME NEW x \in Codex!Adapters
          PROVE  ~Stands(x)'
      BY <3>1, <1>0, <1>3 DEF Alone, Stands
    <3>3. ASSUME NEW l \in Codex!Loops
          PROVE  tasks'[l].pc \in {"off", "closing"}
      BY <3>1, <2>1 DEF NoLoop
    <3> QED BY <3>1, <3>2, <3>3 DEF Alone, Stands
  <2> QED BY <1>1, <1>2, <1>3, <2>2, <2>3, <2>4, KeepsConnection
<1>7. CASE adapter[a].told
  <2>1. UNCHANGED tasks
    BY <1>7 DEF Codex!RestartFails
  <2>2. \A x \in Codex!Adapters :
          adapter'[x].told = adapter[x].told /\ adapter'[x].releases = adapter[x].releases
    <3>1. adapter[a].told \in BOOLEAN /\ adapter'[a].told \in BOOLEAN
      BY <1>1, ConnectionTypes DEF AdapterTypes, Knows
    <3>2. adapter'[a].told = adapter[a].told
      BY <1>1, <1>7, <3>1
    <3> QED BY <1>1, <3>2
  <2>3. ASSUME NEW l \in Codex!Loops
        PROVE  LoopRight(l)'
    BY <2>1, <2>2, <1>4 DEF ConnectionInv, LoopRight, SettingUp
  <2>4. FirstRight'
    BY <2>1, <2>2, <1>4 DEF ConnectionInv, FirstRight, SettingUp, NoLoop
  <2>5. spoilt' \/ Alone'
    BY <2>1, <1>3 DEF ConnectionInv, Alone, Before
  <2> QED BY <1>1, <1>2, <1>3, <2>3, <2>4, <2>5, KeepsConnection
<1> QED BY <1>6, <1>7


\* A turn ends: the waits begin anew.
LEMMA TurnEndsKeeps ==
  ASSUME ConnectionInv, Codex!TurnEnds
  PROVE  ConnectionInv'
<1> USE ConnectionAssumption, ConnectionTypes
<1>1. ASSUME NEW x \in Codex!Adapters
      PROVE  LET s == [Codex!Heard[x] EXCEPT !.idle = "wait"] IN
               Alike(adapter[x], s) /\ s.idle = "wait"
  <2>1. Codex!Heard[x] \in Knows /\ Alike(adapter[x], Codex!Heard[x])
    BY HeardDoes
  <2> DEFINE h == Codex!Heard[x]
  <2>2. h \in Knows /\ Alike(adapter[x], h)
    BY <2>1
  <2> HIDE DEF h
  <2>3. Alike(adapter[x], [h EXCEPT !.idle = "wait"]) /\ [h EXCEPT !.idle = "wait"].idle = "wait"
    BY <2>2, WithIdle DEF Alike, Phases
  <2> QED BY <2>3 DEF h
<1>2. ASSUME NEW x \in Codex!Adapters
      PROVE  adapter'[x] \in Knows /\ StandsAsBefore(x)
  <2>1. CASE Codex!Waits(x)
    <3>1. adapter'[x] = [Codex!Heard[x] EXCEPT !.idle = "wait"]
      BY <2>1 DEF Codex!TurnEnds
    <3>2. Alike(adapter[x], adapter'[x]) /\ adapter'[x].idle = "wait"
      BY <1>1, <3>1
    <3>3. adapter[x].releases /\ adapter[x].idle \in {"no", "wait", "check", "read"}
      BY <2>1 DEF Codex!Waits, Codex!Restarting, AdapterTypes, Knows, Phases
    <3> QED BY <3>2, <3>3 DEF StandsAsBefore, Alike
  <2>2. CASE ~Codex!Waits(x)
    <3>1. adapter'[x] = Codex!Heard[x]
      BY <2>2 DEF Codex!TurnEnds
    <3> QED BY <3>1, HeardDoes DEF StandsAsBefore, Alike
  <2> QED BY <2>1, <2>2
<1>3. AdapterTypes'
  BY <1>2 DEF AdapterTypes, Codex!TurnEnds
<1>4. CallTypes' /\ Placed' /\ RestTypes'
  BY DEF Codex!TurnEnds, CallTypes, Placed, RestTypes
<1> QED BY <1>2, <1>3, <1>4, StandingKeeps DEF Codex!TurnEnds

\* An answer: each adapter hears of the turn.
LEMMA AnswersKeeps ==
  ASSUME ConnectionInv, NEW c \in Calls, Codex!Answers(c)
  PROVE  ConnectionInv'
<1> USE ConnectionAssumption, ConnectionTypes
<1>1. AdapterTypes' /\ \A x \in Codex!Adapters : StandsAsBefore(x)
  BY HeardDoes DEF Codex!Answers, AdapterTypes, StandsAsBefore
<1>2. CallTypes' /\ Placed' /\ RestTypes'
  BY DEF Codex!Answers, CallTypes, Placed, RestTypes
<1> QED BY <1>1, <1>2, StandingKeeps DEF Codex!Answers

\* A caller gives up or its call times out.
LEMMA CallEndsKeeps ==
  ASSUME ConnectionInv, NEW c \in Calls, Codex!GivesUp(c) \/ Codex!TimesOut(c)
  PROVE  ConnectionInv'
<1> USE ConnectionAssumption, ConnectionTypes
<1>1. UNCHANGED <<server, extra, adapter, made, installed, tasks, inflight, monitor, skipped, spoilt>>
  BY DEF Codex!GivesUp, Codex!TimesOut
<1>2. AdapterTypes' /\ \A x \in Codex!Adapters : StandsAsBefore(x)
  BY <1>1 DEF AdapterTypes, StandsAsBefore, Alike
<1>3. CallTypes' /\ Placed'
  BY DEF Codex!GivesUp, Codex!TimesOut, CallTypes, Placed
<1>4. RestTypes'
  BY DEF Codex!GivesUp, Codex!TimesOut, RestTypes, Codex!Fault
<1> QED BY <1>1, <1>2, <1>3, <1>4, StandingKeeps

\* A call is sent, and finds a link that is broken.
LEMMA SendsKeeps ==
  ASSUME ConnectionInv, NEW c \in Calls, NEW a \in Codex!Adapters, a <= made, Codex!Sends(c, a),
         UNCHANGED <<server, extra, running, made, installed, monitor, faults, spoilt>>
  PROVE  ConnectionInv'
<1> USE ConnectionAssumption, ConnectionTypes
<1>0. a \in 0..made /\ call \in [Calls -> [pc : CallSteps, a : 0..made]]
  BY DEF CallTypes, TaskTypes
<1>1. CASE adapter[a].link = "open"
  <2> DEFINE s == [adapter[a] EXCEPT !.moved = TRUE]
  <2>a. s \in Knows /\ Alike(adapter[a], s) /\ s.idle = adapter[a].idle
    BY WithMoved DEF AdapterTypes, Alike
  <2>b. adapter' = [adapter EXCEPT ![a] = s]
    BY <1>1 DEF Codex!Sends, Codex!Moves
  <2> HIDE DEF s
  <2>1. AdapterTypes' /\ adapter'[a] = s /\ \A x \in Codex!Adapters : x # a => adapter'[x] = adapter[x]
    BY <2>a, <2>b, ChangedAt
  <2>2. ASSUME NEW x \in Codex!Adapters
        PROVE  StandsAsBefore(x)
    <3>1. CASE x = a
      BY <3>1, <2>a, <2>1 DEF StandsAsBefore
    <3>2. CASE x # a
      BY <3>2, <2>1 DEF AdapterTypes, StandsAsBefore, Alike
    <3> QED BY <3>1, <3>2
  <2>3. CallTypes' /\ Placed' /\ RestTypes'
    BY <1>1, <1>0, ConnectionTypes DEF Codex!Sends, CallTypes, Placed, RestTypes
  <2>4. UNCHANGED <<tasks, inflight, skipped>>
    BY <1>1 DEF Codex!Sends
  <2> QED BY <2>1, <2>2, <2>3, <2>4, StandingKeeps
<1>2. CASE adapter[a].link # "open"
  <2>1. adapter[a].link = "broken"
    BY <1>2 DEF ConnectionInv, AdapterRight, AdapterTypes, Knows
  <2> DEFINE left == [Codex!Failed(a) EXCEPT ![c] = [pc |-> "failed", a |-> a]]
  <2>2. Codex!Lost(a, left) /\ call' = left
    BY <1>2 DEF Codex!Sends, Codex!Lost
  <2>3. Codex!Failed(a) \in [Calls -> [pc : CallSteps, a : 0..made]]
    BY <1>0 DEF Codex!Failed
  <2>4. CallTypes' /\ Placed'
    <3>1. \A d \in Calls : Codex!Failed(a)[d].pc = "held" => Codex!Failed(a)[d].a # 0
      BY <1>0 DEF Codex!Failed, Placed
    <3> QED BY <1>0, <2>2, <2>3, <3>1 DEF CallTypes, Placed
  <2> HIDE DEF left
  <2> QED BY <2>1, <2>2, <2>4, LossKeeps
<1> QED BY <1>1, <1>2

\* A call on the program's adapter, and one that was held.
LEMMA CallsKeeps ==
  ASSUME ConnectionInv, NEW c \in Calls, Codex!Calls_(c) \/ Codex!HeldGoes(c)
  PROVE  ConnectionInv'
<1> USE ConnectionAssumption, ConnectionTypes
<1>1. CASE Codex!Calls_(c)
  <2>1. installed \in Codex!Adapters /\ installed <= made
    BY <1>1 DEF Codex!Calls_, Codex!Connected, TaskTypes
  <2>2. CASE Codex!Restarting(installed)
    <3>1. UNCHANGED <<server, extra, adapter, made, installed, tasks, inflight, monitor, skipped, spoilt>>
      BY <1>1, <2>2 DEF Codex!Calls_
    <3>2. AdapterTypes' /\ \A x \in Codex!Adapters : StandsAsBefore(x)
      BY <3>1 DEF AdapterTypes, StandsAsBefore, Alike
    <3>3. CallTypes' /\ Placed' /\ RestTypes'
      BY <1>1, <2>1, <2>2 DEF Codex!Calls_, CallTypes, Placed, RestTypes, TaskTypes
    <3> QED BY <3>1, <3>2, <3>3, StandingKeeps
  <2>3. CASE ~Codex!Restarting(installed)
    BY <1>1, <2>1, <2>3, SendsKeeps DEF Codex!Calls_
  <2> QED BY <2>2, <2>3
<1>2. CASE Codex!HeldGoes(c)
  <2>1. CASE adapter[call[c].a].up /\ call[c].a # 0
    <3>1. call[c].a \in Codex!Adapters /\ call[c].a <= made
      BY <2>1 DEF CallTypes, TaskTypes
    <3> QED BY <1>2, <2>1, <3>1, SendsKeeps DEF Codex!HeldGoes
  <2>2. CASE ~adapter[call[c].a].up
    <3>1. UNCHANGED <<server, extra, adapter, made, installed, tasks, inflight, monitor, skipped, spoilt>>
      BY <1>2, <2>2 DEF Codex!HeldGoes
    <3>2. AdapterTypes' /\ \A x \in Codex!Adapters : StandsAsBefore(x)
      BY <3>1 DEF AdapterTypes, StandsAsBefore, Alike
    <3>3. CallTypes' /\ Placed' /\ RestTypes'
      BY <1>2, <2>2 DEF Codex!HeldGoes, CallTypes, Placed, RestTypes
    <3> QED BY <3>1, <3>2, <3>3, StandingKeeps
  <2>3. call[c].a # 0
    BY <1>2 DEF Placed, Codex!HeldGoes
  <2> QED BY <2>1, <2>2, <2>3
<1> QED BY <1>1, <1>2

\* A reader finds its link closed.
LEMMA ReaderEndsKeeps ==
  ASSUME ConnectionInv, NEW a \in Codex!Adapters, Codex!ReaderEnds(a)
  PROVE  ConnectionInv'
<1> USE ConnectionAssumption, ConnectionTypes
<1>1. Codex!Lost(a, Codex!Failed(a)) /\ call' = Codex!Failed(a)
  BY DEF Codex!ReaderEnds, Codex!Lost
<1>2. CallTypes' /\ Placed'
  BY <1>1 DEF CallTypes, Placed, Codex!Failed, Codex!ReaderEnds
<1> QED BY <1>1, <1>2, LossKeeps DEF Codex!ReaderEnds

\* A check that comes to its end leaves the connection or asks the server to leave.
LEMMA ReleasesTo ==
  ASSUME NEW a \in Codex!Adapters, Codex!Releases(a)
  PROVE  \E p \in {"no", "wait", "hup"} :
           adapter' = [adapter EXCEPT ![a].idle = p] /\ (p = "hup" => Codex!Standing(a))
<1>1. CASE ~Codex!Standing(a)
  <2>1. adapter' = [adapter EXCEPT ![a].idle = "no"]
    BY <1>1 DEF Codex!Releases, Codex!Idle
  <2> QED BY <1>1, <2>1
<1>2. CASE Codex!Standing(a) /\ adapter[a].moved
  <2>1. adapter' = [adapter EXCEPT ![a].idle = "wait"]
    BY <1>2 DEF Codex!Releases, Codex!Idle
  <2> QED BY <1>2, <2>1
<1>3. CASE Codex!Standing(a) /\ ~adapter[a].moved /\ Codex!Pending(a)
  <2>1. adapter' = [adapter EXCEPT ![a].idle = "no"]
    BY <1>3 DEF Codex!Releases, Codex!Idle
  <2> QED BY <1>3, <2>1
<1>4. CASE Codex!Standing(a) /\ ~adapter[a].moved /\ ~Codex!Pending(a)
  <2>1. adapter' = [adapter EXCEPT ![a].idle = "hup"]
    BY <1>4 DEF Codex!Releases, Codex!Idle
  <2> QED BY <1>4, <2>1
<1> QED BY <1>1, <1>2, <1>3, <1>4

\* The steps of an idle check before the server is told to leave.
LEMMA ChecksKeep ==
  ASSUME ConnectionInv, NEW a \in Codex!Adapters,
         \/ Codex!Checks(a) \/ Codex!ReadsStatus(a)
         \/ Codex!Releases(a) /\ adapter'[a].idle # "hup"
  PROVE  ConnectionInv'
<1> USE ConnectionAssumption, ConnectionTypes
<1>1. UNCHANGED <<server, extra, running, made, installed, tasks, inflight, monitor, call, faults,
                  skipped, spoilt>>
  BY DEF Codex!Checks, Codex!ReadsStatus, Codex!Releases, Codex!Unchecked
<1>2. adapter[a] \in Knows /\ adapter[a].idle \in {"wait", "check", "read"}
  BY DEF Codex!Checks, Codex!ReadsStatus, Codex!Releases, AdapterTypes
<1>3. adapter[a].releases
  BY <1>2 DEF ConnectionInv, AdapterRight
<1>4. /\ AdapterTypes' /\ Alike(adapter[a], adapter'[a])
      /\ adapter'[a].idle \in {"no", "wait", "check", "read"}
      /\ \A x \in Codex!Adapters : x # a => adapter'[x] = adapter[x]
  <2> DEFINE m == [adapter[a] EXCEPT !.moved = FALSE]
             s(p) == [adapter[a] EXCEPT !.idle = p]
             u == [m EXCEPT !.idle = "check"]
  <2>1. m \in Knows /\ Alike(adapter[a], m)
    BY <1>2, WithMoved DEF Alike
  <2>2. u \in Knows /\ Alike(adapter[a], u) /\ u.idle = "check"
    <3> HIDE DEF m
    <3> QED BY <2>1, WithIdle DEF Alike, Phases
  <2>3. ASSUME NEW p \in {"no", "wait", "read"}
        PROVE  s(p) \in Knows /\ Alike(adapter[a], s(p)) /\ s(p).idle = p
    <3>1. p \in Phases
      BY DEF Phases
    <3>2. /\ [adapter[a] EXCEPT !.idle = p] \in Knows
          /\ Alike(adapter[a], [adapter[a] EXCEPT !.idle = p])
          /\ [adapter[a] EXCEPT !.idle = p].idle = p
      BY <1>2, <3>1, WithIdle DEF Alike
    <3> QED BY <3>2
  <2>4. \/ adapter' = [adapter EXCEPT ![a] = u]
        \/ \E p \in {"no", "wait", "read"} : adapter' = [adapter EXCEPT ![a] = s(p)]
    <3>1. CASE Codex!Checks(a)
      BY <1>2, <3>1 DEF Codex!Checks, Codex!Idle, AdapterTypes
    <3>2. CASE Codex!ReadsStatus(a)
      BY <3>2 DEF Codex!ReadsStatus, Codex!Idle
    <3>3. CASE Codex!Releases(a) /\ adapter'[a].idle # "hup"
      <4>1. PICK p \in {"no", "wait", "hup"} : adapter' = [adapter EXCEPT ![a].idle = p]
        BY <3>3, ReleasesTo
      <4>2. p # "hup"
        BY <4>1, <3>3, <1>2 DEF AdapterTypes, Knows
      <4> QED BY <4>1, <4>2
    <3> QED BY <3>1, <3>2, <3>3
  <2> HIDE DEF u, s
  <2> QED BY <2>2, <2>3, <2>4, ChangedAt DEF AdapterTypes
<1>5. \A x \in Codex!Adapters : StandsAsBefore(x)
  BY <1>2, <1>3, <1>4 DEF StandsAsBefore, Alike, AdapterTypes
<1>6. CallTypes' /\ Placed' /\ RestTypes'
  BY <1>1 DEF CallTypes, Placed, RestTypes
<1> QED BY <1>1, <1>4, <1>5, <1>6, StandingKeeps


\* The server is told to leave: the only connection is the one that asks.
LEMMA ReleaseKeeps ==
  ASSUME ConnectionInv, NEW a \in Codex!Adapters, Codex!Releases(a), adapter'[a].idle = "hup"
  PROVE  ConnectionInv'
<1> USE ConnectionAssumption, ConnectionTypes
<1>1. UNCHANGED <<server, extra, running, made, installed, tasks, inflight, monitor, call, faults,
                  skipped, spoilt>>
  BY DEF Codex!Releases, Codex!Unchecked
<1>2. adapter[a] \in Knows /\ adapter[a].idle = "read"
  BY DEF Codex!Releases, AdapterTypes
<1>3. adapter[a].releases
  BY <1>2 DEF ConnectionInv, AdapterRight
<1> DEFINE s == [adapter[a] EXCEPT !.idle = "hup"]
<1>4. s \in Knows /\ Alike(adapter[a], s) /\ s.idle = "hup"
  BY <1>2, WithIdle DEF Alike, Phases
<1>5. Codex!Standing(a) /\ adapter' = [adapter EXCEPT ![a] = s]
  <2>1. PICK p \in {"no", "wait", "hup"} :
          adapter' = [adapter EXCEPT ![a].idle = p] /\ (p = "hup" => Codex!Standing(a))
    BY ReleasesTo
  <2>2. p = "hup"
    BY <2>1, <1>2 DEF AdapterTypes, Knows
  <2> QED BY <2>1, <2>2
<1>6. /\ AdapterTypes' /\ Alike(adapter[a], adapter'[a]) /\ adapter'[a].idle = "hup"
      /\ \A x \in Codex!Adapters : x # a => adapter'[x] = adapter[x]
  <2> HIDE DEF s
  <2> QED BY <1>4, <1>5, ChangedAt
<1>7. adapter[a].link = "open"
  BY <1>5 DEF Codex!Standing
<1>8. ASSUME NEW x \in Codex!Adapters
      PROVE  /\ AdapterRight(x)' /\ (Stands(x)' => Stands(x))
             /\ adapter'[x].told = adapter[x].told /\ adapter'[x].releases = adapter[x].releases
             /\ adapter'[x].link = adapter[x].link /\ adapter'[x].reads = adapter[x].reads
             /\ (x # a => (Codex!Restarting(x)' <=> Codex!Restarting(x)))
  BY <1>1, <1>3, <1>6, <1>7 DEF ConnectionInv, AdapterRight, Codex!Restarting, Stands, Alike
<1>9. made # 0 => made \in Codex!Adapters
  BY DEF TaskTypes
<1>10. ASSUME NEW l \in Codex!Loops
       PROVE  LoopRight(l)'
  BY <1>1, <1>8, <1>9 DEF ConnectionInv, LoopRight, SettingUp
<1>11. FirstRight'
  BY <1>1, <1>8, <1>9 DEF ConnectionInv, FirstRight, SettingUp, NoLoop
<1>12. ASSUME ~spoilt
       PROVE  Alone'
  <2>1. Alone
    BY <1>12 DEF ConnectionInv
  <2>2. \A l \in Codex!Loops : ~Before(l)
    BY <2>1, <1>7 DEF Alone
  <2>3. \A l \in Codex!Loops : tasks'[l].pc \notin {"starting", "connect"} /\ ~Before(l)'
    BY <1>1, <2>2 DEF Before
  <2> QED BY <1>1, <1>8, <2>1, <2>3 DEF Alone
<1>13. TaskTypes' /\ CallTypes' /\ Placed' /\ RestTypes'
  BY <1>1 DEF TaskTypes, CallTypes, Placed, RestTypes
<1> QED BY <1>1, <1>6, <1>8, <1>10, <1>11, <1>12, <1>13, KeepsConnection

\* Links break, all at once when the server is gone.
LEMMA BreaksKeep ==
  ASSUME ConnectionInv, AdapterTypes', RestTypes',
         UNCHANGED <<extra, made, installed, tasks, inflight, monitor, call, skipped, spoilt>>,
         server' = server \/ server' # "up",
         \A x \in Codex!Adapters :
           /\ adapter'[x].link \in {adapter[x].link, "broken"}
           /\ adapter'[x].link = "open" => server' = "up"
           /\ x > made => adapter'[x] = adapter[x]
           /\ adapter'[x].reads = adapter[x].reads /\ adapter'[x].told = adapter[x].told
           /\ adapter'[x].releases = adapter[x].releases
           /\ \/ adapter'[x].idle = adapter[x].idle
              \/ /\ adapter[x].idle = "hup" /\ adapter'[x].idle = "starting"
                 /\ adapter'[x].link # "open"
  PROVE  ConnectionInv'
<1> USE ConnectionAssumption, ConnectionTypes
<1>1. ASSUME NEW x \in Codex!Adapters
      PROVE  /\ AdapterRight(x)' /\ (Codex!Restarting(x)' <=> Codex!Restarting(x))
             /\ (adapter'[x].link = "open" => adapter[x].link = "open")
             /\ (Stands(x)' => Stands(x))
  <2>1. Codex!Restarting(x)' <=> Codex!Restarting(x)
    BY DEF Codex!Restarting
  <2>2. adapter[x].link \in {"none", "open", "broken"} /\ adapter'[x].link \in {"none", "open", "broken"}
    BY DEF AdapterTypes, Knows
  <2>3. AdapterRight(x)'
    BY <2>1, <2>2 DEF ConnectionInv, AdapterRight, TaskTypes
  <2> QED BY <2>1, <2>2, <2>3 DEF Stands
<1>2. made # 0 => made \in Codex!Adapters
  BY DEF TaskTypes
<1>3. ASSUME NEW l \in Codex!Loops
      PROVE  LoopRight(l)'
  BY <1>2 DEF ConnectionInv, LoopRight, SettingUp
<1>4. FirstRight'
  BY <1>2 DEF ConnectionInv, FirstRight, SettingUp, NoLoop
<1>5. spoilt' \/ Alone'
  BY <1>1 DEF ConnectionInv, Alone, Before
<1>6. TaskTypes' /\ CallTypes' /\ Placed'
  BY DEF TaskTypes, CallTypes, Placed
<1> QED BY <1>1, <1>3, <1>4, <1>5, <1>6, KeepsConnection

\* The server dies, or a link breaks.
LEMMA DeathKeeps ==
  ASSUME ConnectionInv, Codex!ServerDies \/ \E a \in Codex!Adapters : Codex!LinkBreaks(a)
  PROVE  ConnectionInv'
<1> USE ConnectionAssumption, ConnectionTypes
<1>1. CASE Codex!ServerDies
  <2>1. server' = "dead" /\ adapter' = Codex!Cut
    BY <1>1 DEF Codex!ServerDies
  <2>2. RestTypes'
    <3>1. faults' \in 0..MaxFaults
      BY <1>1 DEF Codex!ServerDies, Codex!Fault, RestTypes
    <3>2. UNCHANGED <<extra, monitor, skipped, spoilt>> /\ running' = FALSE
      BY <1>1 DEF Codex!ServerDies
    <3> QED BY <2>1, <3>1, <3>2 DEF RestTypes
  <2>3. ASSUME NEW x \in Codex!Adapters
        PROVE  /\ adapter'[x].link \in {adapter[x].link, "broken"} /\ adapter'[x].link # "open"
               /\ x > made => adapter'[x] = adapter[x]
               /\ adapter'[x].reads = adapter[x].reads /\ adapter'[x].told = adapter[x].told
               /\ adapter'[x].releases = adapter[x].releases /\ adapter'[x].idle = adapter[x].idle
    <3>1. x > made => adapter[x].link # "open"
      BY DEF ConnectionInv, AdapterRight, TaskTypes
    <3> QED BY <2>1, <3>1, CutDoes
  <2>4. AdapterTypes'
    BY <2>1, CutDoes DEF AdapterTypes
  <2> QED BY <1>1, <2>1, <2>2, <2>3, <2>4, BreaksKeep DEF Codex!ServerDies
<1>2. ASSUME NEW a \in Codex!Adapters, Codex!LinkBreaks(a)
      PROVE  ConnectionInv'
  <2> DEFINE s == [adapter[a] EXCEPT !.link = "broken"]
  <2>1. /\ s \in Knows /\ s.link = "broken"
        /\ s.reads = adapter[a].reads /\ s.told = adapter[a].told
        /\ s.releases = adapter[a].releases /\ s.idle = adapter[a].idle
    BY WithLink DEF AdapterTypes
  <2>2. adapter' = [adapter EXCEPT ![a] = s]
    BY <1>2 DEF Codex!LinkBreaks
  <2> HIDE DEF s
  <2>3. AdapterTypes' /\ adapter'[a] = s /\ \A x \in Codex!Adapters : x # a => adapter'[x] = adapter[x]
    BY <2>1, <2>2, ChangedAt
  <2>4. RestTypes'
    BY <1>2 DEF Codex!LinkBreaks, Codex!Fault, RestTypes
  <2>5. a <= made
    BY <1>2 DEF Codex!LinkBreaks, ConnectionInv, AdapterRight
  <2>6. ASSUME NEW x \in Codex!Adapters
        PROVE  /\ adapter'[x].link \in {adapter[x].link, "broken"}
               /\ adapter'[x].link = "open" => server = "up"
               /\ x > made => adapter'[x] = adapter[x]
               /\ adapter'[x].reads = adapter[x].reads /\ adapter'[x].told = adapter[x].told
               /\ adapter'[x].releases = adapter[x].releases /\ adapter'[x].idle = adapter[x].idle
    BY <2>1, <2>3, <2>5 DEF ConnectionInv, AdapterRight, TaskTypes
  <2> QED BY <1>2, <2>3, <2>4, <2>6, BreaksKeep DEF Codex!LinkBreaks
<1> QED BY <1>1, <1>2

\* The server drains its turns and leaves.
LEMMA LeavesKeeps ==
  ASSUME ConnectionInv, NEW a \in Codex!Adapters, Codex!ServerLeaves(a)
  PROVE  ConnectionInv'
<1> USE ConnectionAssumption, ConnectionTypes
<1>1. adapter[a].idle = "hup" /\ UNCHANGED <<extra, running, made, installed, tasks, inflight, monitor, call,
                                           faults, skipped, spoilt>>
  BY DEF Codex!ServerLeaves, Codex!Unchecked
<1>a. a <= made
  BY <1>1, RestartIsAlone DEF Codex!Restarting
<1>2. CASE server = "up" /\ server' = "dead" /\ adapter' = [Codex!Cut EXCEPT ![a].idle = "starting"]
  <2> DEFINE c == Codex!Cut[a]
             s == [c EXCEPT !.idle = "starting"]
  <2>1. c \in Knows
    BY CutDoes
  <2>2. s \in Knows /\ Alike(c, s) /\ s.idle = "starting"
    <3> HIDE DEF c
    <3> QED BY <2>1, WithIdle DEF Alike, Phases
  <2>3. adapter' = [Codex!Cut EXCEPT ![a] = s]
    BY <1>2
  <2> HIDE DEF s
  <2>4. AdapterTypes' /\ adapter'[a] = s /\ \A x \in Codex!Adapters : x # a => adapter'[x] = Codex!Cut[x]
    BY <2>2, <2>3, CutDoes DEF AdapterTypes
  <2>5. RestTypes'
    BY <1>1, <1>2 DEF RestTypes
  <2>6. ASSUME NEW x \in Codex!Adapters
        PROVE  /\ adapter'[x].link \in {adapter[x].link, "broken"} /\ adapter'[x].link # "open"
               /\ x > made => adapter'[x] = adapter[x]
               /\ adapter'[x].reads = adapter[x].reads /\ adapter'[x].told = adapter[x].told
               /\ adapter'[x].releases = adapter[x].releases
               /\ (adapter'[x].idle = adapter[x].idle \/ (x = a /\ adapter'[x].idle = "starting"))
    <3>1. x > made => adapter[x].link # "open" /\ x # a
      BY <1>a DEF ConnectionInv, AdapterRight, TaskTypes
    <3>2. CASE x # a
      BY <2>4, <3>1, <3>2, CutDoes
    <3>3. CASE x = a
      BY <2>2, <2>4, <3>1, <3>3, CutDoes DEF Alike
    <3> QED BY <3>2, <3>3
  <2> QED BY <1>1, <1>2, <2>4, <2>5, <2>6, BreaksKeep
<1>3. CASE server # "up" /\ Codex!Idle(a, "starting") /\ UNCHANGED server
  <2> DEFINE s == [adapter[a] EXCEPT !.idle = "starting"]
  <2>1. s \in Knows /\ Alike(adapter[a], s) /\ s.idle = "starting"
    BY WithIdle DEF AdapterTypes, Alike, Phases
  <2>2. adapter' = [adapter EXCEPT ![a] = s]
    BY <1>3 DEF Codex!Idle
  <2> HIDE DEF s
  <2>3. AdapterTypes' /\ adapter'[a] = s /\ \A x \in Codex!Adapters : x # a => adapter'[x] = adapter[x]
    BY <2>1, <2>2, ChangedAt
  <2>4. RestTypes'
    BY <1>1, <1>3 DEF RestTypes
  <2>5. ASSUME NEW x \in Codex!Adapters
        PROVE  /\ adapter'[x].link = adapter[x].link /\ adapter'[x].link # "open"
               /\ x > made => adapter'[x] = adapter[x]
               /\ adapter'[x].reads = adapter[x].reads /\ adapter'[x].told = adapter[x].told
               /\ adapter'[x].releases = adapter[x].releases
               /\ (adapter'[x].idle = adapter[x].idle \/ (x = a /\ adapter'[x].idle = "starting"))
    BY <1>3, <1>a, <2>1, <2>3 DEF ConnectionInv, AdapterRight, TaskTypes, Alike
  <2> QED BY <1>1, <1>3, <2>3, <2>4, <2>5, BreaksKeep
<1> QED BY <1>2, <1>3 DEF Codex!ServerLeaves

\* The restart starts the server again, unless it runs; or it fails.
LEMMA RestartsKeeps ==
  ASSUME ConnectionInv, NEW a \in Codex!Adapters, Codex!Restarts(a)
  PROVE  ConnectionInv'
<1> USE ConnectionAssumption, ConnectionTypes
<1>0. adapter[a].idle = "starting" /\ UNCHANGED <<running, made, installed, monitor, call, skipped, spoilt>>
  BY DEF Codex!Restarts
<1>1. CASE Codex!Fault /\ Codex!RestartFails(a) /\ UNCHANGED <<server, extra>>
  <2>1. RestTypes'
    BY <1>0, <1>1 DEF RestTypes, Codex!Fault
  <2> QED BY <1>0, <1>1, <2>1, FailedRestartKeeps
<1>2. CASE /\ server' = "up" /\ extra' = extra
           /\ Codex!NoFault /\ Codex!Idle(a, "connect") /\ UNCHANGED <<tasks, inflight>>
  <2> DEFINE s == [adapter[a] EXCEPT !.idle = "connect"]
  <2>1. s \in Knows /\ Alike(adapter[a], s) /\ s.idle = "connect"
    BY WithIdle DEF AdapterTypes, Alike, Phases
  <2>2. adapter' = [adapter EXCEPT ![a] = s]
    BY <1>2 DEF Codex!Idle
  <2> HIDE DEF s
  <2>3. AdapterTypes' /\ adapter'[a] = s /\ \A x \in Codex!Adapters : x # a => adapter'[x] = adapter[x]
    BY <2>1, <2>2, ChangedAt
  <2>4. RestTypes' /\ TaskTypes' /\ CallTypes' /\ Placed'
    BY <1>0, <1>2 DEF RestTypes, TaskTypes, CallTypes, Placed, Codex!NoFault
  <2>5. ASSUME NEW x \in Codex!Adapters
        PROVE  /\ AdapterRight(x)' /\ (Codex!Restarting(x)' <=> Codex!Restarting(x))
               /\ (Stands(x)' => Stands(x))
               /\ adapter'[x].link = adapter[x].link /\ adapter'[x].reads = adapter[x].reads
               /\ adapter'[x].told = adapter[x].told /\ adapter'[x].releases = adapter[x].releases
    BY <1>0, <1>2, <2>1, <2>3 DEF ConnectionInv, AdapterRight, TaskTypes, Alike, Codex!Restarting, Stands
  <2>6. made # 0 => made \in Codex!Adapters
    BY DEF TaskTypes
  <2>7. ASSUME NEW l \in Codex!Loops
        PROVE  LoopRight(l)'
    BY <1>0, <1>2, <2>5, <2>6 DEF ConnectionInv, LoopRight, SettingUp
  <2>8. FirstRight'
    BY <1>0, <1>2, <2>5, <2>6 DEF ConnectionInv, FirstRight, SettingUp, NoLoop
  <2>9. ASSUME ~spoilt
        PROVE  Alone'
    <3>1. Alone /\ NoLoop
      BY <1>0, <2>9, RestartIsAlone DEF ConnectionInv, Codex!Restarting
    <3>2. \A l \in Codex!Loops : tasks'[l].pc = "off"
      BY <1>2, <3>1 DEF NoLoop
    <3> QED BY <1>0, <1>2, <2>5, <3>1, <3>2 DEF Alone, Before
  <2> QED BY <1>0, <2>3, <2>4, <2>5, <2>7, <2>8, <2>9, KeepsConnection
<1>3. \/ <1>1!1
      \/ <1>2!1
  BY DEF Codex!Restarts, Codex!Spawns
<1> QED BY <1>1, <1>2, <1>3

\* The same adapter connects again.
LEMMA ReconnectsKeeps ==
  ASSUME ConnectionInv, NEW a \in Codex!Adapters, Codex!Reconnects(a)
  PROVE  ConnectionInv'
<1> USE ConnectionAssumption, ConnectionTypes
<1>0. /\ adapter[a].idle = "connect"
      /\ UNCHANGED <<server, extra, running, made, installed, monitor, call, skipped, spoilt>>
  BY DEF Codex!Reconnects
<1>a. Codex!Restarting(a)
  BY <1>0 DEF Codex!Restarting
<1>1. CASE (IF server = "up" THEN Codex!Fault ELSE Codex!NoFault) /\ Codex!RestartFails(a)
  <2>1. RestTypes'
    BY <1>0, <1>1 DEF RestTypes, Codex!Fault, Codex!NoFault
  <2> QED BY <1>0, <1>1, <2>1, FailedRestartKeeps
<1>2. CASE /\ server = "up" /\ Codex!NoFault
           /\ adapter' = [adapter EXCEPT ![a] = [Codex!Fresh EXCEPT !.releases = TRUE]]
           /\ UNCHANGED <<tasks, inflight>>
  <2> DEFINE s == [Codex!Fresh EXCEPT !.releases = TRUE]
  <2>1. /\ s \in Knows /\ s.link = "open" /\ s.reads /\ ~s.told /\ s.releases /\ s.idle = "no"
    BY DEF Codex!Fresh, Codex!Unmade, Knows, Phases
  <2>2. adapter' = [adapter EXCEPT ![a] = s]
    BY <1>2
  <2> HIDE DEF s
  <2>3. AdapterTypes' /\ adapter'[a] = s /\ \A x \in Codex!Adapters : x # a => adapter'[x] = adapter[x]
    BY <2>1, <2>2, ChangedAt
  <2>4. RestTypes' /\ TaskTypes' /\ CallTypes' /\ Placed'
    BY <1>0, <1>2 DEF RestTypes, TaskTypes, CallTypes, Placed, Codex!NoFault
  <2>5. a <= made /\ adapter[a].releases
    BY <1>a, RestartIsAlone
  <2>6. ASSUME NEW x \in Codex!Adapters
        PROVE  /\ AdapterRight(x)' /\ (Codex!Restarting(x)' => Codex!Restarting(x))
               /\ (Stands(x)' => Stands(x))
               /\ (adapter'[x].told => adapter[x].told) /\ (adapter[x].releases <=> adapter'[x].releases)
    BY <1>0, <1>2, <1>a, <2>1, <2>3, <2>5
    DEF ConnectionInv, AdapterRight, TaskTypes, Codex!Restarting, Stands
  <2>7. made # 0 => made \in Codex!Adapters
    BY DEF TaskTypes
  <2>8. ASSUME NEW l \in Codex!Loops
        PROVE  LoopRight(l)'
    BY <1>0, <1>2, <2>6, <2>7 DEF ConnectionInv, LoopRight, SettingUp
  <2>9. FirstRight'
    BY <1>0, <1>2, <2>6, <2>7 DEF ConnectionInv, FirstRight, SettingUp, NoLoop
  <2>10. ASSUME ~spoilt
         PROVE  Alone'
    <3>1. Alone /\ NoLoop
      BY <1>a, <2>10, RestartIsAlone DEF ConnectionInv
    <3>2. \A l \in Codex!Loops : tasks'[l].pc = "off"
      BY <1>2, <3>1 DEF NoLoop
    <3> QED BY <1>0, <1>2, <2>6, <3>1, <3>2 DEF Alone, Before
  <2> QED BY <1>0, <2>3, <2>4, <2>6, <2>8, <2>9, <2>10, KeepsConnection
<1> QED BY <1>1, <1>2 DEF Codex!Reconnects


\* The monitor finds the process gone: every link is, and a loop begins.
LEMMA MonitorKeeps ==
  ASSUME ConnectionInv, Codex!MonitorFinds
  PROVE  ConnectionInv'
<1> USE ConnectionAssumption, ConnectionTypes
<1>1. /\ server # "up" /\ (installed # 0 => ~Codex!Restarting(installed))
      /\ Codex!Schedule(tasks) /\ monitor' = "over"
      /\ UNCHANGED <<server, extra, running, made, installed, call, faults, skipped, spoilt>>
  BY DEF Codex!MonitorFinds
<1>2. /\ TaskTypes' /\ tasks'["first"] = tasks["first"]
      /\ \E l \in Codex!Loops : tasks'[l].pc # "off"
      /\ \A l \in Codex!Loops : tasks'[l] = tasks[l] \/ (NoLoop /\ tasks'[l].pc = "closing")
      /\ \A l, k \in Codex!Loops :
           NoLoop /\ tasks'[l].pc # "off" /\ tasks'[k].pc # "off" => l = k
  BY <1>1, ScheduleDoes DEF TaskTypes
<1>3. AdapterTypes' /\ \A x \in Codex!Adapters : StandsAsBefore(x)
  <2>1. CASE installed = 0
    BY <2>1 DEF Codex!MonitorFinds, AdapterTypes, StandsAsBefore, Alike
  <2>2. CASE installed # 0
    <3> DEFINE s == [adapter[installed] EXCEPT !.up = FALSE]
    <3>1. installed \in Codex!Adapters
      BY <2>2 DEF TaskTypes
    <3>2. s \in Knows /\ Alike(adapter[installed], s) /\ s.idle = adapter[installed].idle
      BY <3>1, WithUp DEF AdapterTypes, Alike
    <3>3. adapter' = [adapter EXCEPT ![installed] = s]
      BY <2>2 DEF Codex!MonitorFinds
    <3> HIDE DEF s
    <3>4. AdapterTypes' /\ adapter'[installed] = s
          /\ \A x \in Codex!Adapters : x # installed => adapter'[x] = adapter[x]
      BY <3>1, <3>2, <3>3, ChangedAt
    <3> QED BY <3>1, <3>2, <3>4 DEF StandsAsBefore, Alike, AdapterTypes
  <2> QED BY <2>1, <2>2
<1>4. ASSUME NEW x \in Codex!Adapters
      PROVE  /\ AdapterRight(x)' /\ (Codex!Restarting(x)' <=> Codex!Restarting(x))
             /\ (Stands(x)' <=> Stands(x)) /\ adapter'[x].link # "open"
             /\ adapter'[x].told = adapter[x].told /\ adapter'[x].releases = adapter[x].releases
             /\ adapter'[x].reads = adapter[x].reads
  <2>1. Codex!Restarting(x)' <=> Codex!Restarting(x)
    BY <1>3 DEF StandsAsBefore, Codex!Restarting
  <2>2. /\ adapter'[x].link = adapter[x].link /\ adapter'[x].told = adapter[x].told
        /\ adapter'[x].releases = adapter[x].releases /\ adapter'[x].reads = adapter[x].reads
    BY <1>3 DEF StandsAsBefore, Alike
  <2>3. AdapterRight(x)'
    BY <1>1, <1>3, <2>1, <2>2 DEF StandsAsBefore, ConnectionInv, AdapterRight
  <2>4. adapter[x].link # "open"
    BY <1>1 DEF ConnectionInv, AdapterRight
  <2> QED BY <2>1, <2>2, <2>3, <2>4 DEF Stands
<1>5. made # 0 => made \in Codex!Adapters
  BY DEF TaskTypes
<1>6. ASSUME NEW l \in Codex!Loops
      PROVE  LoopRight(l)'
  <2>1. CASE NoLoop
    BY <2>1, <1>2 DEF LoopRight, SettingUp, NoLoop
  <2>2. CASE ~NoLoop
    BY <2>2, <1>1, <1>2, <1>4, <1>5 DEF ConnectionInv, LoopRight, SettingUp
  <2> QED BY <2>1, <2>2
<1>7. FirstRight'
  <2>1. tasks["first"].pc # "connect"
    BY DEF Codex!MonitorFinds, ConnectionInv, FirstRight
  <2> QED BY <1>1, <1>2, <2>1 DEF ConnectionInv, FirstRight, SettingUp, NoLoop
<1>8. ASSUME ~spoilt
      PROVE  Alone'
  <2>1. Alone
    BY <1>8 DEF ConnectionInv
  <2>2. CASE NoLoop
    <3>a. installed = made
      BY <2>2 DEF ConnectionInv, FirstRight
    <3>b. \A x \in Codex!Adapters : Codex!Restarting(x) => x = installed
      BY <2>1, <3>a DEF Alone, Stands
    <3>1. \A x \in Codex!Adapters : ~Codex!Restarting(x)
      <4> SUFFICES ASSUME NEW x \in Codex!Adapters, Codex!Restarting(x)
                   PROVE  FALSE
        OBVIOUS
      <4>1. x = installed /\ x # 0
        BY <3>b
      <4> QED BY <4>1, <1>1
    <3>2. \A l \in Codex!Loops : tasks'[l].pc \notin {"starting", "connect"}
      BY <2>2, <1>2 DEF NoLoop
    <3> QED BY <1>1, <1>4, <2>1, <3>1, <3>2 DEF Alone, Before
  <2>3. CASE ~NoLoop
    BY <1>1, <1>2, <1>4, <2>1, <2>3 DEF Alone, Before
  <2> QED BY <2>2, <2>3
<1>9. CallTypes' /\ Placed' /\ RestTypes'
  BY <1>1 DEF CallTypes, Placed, RestTypes
<1> QED BY <1>1, <1>2, <1>3, <1>4, <1>6, <1>7, <1>8, <1>9, KeepsConnection


\* A task's own step.
LEMMA StepDoes ==
  ASSUME TaskTypes, NEW t \in Codex!Tasks,
         NEW pc \in Steps,
         tasks' = [tasks EXCEPT ![t].pc = pc]
  PROVE  /\ tasks' \in [Codex!Tasks -> [pc : Steps, a : 0..made]]
         /\ tasks'[t].pc = pc /\ tasks'[t].a = tasks[t].a
         /\ \A x \in Codex!Tasks : x # t => tasks'[x] = tasks[x]
BY DEF TaskTypes

\* A loop takes the dead adapter away and sleeps, or wakes.
LEMMA LoopWaits ==
  ASSUME ConnectionInv, NEW t \in Codex!Tasks, Codex!TakesAway(t) \/ Codex!Wakes(t)
  PROVE  ConnectionInv'
<1> USE ConnectionAssumption, ConnectionTypes
<1>1. /\ UNCHANGED <<server, extra, running, adapter, made, inflight, monitor, call, faults, skipped, spoilt>>
      /\ tasks[t].pc \in {"closing", "sleep"}
  BY DEF Codex!TakesAway, Codex!Wakes
<1>2. t \in Codex!Loops
  BY <1>1 DEF ConnectionInv, FirstRight
<1>3. PICK pc \in {"sleep", "connect", "starting"} :
        /\ tasks' = [tasks EXCEPT ![t].pc = pc]
        /\ pc # "sleep" =>
             \A a \in Codex!Adapters : ~(adapter[a].reads /\ adapter[a].link = "broken")
        /\ pc = "starting" => server # "up"
  BY DEF Codex!TakesAway, Codex!Wakes, Codex!Step
<1>4. /\ tasks'[t].pc = pc /\ \A x \in Codex!Tasks : x # t => tasks'[x] = tasks[x]
      /\ TaskTypes'
  <2>1. installed' \in 0..made
    BY DEF Codex!TakesAway, Codex!Wakes, TaskTypes
  <2>2. (\E l \in Codex!Loops : tasks'[l].pc # "off") /\ inflight
    BY <1>1, <1>2, <1>3, StepDoes DEF TaskTypes
  <2> QED BY <1>1, <1>2, <1>3, <2>1, <2>2, StepDoes DEF TaskTypes
<1>5. AdapterTypes' /\ CallTypes' /\ Placed' /\ RestTypes'
  BY <1>1 DEF AdapterTypes, CallTypes, Placed, RestTypes
<1>6. \A x \in Codex!Adapters : AdapterRight(x)'
  BY <1>1 DEF ConnectionInv, AdapterRight, Codex!Restarting
<1>a. \A l \in Codex!Loops : l # t => tasks[l].pc = "off"
  BY <1>1, <1>2 DEF ConnectionInv, LoopRight
<1>7. ASSUME NEW l \in Codex!Loops
      PROVE  LoopRight(l)'
  BY <1>1, <1>2, <1>a, <1>4 DEF LoopRight, SettingUp
<1>8. FirstRight'
  BY <1>1, <1>2, <1>a, <1>4 DEF ConnectionInv, FirstRight, SettingUp, NoLoop
<1>9. ASSUME ~spoilt
      PROVE  Alone'
  <2>1. Alone /\ Before(t)
    BY <1>9, <1>1 DEF ConnectionInv, Before
  <2>2. \A x \in Codex!Adapters : adapter[x].link # "open" /\ ~Codex!Restarting(x)
    BY <1>2, <2>1 DEF Alone
  <2>3. pc # "sleep" => \A x \in Codex!Adapters : ~adapter[x].reads
    BY <2>2, <1>3 DEF ConnectionInv, AdapterRight, AdapterTypes, Knows, TaskTypes
  <2>4. \A x \in Codex!Adapters : (Stands(x)' <=> Stands(x)) /\ (Codex!Restarting(x)' <=> Codex!Restarting(x))
    BY <1>1 DEF Stands, Codex!Restarting
  <2>5. ASSUME NEW l \in Codex!Loops
        PROVE  /\ tasks'[l].pc \in {"starting", "connect"} => \A x \in Codex!Adapters : ~adapter'[x].reads
               /\ tasks'[l].pc = "starting" => server' # "up"
    BY <1>1, <1>2, <1>a, <1>3, <1>4, <2>3
  <2> QED BY <1>1, <2>1, <2>2, <2>4, <2>5 DEF Alone
<1> QED BY <1>1, <1>4, <1>5, <1>6, <1>7, <1>8, <1>9, KeepsConnection

\* The loop starts the server, which was gone.
LEMMA StartsKeeps ==
  ASSUME ConnectionInv, NEW t \in Codex!Tasks, Codex!Starts(t)
  PROVE  ConnectionInv'
<1> USE ConnectionAssumption, ConnectionTypes
<1>1. /\ UNCHANGED <<running, adapter, made, installed, inflight, monitor, call, skipped, spoilt>>
      /\ tasks[t].pc = "starting"
  BY DEF Codex!Starts
<1>2. t \in Codex!Loops
  BY <1>1 DEF ConnectionInv, FirstRight
<1>3. PICK pc \in {"sleep", "connect"} :
        /\ tasks' = [tasks EXCEPT ![t].pc = pc]
        /\ \/ /\ server' = "up" /\ extra' = (IF server = "up" THEN extra + 1 ELSE extra)
              /\ faults' = faults /\ pc = "connect"
           \/ server' = server /\ extra' = extra /\ faults' \in 0..MaxFaults /\ pc = "sleep"
  BY DEF Codex!Starts, Codex!Step, Codex!Spawns, Codex!Fault, Codex!NoFault, RestTypes
<1>4. /\ tasks'[t].pc = pc /\ \A x \in Codex!Tasks : x # t => tasks'[x] = tasks[x]
      /\ TaskTypes'
  <2>2. (\E l \in Codex!Loops : tasks'[l].pc # "off") /\ inflight
    BY <1>1, <1>2, <1>3, StepDoes DEF TaskTypes
  <2> QED BY <1>1, <1>2, <1>3, <2>2, StepDoes DEF TaskTypes
<1>5. AdapterTypes' /\ CallTypes' /\ Placed' /\ RestTypes'
  BY <1>1, <1>3 DEF AdapterTypes, CallTypes, Placed, RestTypes
<1>6. \A x \in Codex!Adapters : AdapterRight(x)'
  BY <1>1, <1>3 DEF ConnectionInv, AdapterRight, Codex!Restarting
<1>a. \A l \in Codex!Loops : l # t => tasks[l].pc = "off"
  BY <1>1, <1>2 DEF ConnectionInv, LoopRight
<1>7. ASSUME NEW l \in Codex!Loops
      PROVE  LoopRight(l)'
  BY <1>1, <1>2, <1>a, <1>4 DEF LoopRight, SettingUp
<1>8. FirstRight'
  BY <1>1, <1>2, <1>a, <1>4 DEF ConnectionInv, FirstRight, SettingUp, NoLoop
<1>9. ASSUME ~spoilt
      PROVE  Alone'
  <2>1. Alone /\ Before(t) /\ server # "up"
    BY <1>9, <1>1, <1>2 DEF ConnectionInv, Before, Alone
  <2>2. \A x \in Codex!Adapters : adapter[x].link # "open" /\ ~Codex!Restarting(x) /\ ~adapter[x].reads
    BY <1>1, <1>2, <2>1 DEF Alone
  <2>4. \A x \in Codex!Adapters : (Stands(x)' <=> Stands(x)) /\ (Codex!Restarting(x)' <=> Codex!Restarting(x))
    BY <1>1 DEF Stands, Codex!Restarting
  <2>5. \A l \in Codex!Loops : tasks'[l].pc # "starting"
    BY <1>2, <1>a, <1>4
  <2>6. extra' = 0
    BY <1>3, <2>1 DEF Alone
  <2> QED BY <1>1, <2>1, <2>2, <2>4, <2>5, <2>6 DEF Alone
<1> QED BY <1>1, <1>4, <1>5, <1>6, <1>7, <1>8, <1>9, KeepsConnection

\* The first task or a loop connects.
LEMMA ConnectsKeeps ==
  ASSUME ConnectionInv, NEW t \in Codex!Tasks, Codex!Connects(t)
  PROVE  ConnectionInv'
<1> USE ConnectionAssumption, ConnectionTypes
<1> DEFINE b == made + 1
<1>1. /\ UNCHANGED <<server, extra, running, inflight, monitor, call, faults, skipped, spoilt>>
      /\ tasks[t].pc = "connect" /\ server = "up" /\ b \in Codex!Adapters /\ made' = b
      /\ adapter' = [adapter EXCEPT ![b] = Codex!Fresh]
  BY DEF Codex!Connects, TaskTypes
<1>2. Codex!Fresh \in Knows /\ Codex!Fresh.link = "open" /\ Codex!Fresh.reads /\ ~Codex!Fresh.told
      /\ ~Codex!Fresh.releases /\ Codex!Fresh.idle = "no"
  BY DEF Codex!Fresh, Codex!Unmade, Knows, Phases
<1>3. /\ AdapterTypes' /\ adapter'[b] = Codex!Fresh
      /\ \A x \in Codex!Adapters : x # b => adapter'[x] = adapter[x]
  BY <1>1, <1>2, ChangedAt
<1>4. ASSUME NEW x \in Codex!Adapters
      PROVE  AdapterRight(x)' /\ (x # b => (Stands(x)' <=> Stands(x)))
             /\ (x # b => (Codex!Restarting(x)' <=> Codex!Restarting(x)))
  <2>1. CASE x = b
    BY <1>1, <1>2, <1>3, <2>1 DEF AdapterRight, TaskTypes
  <2>2. CASE x # b
    BY <1>1, <1>3, <2>2 DEF ConnectionInv, AdapterRight, TaskTypes, Codex!Restarting, Stands
  <2> QED BY <2>1, <2>2
<1>5. CallTypes' /\ Placed' /\ RestTypes'
  BY <1>1 DEF CallTypes, Placed, RestTypes, TaskTypes
<1>6. CASE t = "first"
  <2>1. made = 0 /\ NoLoop
    BY <1>1, <1>6 DEF ConnectionInv, FirstRight
  <2>2. installed' = b /\ tasks' = [tasks EXCEPT !["first"] = [pc |-> "prime", a |-> b]]
    BY <1>6 DEF Codex!Connects
  <2>3. tasks'["first"] = [pc |-> "prime", a |-> 1] /\ \A l \in Codex!Loops : tasks'[l] = tasks[l]
    BY <2>1, <2>2 DEF TaskTypes
  <2>4. TaskTypes'
    BY <1>1, <2>1, <2>2, <2>3 DEF TaskTypes
  <2>5. NoLoop'
    BY <2>1, <2>3 DEF NoLoop
  <2>6. \A l \in Codex!Loops : LoopRight(l)'
    BY <2>5 DEF NoLoop, LoopRight, SettingUp
  <2>7. FirstRight'
    BY <1>1, <1>2, <1>3, <2>1, <2>2, <2>3, <2>5 DEF FirstRight, SettingUp, NoLoop
  <2>8. ASSUME ~spoilt
        PROVE  Alone'
    <3>1. Alone /\ \A x \in Codex!Adapters : ~Stands(x)
      BY <2>8, <2>1 DEF ConnectionInv, Alone
    <3>2. \A x \in Codex!Adapters : Stands(x)' => x = b
      BY <1>4, <3>1
    <3> QED BY <1>1, <2>5, <3>1, <3>2 DEF Alone, Before, NoLoop
  <2> QED BY <1>1, <1>3, <1>4, <1>5, <2>4, <2>6, <2>7, <2>8, KeepsConnection
<1>7. CASE t # "first"
  <2>1. installed' = installed /\ tasks' = [tasks EXCEPT ![t] = [pc |-> "setup", a |-> b]]
    BY <1>7 DEF Codex!Connects
  <2>2. tasks'[t] = [pc |-> "setup", a |-> b] /\ \A x \in Codex!Tasks : x # t => tasks'[x] = tasks[x]
    BY <2>1 DEF TaskTypes
  <2>3. \A l \in Codex!Loops : l # t => tasks[l].pc = "off"
    BY <1>1, <1>7 DEF ConnectionInv, LoopRight
  <2>4. TaskTypes'
    BY <1>1, <1>7, <2>1, <2>2 DEF TaskTypes
  <2>5. ASSUME NEW l \in Codex!Loops
        PROVE  LoopRight(l)'
    BY <1>1, <1>2, <1>3, <2>2, <2>3 DEF LoopRight, SettingUp, TaskTypes
  <2>6. FirstRight'
    <3>1. tasks'["first"] = tasks["first"] /\ tasks["first"].pc # "connect"
      BY <1>1, <1>7, <2>2 DEF ConnectionInv, FirstRight, NoLoop
    <3>2. ~NoLoop'
      BY <1>7, <2>2 DEF NoLoop
    <3>3. tasks["first"].pc = "prime" => made # 0
      BY DEF ConnectionInv, FirstRight, TaskTypes
    <3> QED BY <1>1, <3>1, <3>2, <3>3 DEF ConnectionInv, FirstRight, TaskTypes
  <2>7. ASSUME ~spoilt
        PROVE  Alone'
    <3>1. Alone /\ \A x \in Codex!Adapters : ~Stands(x)
      BY <2>7, <1>1, <1>7 DEF ConnectionInv, Alone, Before, Stands
    <3>2. \A x \in Codex!Adapters : Stands(x)' => x = b
      BY <1>4, <3>1
    <3>3. \A l \in Codex!Loops : tasks'[l].pc \in {"off", "setup"}
      BY <2>2, <2>3
    <3> QED BY <1>1, <3>1, <3>2, <3>3 DEF Alone, Before
  <2> QED BY <1>1, <1>3, <1>4, <1>5, <2>4, <2>5, <2>6, <2>7, KeepsConnection
<1> QED BY <1>6, <1>7


\* Steps of a task that leave the adapters alone.
LEMMA TasksKeep ==
  ASSUME ConnectionInv, TaskTypes', RestTypes',
         UNCHANGED <<server, extra, adapter, made, call, skipped>>,
         \A l \in Codex!Loops : LoopRight(l)', FirstRight', spoilt' \/ Alone'
  PROVE  ConnectionInv'
<1>1. AdapterTypes' /\ CallTypes' /\ Placed'
  BY ConnectionTypes DEF AdapterTypes, CallTypes, Placed
<1>2. \A x \in Codex!Adapters : AdapterRight(x)'
  BY DEF ConnectionInv, AdapterRight, Codex!Restarting
<1> QED BY <1>1, <1>2, KeepsConnection

\* An attempt that failed: the first task hands over to a loop, a loop waits.
LEMMA TriesAgain ==
  ASSUME ConnectionInv, NEW t \in Codex!Tasks, Codex!TryAgain(t), RestTypes',
         tasks[t].pc \in {"connect", "prime"},
         UNCHANGED <<server, extra, adapter, made, installed, monitor, call, skipped>>,
         spoilt \/ spoilt' \/
           \A a \in Codex!Adapters : adapter[a].link # "open" /\ ~Codex!Restarting(a),
         spoilt => spoilt'
  PROVE  ConnectionInv'
<1> USE ConnectionAssumption, ConnectionTypes
<1>1. CASE t = "first"
  <2> DEFINE s == [tasks EXCEPT !["first"] = Codex!Off]
  <2>1. s \in [Codex!Tasks -> [pc : Steps, a : 0..made]]
        /\ s["first"].pc = "off" /\ \A l \in Codex!Loops : s[l] = tasks[l]
    BY DEF TaskTypes, Codex!Off
  <2>2. Codex!Schedule(s)
    BY <1>1 DEF Codex!TryAgain
  <2> HIDE DEF s
  <2>3. /\ TaskTypes' /\ tasks'["first"].pc = "off"
        /\ \E l \in Codex!Loops : tasks'[l].pc # "off"
        /\ \A l \in Codex!Loops : tasks'[l] = tasks[l] \/ (NoLoop /\ tasks'[l].pc = "closing")
        /\ \A l, k \in Codex!Loops :
             NoLoop /\ tasks'[l].pc # "off" /\ tasks'[k].pc # "off" => l = k
    BY <2>1, <2>2, ScheduleDoes
  <2>4. ASSUME NEW l \in Codex!Loops
        PROVE  LoopRight(l)'
    <3>1. CASE NoLoop
      BY <3>1, <2>3 DEF LoopRight, SettingUp, NoLoop
    <3>2. CASE ~NoLoop
      BY <3>2, <2>3 DEF ConnectionInv, LoopRight, SettingUp
    <3> QED BY <3>1, <3>2
  <2>5. FirstRight'
    BY <2>3 DEF FirstRight, NoLoop
  <2>6. ASSUME ~spoilt'
        PROVE  Alone'
    <3>1. Alone /\ \A x \in Codex!Adapters : adapter[x].link # "open" /\ ~Codex!Restarting(x)
      BY <2>6 DEF ConnectionInv
    <3>2. \A x \in Codex!Adapters : (Stands(x)' <=> Stands(x)) /\ (Codex!Restarting(x)' <=> Codex!Restarting(x))
      BY DEF Stands, Codex!Restarting
    <3> QED BY <2>3, <3>1, <3>2 DEF Alone
  <2> QED BY <2>3, <2>4, <2>5, <2>6, TasksKeep
<1>2. CASE t # "first"
  <2>1. tasks' = [tasks EXCEPT ![t].pc = "sleep"] /\ inflight' = inflight
    BY <1>2 DEF Codex!TryAgain, Codex!Step
  <2>2. /\ tasks' \in [Codex!Tasks -> [pc : Steps, a : 0..made]]
        /\ tasks'[t].pc = "sleep" /\ \A x \in Codex!Tasks : x # t => tasks'[x] = tasks[x]
    BY <2>1, StepDoes
  <2>3. inflight /\ \A l \in Codex!Loops : l # t => tasks[l].pc = "off"
    BY <1>2 DEF ConnectionInv, LoopRight, TaskTypes
  <2>4. TaskTypes'
    BY <1>2, <2>1, <2>2, <2>3 DEF TaskTypes
  <2>5. ASSUME NEW l \in Codex!Loops
        PROVE  LoopRight(l)'
    BY <1>2, <2>2, <2>3 DEF LoopRight, SettingUp
  <2>6. FirstRight'
    BY <1>2, <2>2, <2>3 DEF ConnectionInv, FirstRight, SettingUp, NoLoop
  <2>7. ASSUME ~spoilt'
        PROVE  Alone'
    <3>1. Alone /\ \A x \in Codex!Adapters : adapter[x].link # "open" /\ ~Codex!Restarting(x)
      BY <2>7 DEF ConnectionInv
    <3>2. \A x \in Codex!Adapters : (Stands(x)' <=> Stands(x)) /\ (Codex!Restarting(x)' <=> Codex!Restarting(x))
      BY DEF Stands, Codex!Restarting
    <3>3. \A l \in Codex!Loops : tasks'[l].pc \in {"off", "sleep"}
      BY <2>2, <2>3
    <3> QED BY <3>1, <3>2, <3>3 DEF Alone
  <2> QED BY <2>4, <2>5, <2>6, <2>7, TasksKeep
<1> QED BY <1>1, <1>2

\* A connection that is not made: none stands then.
LEMMA ConnectFailsKeeps ==
  ASSUME ConnectionInv, NEW t \in Codex!Tasks, Codex!ConnectFails(t)
  PROVE  ConnectionInv'
<1> USE ConnectionAssumption, ConnectionTypes
<1>1. /\ UNCHANGED <<server, extra, running, adapter, made, installed, monitor, call, skipped, spoilt>>
      /\ tasks[t].pc = "connect" /\ Codex!TryAgain(t)
  BY DEF Codex!ConnectFails
<1>2. RestTypes'
  BY <1>1 DEF Codex!ConnectFails, Codex!Fault, Codex!NoFault, RestTypes
<1>3. ASSUME ~spoilt, NEW a \in Codex!Adapters
      PROVE  adapter[a].link # "open" /\ ~Codex!Restarting(a)
  <2>1. Alone
    BY <1>3 DEF ConnectionInv
  <2>2. CASE t = "first"
    BY <1>1, <2>1, <2>2 DEF ConnectionInv, FirstRight, Alone, Stands
  <2>3. CASE t # "first"
    BY <1>1, <2>1, <2>3 DEF Alone, Before
  <2> QED BY <2>2, <2>3
<1> QED BY <1>1, <1>2, <1>3, TriesAgain

\* A setup that fails while a connection stands spoils it.
LEMMA SetupFailsKeeps ==
  ASSUME ConnectionInv, NEW t \in Codex!Tasks, Codex!SetupFails(t)
  PROVE  ConnectionInv'
<1> USE ConnectionAssumption, ConnectionTypes
<1>1. /\ UNCHANGED <<server, extra, running, adapter, made, installed, monitor, call, skipped>>
      /\ tasks[t].pc = "prime" /\ Codex!TryAgain(t)
      /\ spoilt' = (spoilt \/ \E a \in Codex!Adapters : adapter[a].link = "open" \/ Codex!Restarting(a))
  BY DEF Codex!SetupFails
<1>2. RestTypes'
  <2>1. spoilt' \in BOOLEAN
    BY <1>1
  <2>2. faults' \in 0..MaxFaults
    BY DEF Codex!SetupFails, Codex!Fault, RestTypes
  <2> QED BY <1>1, <2>1, <2>2 DEF RestTypes
<1> QED BY <1>1, <1>2, TriesAgain

\* The loop installs its adapter.
LEMMA InstallsKeeps ==
  ASSUME ConnectionInv, NEW t \in Codex!Tasks, Codex!Installs(t)
  PROVE  ConnectionInv'
<1> USE ConnectionAssumption, ConnectionTypes
<1>1. /\ UNCHANGED <<server, extra, running, adapter, made, inflight, monitor, call, faults, skipped, spoilt>>
      /\ tasks[t].pc = "setup" /\ installed' = tasks[t].a /\ tasks' = [tasks EXCEPT ![t].pc = "prime"]
  BY DEF Codex!Installs, Codex!Step
<1>2. t \in Codex!Loops
  BY <1>1 DEF ConnectionInv, FirstRight
<1>3. \A l \in Codex!Loops : l # t => tasks[l].pc = "off"
  BY <1>1, <1>2 DEF ConnectionInv, LoopRight
<1>4. /\ tasks' \in [Codex!Tasks -> [pc : Steps, a : 0..made]]
      /\ tasks'[t].pc = "prime" /\ tasks'[t].a = tasks[t].a
      /\ \A x \in Codex!Tasks : x # t => tasks'[x] = tasks[x]
  BY <1>1, StepDoes
<1>5. inflight /\ installed' = made
  BY <1>1, <1>2 DEF TaskTypes, ConnectionInv, LoopRight, SettingUp
<1>6. TaskTypes' /\ RestTypes'
  BY <1>1, <1>2, <1>4, <1>5 DEF TaskTypes, RestTypes
<1>7. ASSUME NEW l \in Codex!Loops
      PROVE  LoopRight(l)'
  BY <1>1, <1>2, <1>3, <1>4, <1>5 DEF ConnectionInv, LoopRight, SettingUp
<1>8. FirstRight'
  BY <1>1, <1>2, <1>3, <1>4, <1>5 DEF ConnectionInv, FirstRight, SettingUp, NoLoop
<1>9. ASSUME ~spoilt
      PROVE  Alone'
  <2>1. Alone
    BY <1>9 DEF ConnectionInv
  <2>2. \A x \in Codex!Adapters : (Stands(x)' <=> Stands(x))
    BY <1>1 DEF Stands, Codex!Restarting
  <2>3. \A l \in Codex!Loops : tasks'[l].pc \in {"off", "prime"}
    BY <1>3, <1>4
  <2> QED BY <1>1, <2>1, <2>2, <2>3 DEF Alone, Before
<1> QED BY <1>1, <1>6, <1>7, <1>8, <1>9, TasksKeep

\* A setup ends, whether its connection stands or not.
LEMMA SetupEndsKeeps ==
  ASSUME ConnectionInv, NEW t \in Codex!Tasks, Codex!SetupEnds(t)
  PROVE  ConnectionInv'
<1> USE ConnectionAssumption, ConnectionTypes
<1> DEFINE b == tasks[t].a
           s == [adapter[b] EXCEPT !.releases = TRUE]
<1>1. /\ UNCHANGED <<server, extra, running, made, installed, call, faults, skipped, spoilt>>
      /\ tasks[t].pc = "prime" /\ tasks' = [tasks EXCEPT ![t] = Codex!Off]
      /\ adapter' = [adapter EXCEPT ![b].releases = TRUE]
      /\ inflight' = (inflight /\ t = "first")
      /\ monitor' \in {"on", "over"}
  BY DEF Codex!SetupEnds, RestTypes
<1>2. b \in Codex!Adapters /\ b <= made /\ made # 0
  BY <1>1 DEF ConnectionInv, FirstRight, LoopRight, SettingUp, TaskTypes
<1>3. /\ s \in Knows /\ s.releases /\ s.link = adapter[b].link /\ s.reads = adapter[b].reads
      /\ s.told = adapter[b].told /\ s.idle = adapter[b].idle
  BY <1>2, WithReleases DEF AdapterTypes
<1>4. adapter' = [adapter EXCEPT ![b] = s]
  BY <1>1
<1>5. /\ AdapterTypes' /\ adapter'[b] = s
      /\ \A x \in Codex!Adapters : x # b => adapter'[x] = adapter[x]
  <2> HIDE DEF s, b
  <2> QED BY <1>2, <1>3, <1>4, ChangedAt
<1> HIDE DEF s
<1>6. ASSUME NEW x \in Codex!Adapters
      PROVE  /\ AdapterRight(x)' /\ (Codex!Restarting(x)' <=> Codex!Restarting(x)) /\ (Stands(x)' <=> Stands(x))
             /\ adapter'[x].told = adapter[x].told /\ (x # b => adapter'[x].releases = adapter[x].releases)
             /\ adapter'[x].link = adapter[x].link /\ adapter'[x].reads = adapter[x].reads
  <2>1. /\ adapter'[x].told = adapter[x].told /\ adapter'[x].link = adapter[x].link
        /\ adapter'[x].reads = adapter[x].reads /\ adapter'[x].idle = adapter[x].idle
        /\ (x # b => adapter'[x].releases = adapter[x].releases) /\ (x = b => adapter'[x].releases)
    BY <1>3, <1>5
  <2>2. AdapterRight(x)'
    BY <1>1, <1>2, <2>1 DEF ConnectionInv, AdapterRight, Codex!Restarting, TaskTypes
  <2> QED BY <2>1, <2>2 DEF Codex!Restarting, Stands
<1>7. tasks'[t].pc = "off" /\ \A x \in Codex!Tasks : x # t => tasks'[x] = tasks[x]
  BY <1>1 DEF TaskTypes, Codex!Off
<1>8. TaskTypes'
  <2>1. tasks' \in [Codex!Tasks -> [pc : Steps, a : 0..made]]
    BY <1>1 DEF TaskTypes, Codex!Off
  <2>2. inflight' <=> \E l \in Codex!Loops : tasks'[l].pc # "off"
    <3>1. CASE t = "first"
      BY <1>1, <1>7, <3>1 DEF TaskTypes
    <3>2. CASE t # "first"
      BY <1>1, <1>7, <3>2 DEF ConnectionInv, LoopRight
    <3> QED BY <3>1, <3>2
  <2>3. inflight' \in BOOLEAN
    BY <1>1
  <2> QED BY <1>1, <2>1, <2>2, <2>3 DEF TaskTypes
<1>9. CallTypes' /\ Placed' /\ RestTypes'
  BY <1>1 DEF CallTypes, Placed, RestTypes
<1>10. ASSUME NEW l \in Codex!Loops
       PROVE  LoopRight(l)'
  <2>1. CASE l = t
    BY <2>1, <1>7 DEF LoopRight, SettingUp
  <2>2. CASE l # t
    <3>1. SettingUp(l) => b # made
      BY <1>1, <1>2, <2>2 DEF ConnectionInv, LoopRight, FirstRight, SettingUp
    <3> QED BY <1>1, <1>2, <1>6, <1>7, <2>2, <3>1 DEF ConnectionInv, LoopRight, SettingUp, TaskTypes
  <2> QED BY <2>1, <2>2
<1>11. FirstRight'
  <2>1. tasks["first"].pc # "connect"
    BY <1>1, <1>2 DEF ConnectionInv, FirstRight
  <2>2. NoLoop' => installed = made /\ (~adapter[made].told \/ skipped)
    <3>1. CASE t = "first"
      BY <3>1, <1>2, <1>7 DEF ConnectionInv, FirstRight, NoLoop
    <3>2. CASE t # "first"
      BY <3>2, <1>1 DEF ConnectionInv, LoopRight, SettingUp
    <3> QED BY <3>1, <3>2
  <2>3. tasks'["first"].pc # "connect" /\ (tasks'["first"].pc = "prime" => tasks'["first"] = tasks["first"])
        /\ tasks'["first"].pc \in {"off", "prime"}
    BY <2>1, <1>7 DEF ConnectionInv, FirstRight
  <2>4. \A l \in Codex!Loops : SettingUp(l)' => SettingUp(l)
    BY <1>7 DEF SettingUp
  <2>5. adapter'[made].told = adapter[made].told
    BY <1>2, <1>6 DEF TaskTypes
  <2> QED BY <1>1, <1>2, <2>2, <2>3, <2>4, <2>5 DEF ConnectionInv, FirstRight
<1>12. ASSUME ~spoilt
       PROVE  Alone'
  <2>1. Alone
    BY <1>12 DEF ConnectionInv
  <2>2. \A l \in Codex!Loops : tasks'[l].pc = "off" \/ tasks'[l] = tasks[l]
    BY <1>7
  <2> QED BY <1>1, <1>6, <2>1, <2>2 DEF Alone, Before
<1> QED BY <1>1, <1>5, <1>6, <1>8, <1>9, <1>10, <1>11, <1>12, KeepsConnection

\* A step of the connection keeps its invariant.
LEMMA ConnectionStep == ConnectionInv /\ [Codex!Next]_(Codex!vars) => ConnectionInv'
<1> SUFFICES ASSUME ConnectionInv, [Codex!Next]_(Codex!vars)
             PROVE  ConnectionInv'
  OBVIOUS
<1>1. CASE UNCHANGED Codex!vars
  <2>1. UNCHANGED <<server, extra, running, adapter, made, installed, tasks, inflight, monitor, call,
                    faults, skipped, spoilt>>
    BY <1>1 DEF Codex!vars
  <2>2. AdapterTypes' /\ CallTypes' /\ Placed' /\ RestTypes' /\ \A x \in Codex!Adapters : StandsAsBefore(x)
    BY <2>1, ConnectionTypes DEF AdapterTypes, CallTypes, Placed, RestTypes, StandsAsBefore, Alike
  <2> QED BY <2>1, <2>2, StandingKeeps
<1>2. CASE Codex!ServerDies \/ Codex!MonitorFinds \/ Codex!TurnEnds
  BY <1>2, DeathKeeps, MonitorKeeps, TurnEndsKeeps
<1>3. ASSUME NEW a \in Codex!Adapters, Codex!AdapterStep(a) \/ Codex!LinkBreaks(a)
      PROVE  ConnectionInv'
  BY <1>3, DeathKeeps, ReaderEndsKeeps, ChecksKeep, ReleaseKeeps, LeavesKeeps, RestartsKeeps, ReconnectsKeeps
  DEF Codex!AdapterStep
<1>4. ASSUME NEW t \in Codex!Tasks, Codex!TaskStep(t) \/ Codex!SetupFails(t)
      PROVE  ConnectionInv'
  BY <1>4, LoopWaits, StartsKeeps, ConnectsKeeps, ConnectFailsKeeps, InstallsKeeps, SetupEndsKeeps,
     SetupFailsKeeps
  DEF Codex!TaskStep
<1>5. ASSUME NEW c \in Calls, Codex!CallStep(c) \/ Codex!Calls_(c) \/ Codex!TimesOut(c)
      PROVE  ConnectionInv'
  BY <1>5, CallEndsKeeps, CallsKeeps, AnswersKeeps DEF Codex!CallStep
<1> QED BY <1>1, <1>2, <1>3, <1>4, <1>5 DEF Codex!Next

\* The connection's state is consistent: who makes the next, and who finds out
\* that it is lost.
THEOREM ConnectionInvariant == Codex!Spec => []ConnectionInv
<1>1. Codex!Init => ConnectionInv
  <2> SUFFICES ASSUME Codex!Init
               PROVE  ConnectionInv
    OBVIOUS
  <2> USE ConnectionAssumption
  <2>1. Codex!Unmade \in Knows /\ Codex!Unmade.link = "none" /\ ~Codex!Unmade.reads /\ ~Codex!Unmade.told
        /\ ~Codex!Unmade.releases /\ Codex!Unmade.idle = "no"
    BY DEF Codex!Unmade, Knows, Phases
  <2>2. \A a \in Codex!Adapters : adapter[a] = Codex!Unmade
    BY DEF Codex!Init
  <2>3. AdapterTypes
    BY <2>1 DEF AdapterTypes, Codex!Init
  <2>4. tasks["first"] = [pc |-> "connect", a |-> 0] /\ \A l \in Codex!Loops : tasks[l].pc = "off"
    BY DEF Codex!Init, Codex!Off
  <2>5. TaskTypes
    <3>1. made = 0 /\ installed = 0 /\ inflight = FALSE
      BY DEF Codex!Init
    <3>2. tasks \in [Codex!Tasks -> [pc : Steps, a : 0..0]]
      BY DEF Codex!Init, Codex!Off
    <3>3. made \in 0..MaxAdapters /\ installed \in 0..made
      BY <3>1
    <3>4. tasks \in [Codex!Tasks -> [pc : Steps, a : 0..made]]
      BY <3>1, <3>2
    <3>5. inflight <=> \E l \in Codex!Loops : tasks[l].pc # "off"
      BY <2>4, <3>1
    <3> QED BY <3>1, <3>3, <3>4, <3>5 DEF TaskTypes
  <2>6. CallTypes /\ Placed /\ RestTypes
    <3>1. CallTypes /\ Placed
      BY DEF CallTypes, Placed, Codex!Init
    <3>2. RestTypes
      <4>1. 0 \in 0..MaxFaults
        OBVIOUS
      <4> QED BY <4>1 DEF RestTypes, Codex!Init
    <3> QED BY <3>1, <3>2
  <2>7. Codex!TypeOK
    BY <2>3, <2>5, <2>6, TypesByPart
  <2>8. \A a \in Codex!Adapters : AdapterRight(a) /\ ~Stands(a)
    BY <2>1, <2>2 DEF AdapterRight, Stands, Codex!Restarting, Codex!Init
  <2>9. \A l \in Codex!Loops : LoopRight(l)
    BY <2>4 DEF LoopRight, SettingUp
  <2>10. FirstRight
    BY <2>4 DEF FirstRight, NoLoop, Codex!Init
  <2>11. Alone
    BY <2>4, <2>8 DEF Alone, Before, Codex!Init
  <2> QED BY <2>6, <2>7, <2>8, <2>9, <2>10, <2>11 DEF ConnectionInv
<1>2. ConnectionInv /\ [Codex!Next]_(Codex!vars) => ConnectionInv'
  BY ConnectionStep
<1> QED BY <1>1, <1>2, PTL DEF Codex!Spec

\* There is one connection, and it is seen to until it works again: for any
\* number of calls, adapters and failures.
THEOREM ConnectionIsKept == Codex!Spec => []ConnectionKept
<1>1. ConnectionInv => ConnectionKept
  <2> SUFFICES ASSUME ConnectionInv
               PROVE  ConnectionKept
    OBVIOUS
  <2> USE ConnectionAssumption, ConnectionTypes
  <2>1. Codex!TendedUnlessSkipped
    <3> SUFFICES ASSUME ~skipped, \A t \in Codex!Tasks : tasks[t].pc = "off"
                 PROVE  Codex!Tended
      BY DEF Codex!TendedUnlessSkipped, Codex!Tended
    <3>1. installed = made /\ made # 0 /\ ~adapter[made].told
      BY DEF ConnectionInv, FirstRight, NoLoop
    <3>2. adapter[made].reads \/ Codex!Restarting(made)
      BY <3>1 DEF ConnectionInv, AdapterRight, TaskTypes
    <3> QED BY <3>1, <3>2 DEF Codex!Tended
  <2>2. Codex!OneConnection
    BY DEF ConnectionInv, Alone, Stands, Codex!OneConnection
  <2> QED BY <2>1, <2>2 DEF ConnectionKept, Codex!ConnectionKept
<1> QED BY <1>1, ConnectionInvariant, PTL

=============================================================================
