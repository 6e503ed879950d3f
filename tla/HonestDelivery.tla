--------------------------- MODULE HonestDelivery ---------------------------
(***************************************************************************)
(* What the desktop send promises the person who types, with no process,   *)
(* file, callback or fallback in sight: a request is asked for, may be     *)
(* handed over, is taken at most once, and what its session says about it  *)
(* is never a lie.                                                         *)
(***************************************************************************)
EXTENDS Naturals

CONSTANTS Sessions, Requests, SessionOf, NoRequest

VARIABLES
  out,    \* requests the provider may still take
  taken,  \* requests the provider took
  said    \* what each session says: of which request, and the verdict

promise == <<out, taken, said>>

Open == {"pending", "unknown"}
Said == [req : Requests \cup {NoRequest}, verdict : Open \cup {"none", "sent", "failed"}]

Init ==
  /\ out = {} /\ taken = {}
  /\ said = [s \in Sessions |-> [req |-> NoRequest, verdict |-> "none"]]

Honest(word, o, t) ==
  /\ word.verdict = "sent"   => word.req \in t
  /\ word.verdict = "failed" => word.req \notin o \cup t

\* Handed over: only what its session already says is pending, never twice,
\* and never beside another request of the session.
HandOver(r) ==
  LET s == SessionOf[r] IN
  /\ said[s] = [req |-> r, verdict |-> "pending"]
  /\ r \notin taken
  /\ \A q \in out : SessionOf[q] # s
  /\ out' = out \cup {r}
  /\ UNCHANGED <<taken, said>>

Take(r) ==
  /\ r \in out
  /\ out' = out \ {r}
  /\ taken' = taken \cup {r}
  /\ UNCHANGED said

\* Sessions say something else (all of them at once when the process dies and
\* comes back).  A session drops a request only once its fate was told, and a
\* request it calls settled is not out any more; what is out may be lost.
Say ==
  /\ said' \in [Sessions -> Said]
  /\ \E quiet \in SUBSET Sessions : out' = {q \in out : SessionOf[q] \notin quiet}
  /\ UNCHANGED taken
  /\ \A s \in Sessions :
       /\ Honest(said'[s], out', taken)
       /\ said'[s].req # said[s].req => said[s].verdict \notin Open

Next ==
  \/ \E r \in Requests : HandOver(r) \/ Take(r)
  \/ Say

Spec == Init /\ [][Next]_promise
=============================================================================
