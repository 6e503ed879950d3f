------------------------ MODULE ExternalIngressProofs ------------------------
(***************************************************************************)
(* Proofs about ExternalIngress, for any number of turns, whoever runs     *)
(* them, whatever overtakes what and however many relays are lost: a claim *)
(* that is committed keeps its owner, and the end of a turn reaches the    *)
(* bus as one source tells it.                                             *)
(***************************************************************************)
EXTENDS ExternalIngress, TLAPS

App == "codex_app_server"

ClaimKeys == Turns \X Claimable
ClaimType == [source : Sources \cup {""}, committed : BOOLEAN]
ClaimsSet == [ClaimKeys -> ClaimType]

Relay   == [event : {"submit", "stop", "complete"}, source : {"codex_hook", "codex_notify"},
            turn : Turns, pc : {""}]
Call0   == [event : Events, source : Sources, turn : Turns, pc : Points \cup {""}]
Notices == {"started", "progress", "final", "completed"} \X Turns
Messages == [kind : Kinds, turn : Turns, origin : Origins]

\* Where a call may await, by what it was called for.
PointsOf(event) ==
  CASE event = "submit"   -> {"claim", "created", "prompted", "leaving"}
    [] event = "comment"  -> {"claim", "claimStarted", "opened", "leaving"}
    [] event = "complete" -> {"claim", "claimStarted", "created", "prompted", "opened", "finalled", "closing"}
    [] event = "stop"     -> {"claim", "finalled", "closing"}
    [] event = "work"     -> {"leaving", "closing"}

\* The end of the turn is this call's to tell.
Owns(h, cl) ==
  h.event \in {"complete", "stop"} => cl[<<h.turn, "completed">>] = Committed(h.source)

\* Only the event worker speaks for the app-server.
Caller(h) == h \in Call0 /\ (h.event = "work" <=> h.source = App)

Legit(h, cl) ==
  Caller(h) /\ h.pc \in PointsOf(h.event) /\ (h.pc # "claim" => Owns(h, cl))

\* An event tells of a turn's end under the identity of the one that holds the claim.
Honest(e, cl) ==
  /\ e \in Messages
  /\ e.kind \in {"submitted", "started"} => e.origin = "turn"
  /\ e.kind \in {"final", "completed"} =>
       /\ cl[<<e.turn, "completed">>].committed
       /\ e.origin = IF cl[<<e.turn, "completed">>].source = App THEN "app" ELSE "external"

\* What is on its way: the turn that runs, the relays, the notifications.
FlowOk ==
  /\ codex \in [turn : 0 .. LastTurn, running : BOOLEAN, mode : {"cli", "app"},
                said : BOOLEAN, lost : Nat]
  /\ codex.running => codex.turn # 0
  /\ relays \in Seq(Relay) /\ wire \in Seq(Notices)

\* What the loop still runs, and what it has told, agrees with the claims.
ReadyOk ==
  /\ ready \in Seq(Call0)
  /\ \A i \in DOMAIN ready : Legit(ready[i], claims)

SeenOk == \A e \in seen : Keyed(e) /\ Honest(e, claims)

QueueOk ==
  /\ appq \in Seq(Messages)
  /\ \A i \in DOMAIN appq : Honest(appq[i], claims)

IngressInv == FlowOk /\ claims \in ClaimsSet /\ ReadyOk /\ SeenOk /\ QueueOk

\* What is committed in cl is so in cl2.
Kept(cl, cl2) ==
  /\ cl2 \in ClaimsSet
  /\ \A k \in ClaimKeys : cl[k].committed => cl2[k] = cl[k]

Grows(cl) == claims \in ClaimsSet /\ Kept(claims, cl)

\* What a task does between two awaits: it ends or gives way where its call
\* may, and has told of nothing but what it may.
Moved(h) ==
  /\ Grows(claims')
  /\ \/ ready' = Others(h)
     \/ \E p \in PointsOf(h.event) :
          /\ ready' = Append(Others(h), At(h, p))
          /\ p # "claim" => Owns(h, claims')
  /\ \/ seen' = seen
     \/ \E e \in Messages : Keyed(e) /\ Honest(e, claims') /\ seen' = seen \cup {e}

----------------------------------------------------------------------------
(* The claims.                                                             *)

\* Claims that are left as they are keep what is committed.
LEMMA KeptSelf ==
  ASSUME NEW cl \in ClaimsSet
  PROVE  Kept(cl, cl)
  BY DEF Kept

\* What is kept twice over is kept.
LEMMA KeptOn ==
  ASSUME NEW cl, NEW cl2, NEW cl3, Kept(cl, cl2), Kept(cl2, cl3)
  PROVE  Kept(cl, cl3)
  BY DEF Kept

\* A claim nobody has committed may be given away.
LEMMA KeptSet ==
  ASSUME NEW cl \in ClaimsSet, NEW k \in ClaimKeys, NEW v \in ClaimType,
         ~cl[k].committed \/ cl[k] = v
  PROVE  Kept(cl, [cl EXCEPT ![k] = v])
  BY DEF Kept, ClaimsSet

\* Nobody loses what it has committed.
LEMMA OwnsKept ==
  ASSUME NEW cl, NEW cl2, NEW h \in Call0, Kept(cl, cl2), Owns(h, cl)
  PROVE  Owns(h, cl2)
<1>1. h.turn \in Turns
  BY DEF Call0
<1>2. <<h.turn, "completed">> \in ClaimKeys
  BY <1>1 DEF ClaimKeys, Claimable
<1> QED
  BY <1>2 DEF Kept, Owns, Committed

\* An event that was true to the claims stays so.
LEMMA HonestKept ==
  ASSUME NEW cl, NEW cl2, NEW e, Kept(cl, cl2), Honest(e, cl)
  PROVE  Honest(e, cl2)
<1>1. e.turn \in Turns
  BY DEF Honest, Messages
<1>2. <<e.turn, "completed">> \in ClaimKeys
  BY <1>1 DEF ClaimKeys, Claimable
<1> QED
  BY <1>2 DEF Kept, Honest

\* So does a call.
LEMMA LegitKept ==
  ASSUME NEW cl, NEW cl2, NEW h, Kept(cl, cl2), Legit(h, cl)
  PROVE  Legit(h, cl2)
  BY OwnsKept DEF Legit, Caller

\* What a source commits or reserves is a claim.
LEMMA ClaimTypes ==
  ASSUME NEW h, Caller(h)
  PROVE  /\ Committed(h.source) \in ClaimType
         /\ [source |-> h.source, committed |-> FALSE] \in ClaimType
         /\ Committed("codex_app_server") \in ClaimType
         /\ \A k \in Claimable : <<h.turn, k>> \in ClaimKeys
  BY DEF Caller, Call0, Committed, ClaimType, ClaimKeys, Sources

\* What becomes of the claims when a call asks for one that is free.
LEMMA ClaimGrows ==
  ASSUME NEW h, Caller(h), NEW cl, Grows(cl), NEW k \in Claimable,
         NEW v \in ClaimType,
         ~cl[<<h.turn, k>>].committed \/ cl[<<h.turn, k>>] = v
  PROVE  /\ Grows([cl EXCEPT ![<<h.turn, k>>] = v])
         /\ Owns(h, cl) => Owns(h, [cl EXCEPT ![<<h.turn, k>>] = v])
<1>1. cl \in ClaimsSet /\ <<h.turn, k>> \in ClaimKeys
  BY ClaimTypes DEF Grows, Kept
<1>2. Kept(cl, [cl EXCEPT ![<<h.turn, k>>] = v])
  BY <1>1, KeptSet
<1>3. Kept(claims, [cl EXCEPT ![<<h.turn, k>>] = v])
  BY <1>2, KeptOn DEF Grows
<1>4. h \in Call0
  BY DEF Caller
<1> QED
  BY <1>2, <1>3, <1>4, OwnsKept DEF Grows

----------------------------------------------------------------------------
(* The steps of a call.                                                    *)

\* A call that is over tells of nothing.
LEMMA LeaveMoves ==
  ASSUME NEW h, NEW cl, NEW s, Grows(cl), Leave(h, cl, s)
  PROVE  Moved(h)
  BY DEF Leave, Moved, busVars

\* Nor does one that gives way without a word.
LEMMA AwaitMoves ==
  ASSUME NEW h, NEW cl, NEW s, NEW p \in PointsOf(h.event), Grows(cl),
         p # "claim" => Owns(h, cl),
         Await(h, cl, s, p), UNCHANGED busVars
  PROVE  Moved(h)
  BY DEF Await, Moved, busVars

\* Publishing remembers at most the event.
LEMMA PublishSees ==
  ASSUME NEW e, Publish(e)
  PROVE  seen' = seen \/ (Keyed(e) /\ seen' = seen \cup {e})
  BY DEF Publish, busVars

\* A call that publishes what it may and gives way where it may.
LEMMA EmitMoves ==
  ASSUME NEW h, NEW cl, NEW s, NEW e, NEW p \in PointsOf(h.event), Grows(cl),
         Honest(e, cl), p # "claim" => Owns(h, cl),
         Emit(h, cl, s, e, p)
  PROVE  Moved(h)
<1>1. claims' = cl /\ ready' = Append(Others(h), At(h, p)) /\ Publish(e)
  BY DEF Emit, Await
<1>2. e \in Messages
  BY DEF Honest
<1>3. seen' = seen \/ (Keyed(e) /\ seen' = seen \cup {e})
  BY <1>1, PublishSees
<1> QED
  BY <1>1, <1>2, <1>3 DEF Moved

\* What a call tells of its turn's beginning.
LEMMA TurnEvents ==
  ASSUME NEW h, NEW cl, Caller(h)
  PROVE  /\ Honest(Event("submitted", h.turn, "turn"), cl)
         /\ Honest(Event("started", h.turn, "turn"), cl)
         /\ Honest(Event("progress", h.turn, "external"), cl)
  BY DEF Caller, Call0, Honest, Event, Messages, Kinds, Origins

\* What the owner of its end tells of that.
LEMMA EndEvents ==
  ASSUME NEW h, NEW cl, Caller(h), Owns(h, cl), h.event \in {"complete", "stop"}
  PROVE  /\ Honest(Event("final", h.turn, "external"), cl)
         /\ Honest(Event("completed", h.turn, "external"), cl)
<1>1. cl[<<h.turn, "completed">>] = [source |-> h.source, committed |-> TRUE] /\ h.source # App
  BY DEF Owns, Committed, Caller
<1>2. cl[<<h.turn, "completed">>].committed /\ cl[<<h.turn, "completed">>].source # App
  BY <1>1
<1>3. /\ Event("final", h.turn, "external") \in Messages
      /\ Event("completed", h.turn, "external") \in Messages
  BY DEF Caller, Call0, Event, Messages, Kinds, Origins
<1> QED
  BY <1>2, <1>3 DEF Honest, Event

\* The prompt of a turn.
LEMMA PromptMoves ==
  ASSUME NEW h, NEW cl, NEW s, Caller(h), Grows(cl), Owns(h, cl),
         h.event \in {"submit", "complete"}, Prompt(h, cl, s)
  PROVE  Moved(h)
<1>1. "prompted" \in PointsOf(h.event)
  BY DEF PointsOf
<1>2. PICK s2 : Emit(h, cl, s2, Event("submitted", h.turn, "turn"), "prompted")
  BY DEF Prompt
<1> QED
  BY <1>1, <1>2, TurnEvents, EmitMoves

\* The session's creation before it.
LEMMA AnnounceMoves ==
  ASSUME NEW h, NEW cl, NEW s, Caller(h), Grows(cl), Owns(h, cl),
         h.event \in {"submit", "complete"}, Announce(h, cl, s)
  PROVE  Moved(h)
<1>1. "created" \in PointsOf(h.event)
  BY DEF PointsOf
<1> QED
  BY <1>1, AwaitMoves, PromptMoves DEF Announce

\* The final message of a turn.
LEMMA FinalMoves ==
  ASSUME NEW h, NEW cl, NEW s, Caller(h), Grows(cl), Owns(h, cl),
         h.event \in {"complete", "stop"}, Final(h, cl, s)
  PROVE  Moved(h)
<1>1. "finalled" \in PointsOf(h.event)
  BY DEF PointsOf
<1> QED
  BY <1>1, EndEvents, EmitMoves DEF Final

\* The same, told by a completion.
LEMMA CloseMoves ==
  ASSUME NEW h, NEW cl, NEW s, Caller(h), Grows(cl), Owns(h, cl),
         h.event = "complete", Close(h, cl, s)
  PROVE  Moved(h)
<1>1. PICK s2 : Final(h, cl, s2)
  BY DEF Close
<1> QED
  BY <1>1, FinalMoves

\* A message before the final one.
LEMMA MessageMoves ==
  ASSUME NEW h, NEW cl, NEW s, Caller(h), Grows(cl),
         h.event = "comment", Message(h, cl, s)
  PROVE  Moved(h)
<1>1. "leaving" \in PointsOf(h.event) /\ Owns(h, cl)
  BY DEF PointsOf, Owns
<1> QED
  BY <1>1, TurnEvents, EmitMoves DEF Message

\* A turn's start that nobody else has told of.
LEMMA OpenMoves ==
  ASSUME NEW h, NEW cl, NEW s, Caller(h), Grows(cl), Owns(h, cl),
         h.event \in {"comment", "complete"}, Open(h, cl, s)
  PROVE  Moved(h)
<1>1. "opened" \in PointsOf(h.event)
  BY DEF PointsOf
<1> QED
  BY <1>1, TurnEvents, EmitMoves DEF Open

\* Each source asks for a claim in the same five ways, and says yes or no
\* to its own steps.
LEMMA CommentaryMoves ==
  ASSUME NEW h, NEW cl, NEW s, Caller(h), Grows(cl),
         h.event = "comment", Commentary(h, cl, s)
  PROVE  Moved(h)
<1> DEFINE key  == <<h.turn, "started">>
           held == [cl EXCEPT ![key] = [source |-> h.source, committed |-> FALSE]]
           lost == [cl EXCEPT ![key] = Committed("codex_app_server")]
<1>1. Owns(h, cl) /\ "started" \in Claimable /\ "claimStarted" \in PointsOf(h.event)
  BY DEF Owns, Claimable, PointsOf
<1>2. ~cl[key].committed => Grows(held) /\ Owns(h, held) /\ Grows(lost) /\ Owns(h, lost)
  BY <1>1, ClaimTypes, ClaimGrows
<1>3. CASE Message(h, cl, s)
  BY <1>3, MessageMoves
<1>4. CASE Open(h, cl, s)
  BY <1>1, <1>4, OpenMoves
<1>5. CASE ~cl[key].committed /\ Message(h, lost, s)
  BY <1>2, <1>5, MessageMoves
<1>6. CASE ~cl[key].committed /\ Await(h, held, s, "claimStarted") /\ UNCHANGED busVars
  BY <1>1, <1>2, <1>6, AwaitMoves
<1> QED
  BY <1>3, <1>4, <1>5, <1>6 DEF Commentary, Claim

\* The same for a completion that has its own claim.
LEMMA CompletionMoves ==
  ASSUME NEW h, NEW cl, NEW s, Caller(h), Grows(cl), Owns(h, cl),
         h.event = "complete", Completion(h, cl, s)
  PROVE  Moved(h)
<1> DEFINE key  == <<h.turn, "started">>
           held == [cl EXCEPT ![key] = [source |-> h.source, committed |-> FALSE]]
           lost == [cl EXCEPT ![key] = Committed("codex_app_server")]
<1>1. "started" \in Claimable /\ "claimStarted" \in PointsOf(h.event)
  BY DEF Claimable, PointsOf
<1>2. ~cl[key].committed => Grows(held) /\ Owns(h, held) /\ Grows(lost) /\ Owns(h, lost)
  BY <1>1, ClaimTypes, ClaimGrows
<1>3. CASE Close(h, cl, s)
  BY <1>3, CloseMoves
<1>4. CASE Announce(h, cl, s)
  BY <1>4, AnnounceMoves
<1>5. CASE ~cl[key].committed /\ Close(h, lost, s)
  BY <1>2, <1>5, CloseMoves
<1>6. CASE ~cl[key].committed /\ Await(h, held, s, "claimStarted") /\ UNCHANGED busVars
  BY <1>1, <1>2, <1>6, AwaitMoves
<1> QED
  BY <1>3, <1>4, <1>5, <1>6 DEF Completion, Claim

\* A call that begins claims what it is about, under the name its relay
\* came with.
LEMMA BeginMoves ==
  ASSUME claims \in ClaimsSet, NEW h, Caller(h), h.event # "work", Begin(h)
  PROVE  Moved(h)
<1> DEFINE key(k)  == <<h.turn, k>>
           held(k) == [claims EXCEPT ![key(k)] = [source |-> h.source, committed |-> FALSE]]
           lost(k) == [claims EXCEPT ![key(k)] = Committed("codex_app_server")]
<1>1. Grows(claims)
  BY KeptSelf DEF Grows
<1>2. "claim" \in PointsOf(h.event)
  BY DEF PointsOf, Caller, Call0, Events
<1>3. ASSUME NEW k \in Claimable, ~claims[key(k)].committed
      PROVE  Grows(held(k)) /\ Grows(lost(k))
  BY <1>1, <1>3, ClaimTypes, ClaimGrows
<1>4. CASE Leave(h, claims, session)
  BY <1>1, <1>4, LeaveMoves
<1>5. ASSUME NEW k \in Claimable, ~claims[key(k)].committed,
             \/ Leave(h, lost(k), session)
             \/ Await(h, held(k), session, "claim") /\ UNCHANGED busVars
      PROVE  Moved(h)
  <2>1. Grows(held(k)) /\ Grows(lost(k))
    BY <1>3, <1>5
  <2> HIDE DEF held, lost
  <2> QED
    BY <1>2, <1>5, <2>1, LeaveMoves, AwaitMoves
<1>6. CASE h.event = "submit" /\ Claim(h, claims, session, "started", "claim", Announce, Leave)
  <2>1. "started" \in Claimable /\ Owns(h, claims)
    BY <1>6 DEF Claimable, Owns
  <2>2. CASE Announce(h, claims, session)
    BY <1>1, <1>6, <2>1, <2>2, AnnounceMoves
  <2> QED
    BY <1>4, <1>5, <1>6, <2>1, <2>2 DEF Claim
<1>7. CASE h.event = "comment" /\ Claim(h, claims, session, "commentary", "claim", Commentary, Leave)
  <2>1. "commentary" \in Claimable
    BY DEF Claimable
  <2>2. CASE Commentary(h, claims, session)
    BY <1>1, <1>7, <2>2, CommentaryMoves
  <2> QED
    BY <1>4, <1>5, <1>7, <2>1, <2>2 DEF Claim
<1>8. CASE h.event = "complete" /\ Claim(h, claims, session, "completed", "claim", Completion, Leave)
  <2>1. "completed" \in Claimable
    BY DEF Claimable
  <2>2. CASE claims[key("completed")] = Committed(h.source) /\ Completion(h, claims, session)
    BY <1>1, <1>8, <2>2, CompletionMoves DEF Owns
  <2> QED
    BY <1>4, <1>5, <1>8, <2>1, <2>2 DEF Claim
<1>9. CASE h.event = "stop" /\ Claim(h, claims, session, "completed", "claim", Final, Leave)
  <2>1. "completed" \in Claimable
    BY DEF Claimable
  <2>2. CASE claims[key("completed")] = Committed(h.source) /\ Final(h, claims, session)
    BY <1>1, <1>9, <2>2, FinalMoves DEF Owns
  <2> QED
    BY <1>4, <1>5, <1>9, <2>1, <2>2 DEF Claim
<1> QED
  BY <1>4, <1>6, <1>7, <1>8, <1>9 DEF Begin

\* What a call finds of its reservation when it goes on: the app-server has
\* taken the claim, or it is the caller's now, or another's.
LEMMA ResolveGrows ==
  ASSUME claims \in ClaimsSet, NEW h, Caller(h), NEW k \in Claimable,
         NEW cl,
         cl = IF authoritative /\ ~claims[<<h.turn, k>>].committed
              THEN [claims EXCEPT ![<<h.turn, k>>] = Committed("codex_app_server")] ELSE claims
  PROVE  /\ Grows(cl)
         /\ Owns(h, claims) => Owns(h, cl)
         /\ MayCommit(cl[<<h.turn, k>>], h.source) =>
              LET own == [cl EXCEPT ![<<h.turn, k>>] = Committed(h.source)]
              IN  /\ Grows(own)
                  /\ own[<<h.turn, k>>] = Committed(h.source)
                  /\ Owns(h, claims) => Owns(h, own)
<1> DEFINE key == <<h.turn, k>>
           own == [cl EXCEPT ![key] = Committed(h.source)]
<1>1. Grows(claims) /\ key \in ClaimKeys
  BY KeptSelf, ClaimTypes DEF Grows
<1>2. Grows(cl) /\ (Owns(h, claims) => Owns(h, cl))
  <2>1. CASE authoritative /\ ~claims[key].committed
    <3>1. cl = [claims EXCEPT ![<<h.turn, k>>] = Committed("codex_app_server")]
      BY <2>1
    <3>2. Committed("codex_app_server") \in ClaimType /\ ~claims[<<h.turn, k>>].committed
      BY <2>1, ClaimTypes
    <3>3. /\ Grows([claims EXCEPT ![<<h.turn, k>>] = Committed("codex_app_server")])
          /\ Owns(h, claims) =>
               Owns(h, [claims EXCEPT ![<<h.turn, k>>] = Committed("codex_app_server")])
      BY <1>1, <3>2, ClaimGrows
    <3> QED
      BY <3>1, <3>3
  <2>2. CASE ~(authoritative /\ ~claims[key].committed)
    BY <1>1, <2>2
  <2> QED
    BY <2>1, <2>2
<1>3. ASSUME MayCommit(cl[key], h.source)
      PROVE  /\ Grows(own)
             /\ own[key] = Committed(h.source)
             /\ Owns(h, claims) => Owns(h, own)
  <2>1. cl \in ClaimsSet
    BY <1>2 DEF Grows, Kept
  <2>2. cl[key] \in ClaimType
    BY <1>1, <2>1 DEF ClaimsSet
  <2>3. ~cl[key].committed \/ cl[key] = Committed(h.source)
    BY <1>3, <2>2 DEF MayCommit, Committed, ClaimType
  <2>4. own[key] = Committed(h.source)
    BY <1>1, <2>1 DEF ClaimsSet
  <2>5. Grows(own) /\ (Owns(h, cl) => Owns(h, own))
    BY <1>2, <2>3, ClaimTypes, ClaimGrows
  <2> QED
    BY <1>2, <2>4, <2>5
<1> QED
  BY <1>2, <1>3

\* A call that goes on tells of its turn's end only when that is its own.
LEMMA ContinueMoves ==
  ASSUME claims \in ClaimsSet, NEW h, Legit(h, claims), Continue(h)
  PROVE  Moved(h)
<1> DEFINE key(k)  == <<h.turn, k>>
           cl(k)   == IF authoritative /\ ~claims[key(k)].committed
                      THEN [claims EXCEPT ![key(k)] = Committed("codex_app_server")] ELSE claims
           own(k)  == [cl(k) EXCEPT ![key(k)] = Committed(h.source)]
           mine(k) == MayCommit(cl(k)[key(k)], h.source)
<1>1. Grows(claims) /\ Caller(h) /\ (h.pc # "claim" => Owns(h, claims))
  BY KeptSelf DEF Grows, Legit
<1>2. ASSUME NEW k \in Claimable
      PROVE  /\ Grows(cl(k))
             /\ Owns(h, claims) => Owns(h, cl(k))
             /\ mine(k) => /\ Grows(own(k))
                           /\ own(k)[key(k)] = Committed(h.source)
                           /\ Owns(h, claims) => Owns(h, own(k))
  BY <1>1, ResolveGrows
<1>3. {"started", "commentary", "completed"} \subseteq Claimable
  BY DEF Claimable
<1>4. CASE h.pc = "claim" /\ h.event = "submit" /\ Resolve(h, "started", Announce, Leave)
  <2>1. (mine("started") /\ Announce(h, own("started"), session))
          \/ Leave(h, cl("started"), session)
    BY <1>4 DEF Resolve
  <2> HIDE DEF cl, own, mine
  <2>2. Owns(h, own("started"))
    BY <1>4 DEF Owns
  <2> QED
    BY <1>1, <1>2, <1>3, <1>4, <2>1, <2>2, AnnounceMoves, LeaveMoves
<1>5. CASE h.pc = "claim" /\ h.event = "comment" /\ Resolve(h, "commentary", Commentary, Leave)
  <2>1. (mine("commentary") /\ Commentary(h, own("commentary"), session))
          \/ Leave(h, cl("commentary"), session)
    BY <1>5 DEF Resolve
  <2> HIDE DEF cl, own, mine
  <2> QED
    BY <1>1, <1>2, <1>3, <1>5, <2>1, CommentaryMoves, LeaveMoves
<1>6. CASE h.pc = "claim" /\ h.event = "complete" /\ Resolve(h, "completed", Completion, Leave)
  <2>1. (mine("completed") /\ Completion(h, own("completed"), session))
          \/ Leave(h, cl("completed"), session)
    BY <1>6 DEF Resolve
  <2>2. mine("completed") => Owns(h, own("completed"))
    <3> HIDE DEF cl, own, mine
    <3> QED
      BY <1>2, <1>3 DEF Owns
  <2> HIDE DEF cl, own, mine
  <2> QED
    BY <1>1, <1>2, <1>3, <1>6, <2>1, <2>2, CompletionMoves, LeaveMoves
<1>7. CASE h.pc = "claim" /\ h.event = "stop" /\ Resolve(h, "completed", Final, Leave)
  <2>1. (mine("completed") /\ Final(h, own("completed"), session))
          \/ Leave(h, cl("completed"), session)
    BY <1>7 DEF Resolve
  <2>2. mine("completed") => Owns(h, own("completed"))
    <3> HIDE DEF cl, own, mine
    <3> QED
      BY <1>2, <1>3 DEF Owns
  <2> HIDE DEF cl, own, mine
  <2> QED
    BY <1>1, <1>2, <1>3, <1>7, <2>1, <2>2, FinalMoves, LeaveMoves
<1>8. CASE h.pc = "claimStarted" /\ h.event = "comment" /\ Resolve(h, "started", Open, Message)
  <2>1. (mine("started") /\ Open(h, own("started"), session))
          \/ Message(h, cl("started"), session)
    BY <1>8 DEF Resolve
  <2> HIDE DEF cl, own, mine
  <2>2. Owns(h, own("started"))
    BY <1>8 DEF Owns
  <2> QED
    BY <1>1, <1>2, <1>3, <1>8, <2>1, <2>2, OpenMoves, MessageMoves
<1>9. CASE h.pc = "claimStarted" /\ h.event = "complete" /\ Resolve(h, "started", Announce, Close)
  <2>1. (mine("started") /\ Announce(h, own("started"), session))
          \/ Close(h, cl("started"), session)
    BY <1>9 DEF Resolve
  <2> HIDE DEF cl, own, mine
  <2>2. Owns(h, claims)
    BY <1>1, <1>9
  <2>3. /\ Grows(cl("started")) /\ Owns(h, cl("started"))
        /\ mine("started") => Grows(own("started")) /\ Owns(h, own("started"))
    BY <1>2, <1>3, <2>2
  <2> QED
    BY <1>1, <1>9, <2>1, <2>3, AnnounceMoves, CloseMoves
<1>10. CASE h.pc = "created" /\ Prompt(h, claims, [session EXCEPT !.created = TRUE])
  <2>1. h.event \in {"submit", "complete"}
    BY <1>10 DEF Legit, PointsOf, Caller, Call0, Events
  <2> QED
    BY <1>1, <1>10, <2>1, PromptMoves
<1>11. CASE /\ h.pc = "prompted"
            /\ Emit(h, claims, session, Event("started", h.turn, "turn"),
                    IF h.event = "submit" THEN "leaving" ELSE "opened")
  <2>1. h.event \in {"submit", "complete"}
    BY <1>11 DEF Legit, PointsOf, Caller, Call0, Events
  <2>2. (IF h.event = "submit" THEN "leaving" ELSE "opened") \in PointsOf(h.event)
    BY <2>1 DEF PointsOf
  <2>3. Owns(h, claims) /\ Honest(Event("started", h.turn, "turn"), claims)
    BY <1>1, <1>11, TurnEvents
  <2> QED
    BY <1>1, <1>11, <2>2, <2>3, EmitMoves
<1>12. CASE /\ h.pc = "opened" /\ h.event = "comment"
            /\ Message(h, claims, [session EXCEPT !.started = h.turn])
  BY <1>1, <1>12, MessageMoves
<1>13. CASE /\ h.pc = "opened" /\ h.event = "complete"
            /\ Close(h, claims, [session EXCEPT !.started = h.turn])
  BY <1>1, <1>13, CloseMoves
<1>14. CASE /\ h.pc = "finalled"
            /\ Emit(h, claims, session, Event("completed", h.turn, "external"), "closing")
  <2>1. h.event \in {"complete", "stop"}
    BY <1>14 DEF Legit, PointsOf, Caller, Call0, Events
  <2>2. "closing" \in PointsOf(h.event)
    BY <2>1 DEF PointsOf
  <2>3. Owns(h, claims)
    BY <1>1, <1>14
  <2>4. Honest(Event("completed", h.turn, "external"), claims)
    BY <1>1, <2>1, <2>3, EndEvents
  <2> QED
    BY <1>1, <1>14, <2>2, <2>3, <2>4, EmitMoves
<1>15. CASE h.pc = "closing" /\ Leave(h, claims, [session EXCEPT !.terminal = h.turn])
  BY <1>1, <1>15, LeaveMoves
<1>16. CASE h.pc = "leaving" /\ Leave(h, claims, session)
  BY <1>1, <1>16, LeaveMoves
<1> QED
  BY <1>4, <1>5, <1>6, <1>7, <1>8, <1>9, <1>10, <1>11, <1>12, <1>13, <1>14, <1>15, <1>16
  DEF Continue

----------------------------------------------------------------------------
(* What a task's step leaves behind.                                       *)

\* The rest of a sequence has its elements.
LEMMA TailPart ==
  ASSUME NEW S, NEW q \in Seq(S), q # <<>>
  PROVE  /\ Tail(q) \in Seq(S)
         /\ \A i \in DOMAIN Tail(q) : i + 1 \in DOMAIN q /\ Tail(q)[i] = q[i + 1]
<1>1. Len(q) \in Nat /\ Len(q) # 0 /\ DOMAIN q = 1 .. Len(q)
  OBVIOUS
<1>2. Tail(q) \in Seq(S) /\ Len(Tail(q)) = Len(q) - 1
  BY <1>1
<1>3. DOMAIN Tail(q) = 1 .. Len(q) - 1
  BY <1>2
<1>4. ASSUME NEW i \in 1 .. Len(q) - 1
      PROVE  i + 1 \in 1 .. Len(q) /\ Tail(q)[i] = q[i + 1]
  BY <1>1
<1> QED
  BY <1>1, <1>2, <1>3, <1>4

\* A longer sequence has the elements of the shorter and the new one.
LEMMA AppendPart ==
  ASSUME NEW S, NEW q \in Seq(S), NEW x \in S
  PROVE  /\ Append(q, x) \in Seq(S)
         /\ \A i \in DOMAIN Append(q, x) :
              Append(q, x)[i] = x \/ (i \in DOMAIN q /\ Append(q, x)[i] = q[i])
<1>1. Len(q) \in Nat /\ DOMAIN q = 1 .. Len(q)
  OBVIOUS
<1>2. Append(q, x) \in Seq(S) /\ Len(Append(q, x)) = Len(q) + 1
  OBVIOUS
<1>3. DOMAIN Append(q, x) = 1 .. Len(q) + 1
  BY <1>2
<1>4. ASSUME NEW i \in 1 .. Len(q) + 1
      PROVE  Append(q, x)[i] = x \/ (i \in 1 .. Len(q) /\ Append(q, x)[i] = q[i])
  <2>1. CASE i = Len(q) + 1
    BY <2>1
  <2>2. CASE i # Len(q) + 1
    BY <1>1, <2>2
  <2> QED
    BY <2>1, <2>2
<1> QED
  BY <1>1, <1>2, <1>3, <1>4

\* What waits apart from the call that runs now is what waited before.
LEMMA OthersLegit ==
  ASSUME ReadyOk, NEW h, h.pc = "" \/ ready # <<>>
  PROVE  /\ Others(h) \in Seq(Call0)
         /\ \A i \in DOMAIN Others(h) : Legit(Others(h)[i], claims)
<1>1. CASE h.pc = ""
  BY <1>1 DEF Others, ReadyOk
<1>2. CASE h.pc # ""
  <2>1. Others(h) = Tail(ready) /\ ready \in Seq(Call0) /\ ready # <<>>
    BY <1>2 DEF Others, ReadyOk
  <2>2. /\ Tail(ready) \in Seq(Call0)
        /\ \A i \in DOMAIN Tail(ready) : i + 1 \in DOMAIN ready /\ Tail(ready)[i] = ready[i + 1]
    BY <2>1, TailPart
  <2> QED
    BY <2>1, <2>2 DEF ReadyOk
<1> QED
  BY <1>1, <1>2

\* A task that gives way waits behind the others.
LEMMA AppendLegit ==
  ASSUME NEW rest \in Seq(Call0), NEW c \in Call0, NEW cl, Legit(c, cl),
         \A i \in DOMAIN rest : Legit(rest[i], cl)
  PROVE  /\ Append(rest, c) \in Seq(Call0)
         /\ \A i \in DOMAIN Append(rest, c) : Legit(Append(rest, c)[i], cl)
<1>1. Append(rest, c) \in Seq(Call0)
  BY AppendPart
<1>2. \A i \in DOMAIN Append(rest, c) :
        Append(rest, c)[i] = c \/ (i \in DOMAIN rest /\ Append(rest, c)[i] = rest[i])
  BY AppendPart
<1> QED
  BY <1>1, <1>2

\* A step of a call keeps every claim and leaves everything in agreement.
LEMMA MovedKeeps ==
  ASSUME ReadyOk, SeenOk, NEW h, Caller(h), h.pc = "" \/ ready # <<>>, Moved(h)
  PROVE  Kept(claims, claims') /\ ReadyOk' /\ SeenOk'
<1>1. Kept(claims, claims')
  BY DEF Moved, Grows
<1>2. PICK rest : rest = Others(h)
  OBVIOUS
<1>3. rest \in Seq(Call0) /\ \A i \in DOMAIN rest : Legit(rest[i], claims)
  BY <1>2, OthersLegit
<1>4. PICK cl2 : cl2 = claims'
  OBVIOUS
<1>5. \A i \in DOMAIN rest : Legit(rest[i], cl2)
  BY <1>1, <1>3, <1>4, LegitKept
<1>6. ReadyOk'
  <2>1. CASE ready' = rest
    BY <1>3, <1>4, <1>5, <2>1 DEF ReadyOk
  <2>2. ASSUME NEW p \in PointsOf(h.event), ready' = Append(rest, At(h, p)),
               p # "claim" => Owns(h, cl2)
        PROVE  ReadyOk'
    <3>1. p \in Points
      BY DEF PointsOf, Points, Caller, Call0, Events
    <3>2. At(h, p) \in Call0 /\ At(h, p).pc = p /\ At(h, p).event = h.event
            /\ At(h, p).source = h.source /\ At(h, p).turn = h.turn
      BY <3>1 DEF At, Caller, Call0
    <3>3. Legit(At(h, p), cl2)
      BY <2>2, <3>2 DEF Legit, Caller, Owns
    <3>4. PICK c : c = At(h, p)
      OBVIOUS
    <3>5. /\ Append(rest, c) \in Seq(Call0)
          /\ \A i \in DOMAIN Append(rest, c) : Legit(Append(rest, c)[i], cl2)
      BY <1>3, <1>5, <3>2, <3>3, <3>4, AppendLegit
    <3> QED
      BY <1>4, <2>2, <3>4, <3>5 DEF ReadyOk
  <2> QED
    BY <1>2, <1>4, <2>1, <2>2 DEF Moved
<1>7. SeenOk'
  <2>1. \A e \in seen : Keyed(e) /\ Honest(e, cl2)
    BY <1>1, <1>4, HonestKept DEF SeenOk
  <2>2. \A e \in seen' : Keyed(e) /\ Honest(e, cl2)
    BY <1>4, <2>1 DEF Moved
  <2> QED
    BY <1>4, <2>2 DEF SeenOk
<1> QED
  BY <1>1, <1>6, <1>7

\* What is queued stays true as well.
LEMMA QueueKept ==
  ASSUME QueueOk, Kept(claims, claims')
  PROVE  \A i \in DOMAIN appq : Honest(appq[i], claims')
<1>1. PICK cl2 : cl2 = claims'
  OBVIOUS
<1> QED
  BY <1>1, HonestKept DEF QueueOk

----------------------------------------------------------------------------
(* The actions.                                                            *)

Step == IngressInv' /\ Kept(claims, claims')

\* What only moves what is on its way.
LEMMA FlowOnly ==
  ASSUME IngressInv, UNCHANGED <<seen, appq, ready, claims>>, FlowOk'
  PROVE  Step
<1>1. Kept(claims, claims')
  BY KeptSelf DEF IngressInv
<1>2. ReadyOk' /\ SeenOk' /\ QueueOk' /\ claims' \in ClaimsSet
  BY DEF IngressInv, ReadyOk, SeenOk, QueueOk
<1> QED
  BY <1>1, <1>2 DEF Step, IngressInv

\* What a call does, with the queue as it was or without its first event.
LEMMA CallOnly ==
  ASSUME IngressInv, FlowOk', NEW h, Caller(h), h.pc = "" \/ ready # <<>>, Moved(h),
         appq' = appq \/ (appq # <<>> /\ appq' = Tail(appq))
  PROVE  Step
<1>1. Kept(claims, claims') /\ ReadyOk' /\ SeenOk'
  BY MovedKeeps DEF IngressInv
<1>2. claims' \in ClaimsSet
  BY <1>1 DEF Kept
<1>3. PICK cl2 : cl2 = claims'
  OBVIOUS
<1>4. appq \in Seq(Messages) /\ \A i \in DOMAIN appq : Honest(appq[i], cl2)
  BY <1>1, <1>3, QueueKept DEF IngressInv, QueueOk
<1>5. appq' \in Seq(Messages) /\ \A i \in DOMAIN appq' : Honest(appq'[i], cl2)
  <2>1. CASE appq' = appq
    BY <1>4, <2>1
  <2>2. CASE appq # <<>> /\ appq' = Tail(appq)
    <3>1. appq \in Seq(Messages)
      BY <1>4
    <3>2. /\ Tail(appq) \in Seq(Messages)
          /\ \A i \in DOMAIN Tail(appq) : i + 1 \in DOMAIN appq /\ Tail(appq)[i] = appq[i + 1]
      BY <2>2, <3>1, TailPart
    <3> QED
      BY <1>4, <2>2, <3>2
  <2> QED
    BY <2>1, <2>2
<1>6. QueueOk'
  BY <1>3, <1>5 DEF QueueOk
<1> QED
  BY <1>1, <1>2, <1>6 DEF Step, IngressInv

\* A relay taken out leaves relays.
LEMMA RelaysLeft ==
  ASSUME NEW i \in DOMAIN relays, relays \in Seq(Relay)
  PROVE  RemoveAt(relays, i) \in Seq(Relay)
<1>1. Len(relays) \in Nat /\ i \in 1 .. Len(relays) /\ DOMAIN relays = 1 .. Len(relays)
  OBVIOUS
<1>2. SubSeq(relays, 1, i - 1) \in Seq(Relay)
  BY <1>1
<1>3. SubSeq(relays, i + 1, Len(relays)) \in Seq(Relay)
  BY <1>1
<1> QED
  BY <1>2, <1>3 DEF RemoveAt

\* A relay of a hook or of notify.
LEMMA RelayCalls ==
  ASSUME NEW t \in Turns
  PROVE  /\ Call("submit", "codex_hook", t) \in Relay
         /\ Call("stop", "codex_hook", t) \in Relay
         /\ Call("complete", "codex_notify", t) \in Relay
  BY DEF Call, Relay

\* What the program takes up is the call of a source.
LEMMA Callers ==
  ASSUME NEW t \in Turns
  PROVE  /\ \A e \in {"submit", "comment", "complete"} : Caller(Call(e, "codex_rollout", t))
         /\ Caller(Call("work", "codex_app_server", t))
         /\ \A r \in Relay : Caller(r)
<1>1. \A e \in {"submit", "comment", "complete"} : Caller(Call(e, "codex_rollout", t))
  BY DEF Call, Caller, Call0, Events, Sources, App
<1>2. Caller(Call("work", "codex_app_server", t))
  BY DEF Call, Caller, Call0, Events, Sources, App
<1>3. \A r \in Relay : Caller(r)
  BY DEF Relay, Caller, Call0, Events, Sources, App
<1> QED
  BY <1>1, <1>2, <1>3

\* Codex starts a turn.
LEMMA StartTurnKeeps ==
  ASSUME IngressInv, NEW mode \in Modes, StartTurn(mode)
  PROVE  Step
<1> DEFINE t == codex.turn + 1
<1>1. /\ codex \in [turn : 0 .. LastTurn, running : BOOLEAN, mode : {"cli", "app"},
                    said : BOOLEAN, lost : Nat]
      /\ codex.turn < LastTurn /\ LastTurn \in Nat /\ mode \in {"cli", "app"}
  BY IngressAssumption, LastTurnAssumption DEF IngressInv, FlowOk, StartTurn
<1>2. codex.turn \in 0 .. LastTurn
  BY <1>1
<1>3. t \in 1 .. LastTurn /\ t \in 0 .. LastTurn /\ t # 0
  BY <1>1, <1>2
<1>4. t \in Turns
  BY <1>3 DEF Turns
<1> HIDE DEF t
<1>5. codex' = [codex EXCEPT !.turn = t, !.running = TRUE, !.mode = mode, !.said = FALSE]
  BY DEF StartTurn, t
<1>6. codex' \in [turn : 0 .. LastTurn, running : BOOLEAN, mode : {"cli", "app"},
                  said : BOOLEAN, lost : Nat]
  BY <1>1, <1>3, <1>5
<1>7. codex'.turn # 0
  BY <1>1, <1>3, <1>5
<1>8. relays' \in Seq(Relay)
  BY <1>4, RelayCalls DEF IngressInv, FlowOk, StartTurn, t
<1>9. wire' \in Seq(Notices)
  BY <1>4 DEF IngressInv, FlowOk, StartTurn, t, Notices
<1>10. UNCHANGED <<seen, appq, ready, claims>>
  BY DEF StartTurn, busVars
<1> QED
  BY <1>6, <1>7, <1>8, <1>9, <1>10, FlowOnly DEF FlowOk

\* Codex says something meanwhile.
LEMMA CommentKeeps ==
  ASSUME IngressInv, Comment
  PROVE  Step
<1>1. /\ codex \in [turn : 0 .. LastTurn, running : BOOLEAN, mode : {"cli", "app"},
                    said : BOOLEAN, lost : Nat]
      /\ codex.turn # 0 /\ LastTurn \in Nat
  BY LastTurnAssumption DEF IngressInv, FlowOk, Comment
<1>2. codex.turn \in Turns
  BY <1>1 DEF Turns
<1>3. codex' = [codex EXCEPT !.said = TRUE]
  BY DEF Comment
<1>4. /\ codex' \in [turn : 0 .. LastTurn, running : BOOLEAN, mode : {"cli", "app"},
                     said : BOOLEAN, lost : Nat]
      /\ codex'.turn # 0
  BY <1>1, <1>3
<1>5. relays' \in Seq(Relay)
  BY DEF IngressInv, FlowOk, Comment
<1>6. wire' \in Seq(Notices)
  BY <1>2 DEF IngressInv, FlowOk, Comment, Notices
<1>7. UNCHANGED <<seen, appq, ready, claims>>
  BY DEF Comment, busVars
<1> QED
  BY <1>4, <1>5, <1>6, <1>7, FlowOnly DEF FlowOk

\* Codex ends the turn.
LEMMA EndTurnKeeps ==
  ASSUME IngressInv, EndTurn
  PROVE  Step
<1>1. /\ codex \in [turn : 0 .. LastTurn, running : BOOLEAN, mode : {"cli", "app"},
                    said : BOOLEAN, lost : Nat]
      /\ codex.turn # 0 /\ LastTurn \in Nat
  BY LastTurnAssumption DEF IngressInv, FlowOk, EndTurn
<1>2. codex.turn \in Turns
  BY <1>1 DEF Turns
<1>3. codex' = [codex EXCEPT !.running = FALSE]
  BY DEF EndTurn
<1>4. /\ codex' \in [turn : 0 .. LastTurn, running : BOOLEAN, mode : {"cli", "app"},
                     said : BOOLEAN, lost : Nat]
      /\ codex'.turn # 0
  BY <1>1, <1>3
<1>5. PICK t : t = codex.turn
  OBVIOUS
<1>6. relays' \in Seq(Relay)
  <2>1. PICK stop, notify : stop = Call("stop", "codex_hook", t) /\ notify = Call("complete", "codex_notify", t)
    OBVIOUS
  <2>2. stop \in Relay /\ notify \in Relay
    BY <1>2, <1>5, <2>1, RelayCalls
  <2>3. <<stop, notify>> \in Seq(Relay)
    BY <2>2
  <2>4. relays' = relays \o <<stop, notify>> /\ relays \in Seq(Relay)
    BY <1>5, <2>1 DEF EndTurn, IngressInv, FlowOk
  <2> QED
    BY <2>3, <2>4
<1>7. wire' \in Seq(Notices)
  <2>1. PICK final, over : final = <<"final", t>> /\ over = <<"completed", t>>
    OBVIOUS
  <2>2. final \in Notices /\ over \in Notices
    BY <1>2, <1>5, <2>1 DEF Notices
  <2>3. <<final, over>> \in Seq(Notices)
    BY <2>2
  <2>4. wire \in Seq(Notices)
    BY DEF IngressInv, FlowOk
  <2>5. wire' = wire \/ wire' = wire \o <<final, over>>
    BY <1>5, <2>1 DEF EndTurn
  <2>6. wire \o <<final, over>> \in Seq(Notices)
    BY <2>3, <2>4
  <2> QED
    BY <2>4, <2>5, <2>6
<1>8. UNCHANGED <<seen, appq, ready, claims>>
  BY DEF EndTurn, busVars
<1> QED
  BY <1>4, <1>6, <1>7, <1>8, FlowOnly DEF FlowOk

\* A relay is lost.
LEMMA LoseKeeps ==
  ASSUME IngressInv, NEW i \in DOMAIN relays, Lose(i)
  PROVE  Step
<1>1. /\ codex \in [turn : 0 .. LastTurn, running : BOOLEAN, mode : {"cli", "app"},
                    said : BOOLEAN, lost : Nat]
      /\ codex.running => codex.turn # 0
  BY DEF IngressInv, FlowOk
<1>2. codex' = [codex EXCEPT !.lost = @ + 1]
  BY DEF Lose
<1>3. /\ codex' \in [turn : 0 .. LastTurn, running : BOOLEAN, mode : {"cli", "app"},
                     said : BOOLEAN, lost : Nat]
      /\ codex'.running => codex'.turn # 0
  BY <1>1, <1>2
<1>4. relays' \in Seq(Relay)
  BY RelaysLeft DEF IngressInv, FlowOk, Lose
<1>5. wire' \in Seq(Notices)
  BY DEF IngressInv, FlowOk, Lose
<1>6. UNCHANGED <<seen, appq, ready, claims>>
  BY DEF Lose, busVars
<1> QED
  BY <1>3, <1>4, <1>5, <1>6, FlowOnly DEF FlowOk

\* A relay reaches the owner bridge.
LEMMA DeliverKeeps ==
  ASSUME IngressInv, NEW i \in DOMAIN relays, Deliver(i)
  PROVE  Step
<1>1. relays \in Seq(Relay) /\ claims \in ClaimsSet
  BY DEF IngressInv, FlowOk
<1>2. PICK h : h = relays[i]
  OBVIOUS
<1>3. h \in Relay
  BY <1>1, <1>2
<1>4. h.turn \in Turns /\ h.event # "work" /\ h.pc = ""
  BY <1>3 DEF Relay
<1>5. Caller(h)
  BY <1>3, <1>4, Callers
<1>6. Moved(h)
  BY <1>1, <1>2, <1>4, <1>5, BeginMoves DEF Deliver
<1>7. FlowOk'
  BY <1>1, RelaysLeft DEF IngressInv, FlowOk, Deliver
<1>8. appq' = appq
  BY DEF Deliver
<1> QED
  BY <1>4, <1>5, <1>6, <1>7, <1>8, CallOnly

\* The drain task takes the next row, and tells at once of a message.
LEMMA RowKeeps ==
  ASSUME IngressInv, NEW row \in {"prompt", "comment", "complete"}, NEW t \in Turns, Row(row, t)
  PROVE  Step
<1>1. FlowOk' /\ appq' = appq
  BY DEF IngressInv, FlowOk, Row, world
<1>2. CASE row = "comment"
  <2>1. PICK h : h = Call("comment", "codex_rollout", t)
    OBVIOUS
  <2>2. Caller(h)
    BY <2>1, Callers
  <2>3. h.event # "work" /\ h.pc = "" /\ claims \in ClaimsSet
    BY <2>1 DEF Call, IngressInv
  <2>4. Moved(h)
    BY <1>2, <2>1, <2>2, <2>3, BeginMoves DEF Row
  <2> QED
    BY <1>1, <2>2, <2>3, <2>4, CallOnly
<1>3. CASE row # "comment"
  BY <1>1, <1>3, FlowOnly DEF Row, busVars
<1> QED
  BY <1>2, <1>3

\* A grace period ends.
LEMMA FallbackKeeps ==
  ASSUME IngressInv, NEW t \in Turns, NEW k \in {"started", "completed"}, Fallback(t, k)
  PROVE  Step
<1>1. FlowOk' /\ appq' = appq
  BY DEF IngressInv, FlowOk, Fallback, world
<1>2. PICK e : e = IF k = "started" THEN "submit" ELSE "complete"
  OBVIOUS
<1>3. PICK h : h = Call(e, "codex_rollout", t)
  OBVIOUS
<1>4. Caller(h)
  BY <1>2, <1>3, Callers
<1>5. h.event # "work" /\ h.pc = "" /\ claims \in ClaimsSet
  BY <1>2, <1>3 DEF Call, IngressInv
<1>6. Moved(h)
  BY <1>2, <1>3, <1>4, <1>5, BeginMoves DEF Fallback
<1> QED
  BY <1>1, <1>4, <1>5, <1>6, CallOnly

\* The loop resumes the task that waits longest.
LEMMA ResumeKeeps ==
  ASSUME IngressInv, Resume
  PROVE  Step
<1>1. FlowOk' /\ appq' = appq
  BY DEF IngressInv, FlowOk, Resume, world
<1>2. PICK h : h = Head(ready)
  OBVIOUS
<1>3. ready \in Seq(Call0) /\ ready # <<>> /\ claims \in ClaimsSet
  BY DEF IngressInv, ReadyOk, Resume
<1>4. Legit(h, claims)
  <2>1. 1 \in DOMAIN ready /\ h = ready[1]
    BY <1>2, <1>3
  <2> QED
    BY <2>1 DEF IngressInv, ReadyOk
<1>5. Moved(h)
  BY <1>2, <1>3, <1>4, ContinueMoves DEF Resume
<1> QED
  BY <1>1, <1>3, <1>4, <1>5, CallOnly DEF Legit

\* A notification arrives.
LEMMA ReceiveKeeps ==
  ASSUME IngressInv, Receive
  PROVE  Step
<1>1. wire \in Seq(Notices) /\ wire # <<>> /\ claims \in ClaimsSet
  BY DEF IngressInv, FlowOk, Receive
<1>2. PICK e, t : e = Head(wire)[1] /\ t = Head(wire)[2]
  OBVIOUS
<1>3. Head(wire) \in Notices /\ Tail(wire) \in Seq(Notices)
  BY <1>1
<1>4. e \in {"started", "progress", "final", "completed"} /\ t \in Turns
  BY <1>2, <1>3 DEF Notices
<1>5. PICK k : k = KindOf(e)
  OBVIOUS
<1>6. k \in Claimable /\ (e \in {"final", "completed"} => k = "completed")
  BY <1>4, <1>5 DEF KindOf, Claimable
<1>7. <<t, k>> \in ClaimKeys
  BY <1>4, <1>6 DEF ClaimKeys
<1>8. FlowOk'
  BY <1>3 DEF IngressInv, FlowOk, Receive
<1>9. UNCHANGED <<seen, ready>>
  BY DEF Receive, busVars
<1>10. CASE Outdone(t, k)
  <2>1. UNCHANGED <<claims, appq>>
    BY <1>2, <1>5, <1>10 DEF Receive
  <2> QED
    BY <1>8, <1>9, <2>1, FlowOnly
<1>11. CASE ~Outdone(t, k)
  <2>1. PICK cl2 : cl2 = claims'
    OBVIOUS
  <2>2. PICK x : x = Event(e, t, IF e = "started" THEN "turn" ELSE "app")
    OBVIOUS
  <2>3. cl2 = [claims EXCEPT ![<<t, k>>] = Committed("codex_app_server")]
    BY <1>2, <1>5, <1>11, <2>1 DEF Receive
  <2>4. appq' = Append(appq, x)
    BY <1>2, <1>5, <1>11, <2>2 DEF Receive
  <2>5. Committed("codex_app_server") \in ClaimType
    BY DEF Committed, ClaimType, Sources
  <2>6. ~claims[<<t, k>>].committed \/ claims[<<t, k>>] = Committed("codex_app_server")
    <3>1. claims[<<t, k>>] \in ClaimType
      BY <1>1, <1>7 DEF ClaimsSet
    <3>2. ~claims[<<t, k>>].committed \/ claims[<<t, k>>].source = "codex_app_server"
      BY <1>11 DEF Outdone
    <3> QED
      BY <3>1, <3>2 DEF Committed, ClaimType
  <2>7. Kept(claims, cl2)
    BY <1>1, <1>7, <2>3, <2>5, <2>6, KeptSet
  <2>8. cl2[<<t, k>>] = [source |-> App, committed |-> TRUE]
    BY <1>1, <1>7, <2>3 DEF ClaimsSet, Committed, App
  <2>9. x \in Messages
    BY <1>4, <2>2 DEF Event, Messages, Kinds, Origins
  <2>10. Honest(x, cl2)
    <3>1. x.kind = e /\ x.turn = t /\ x.origin = IF e = "started" THEN "turn" ELSE "app"
      BY <2>2 DEF Event
    <3>2. CASE e \in {"final", "completed"}
      <4>1. cl2[<<t, "completed">>].committed /\ cl2[<<t, "completed">>].source = App
        BY <1>6, <2>8, <3>2
      <4> QED
        BY <2>9, <3>1, <3>2, <4>1 DEF Honest
    <3>3. CASE e \in {"started", "progress"}
      BY <2>9, <3>1, <3>3 DEF Honest
    <3> QED
      BY <1>4, <3>2, <3>3
  <2>11. appq \in Seq(Messages) /\ \A i \in DOMAIN appq : Honest(appq[i], cl2)
    BY <2>1, <2>7, QueueKept DEF IngressInv, QueueOk
  <2>12. QueueOk'
    <3>1. appq \in Seq(Messages)
      BY <2>11
    <3>2. /\ Append(appq, x) \in Seq(Messages)
          /\ \A i \in DOMAIN Append(appq, x) :
               Append(appq, x)[i] = x \/ (i \in DOMAIN appq /\ Append(appq, x)[i] = appq[i])
      BY <2>9, <3>1, AppendPart
    <3>3. \A i \in DOMAIN Append(appq, x) : Honest(Append(appq, x)[i], cl2)
      BY <2>10, <2>11, <3>2
    <3> QED
      BY <2>1, <2>4, <3>2, <3>3 DEF QueueOk
  <2>13. ReadyOk'
    BY <1>9, <2>1, <2>7, LegitKept DEF IngressInv, ReadyOk
  <2>14. SeenOk'
    BY <1>9, <2>1, <2>7, HonestKept DEF IngressInv, SeenOk
  <2>15. claims' \in ClaimsSet /\ Kept(claims, claims')
    BY <2>1, <2>7 DEF Kept
  <2> QED
    BY <1>8, <2>12, <2>13, <2>14, <2>15 DEF Step, IngressInv
<1> QED
  BY <1>10, <1>11

\* The event worker publishes.
LEMMA WorkKeeps ==
  ASSUME IngressInv, Work
  PROVE  Step
<1>1. FlowOk'
  BY DEF IngressInv, FlowOk, Work, world
<1>2. appq \in Seq(Messages) /\ appq # <<>> /\ claims \in ClaimsSet
  BY DEF IngressInv, QueueOk, Work
<1>3. PICK e : e = Head(appq)
  OBVIOUS
<1>4. Honest(e, claims)
  <2>1. 1 \in DOMAIN appq /\ e = appq[1]
    BY <1>2, <1>3
  <2> QED
    BY <2>1 DEF IngressInv, QueueOk
<1>5. PICK h : h = Call("work", "codex_app_server", e.turn)
  OBVIOUS
<1>6. e.turn \in Turns
  BY <1>4 DEF Honest, Messages
<1>7. Caller(h) /\ h.event = "work" /\ h.pc = ""
  BY <1>5, <1>6, Callers DEF Call
<1>8. PICK p : p = IF e.kind = "completed" THEN "closing" ELSE "leaving"
  OBVIOUS
<1>9. p \in PointsOf(h.event)
  BY <1>7, <1>8 DEF PointsOf
<1>10. Owns(h, claims) /\ Grows(claims)
  BY <1>2, <1>7, KeptSelf DEF Owns, Grows
<1>11. Emit(h, claims, session, e, p)
  BY <1>3, <1>5, <1>8 DEF Work
<1>12. Moved(h)
  BY <1>4, <1>9, <1>10, <1>11, EmitMoves
<1>13. appq' = Tail(appq)
  BY DEF Work
<1> QED
  BY <1>1, <1>2, <1>7, <1>12, <1>13, CallOnly

\* Whatever happens keeps the agreement and every committed claim.
LEMMA StepKeeps ==
  ASSUME IngressInv, [Next]_vars
  PROVE  Step
<1>1. ASSUME NEW mode \in Modes, StartTurn(mode) PROVE Step
  BY <1>1, StartTurnKeeps
<1>2. CASE Comment
  BY <1>2, CommentKeeps
<1>3. CASE EndTurn
  BY <1>3, EndTurnKeeps
<1>4. ASSUME NEW i \in DOMAIN relays, Deliver(i) PROVE Step
  BY <1>4, DeliverKeeps
<1>5. ASSUME NEW i \in DOMAIN relays, Lose(i) PROVE Step
  BY <1>5, LoseKeeps
<1>6. CASE Read
  BY <1>6, FlowOnly DEF Read, world, busVars, IngressInv, FlowOk
<1>7. ASSUME NEW row \in {"prompt", "comment", "complete"}, NEW t \in Turns, Row(row, t)
      PROVE  Step
  BY <1>7, RowKeeps
<1>8. ASSUME NEW t \in Turns, NEW k \in {"started", "completed"}, Fallback(t, k)
      PROVE  Step
  BY <1>8, FallbackKeeps
<1>9. CASE Resume
  BY <1>9, ResumeKeeps
<1>10. CASE Receive
  BY <1>10, ReceiveKeeps
<1>11. CASE Work
  BY <1>11, WorkKeeps
<1>12. CASE Release
  BY <1>12, FlowOnly DEF Release, world, busVars, IngressInv, FlowOk
<1>13. CASE UNCHANGED vars
  BY <1>13, FlowOnly DEF vars, world, busVars, IngressInv, FlowOk
<1> QED
  BY <1>1, <1>2, <1>3, <1>4, <1>5, <1>6, <1>7, <1>8, <1>9, <1>10, <1>11, <1>12, <1>13 DEF Next

----------------------------------------------------------------------------
(* Theorems.                                                               *)

\* At first nothing is claimed, told or under way.
LEMMA IngressInit ==
  ASSUME Init
  PROVE  IngressInv
<1>1. FlowOk
  <2>1. LastTurn \in Nat /\ 0 \in 0 .. LastTurn
    BY LastTurnAssumption
  <2> QED
    BY <2>1 DEF Init, FlowOk
<1>2. claims \in ClaimsSet
  BY DEF Init, Free, ClaimsSet, ClaimKeys, ClaimType
<1>3. ReadyOk /\ SeenOk /\ QueueOk
  <2>1. ready = <<>> /\ appq = <<>> /\ seen = {}
    BY DEF Init, BusInit
  <2>2. \A S : <<>> \in Seq(S)
    OBVIOUS
  <2>3. DOMAIN <<>> = {}
    OBVIOUS
  <2> QED
    BY <2>1, <2>2, <2>3 DEF ReadyOk, SeenOk, QueueOk
<1> QED
  BY <1>1, <1>2, <1>3 DEF IngressInv

\* What runs, what is queued and what has been told agree with the claims: a
\* call that awaits past its claim tells of a turn's end only if it owns
\* that, and the bus remembers an end only under its owner's identity.
THEOREM IngressInvariant == Spec => []IngressInv
<1>1. Init => IngressInv
  BY IngressInit
<1>2. IngressInv /\ [Next]_vars => IngressInv'
  BY StepKeeps DEF Step
<1> QED
  BY <1>1, <1>2, PTL DEF Spec

\* The sources tell of a turn's end once, whoever tells of it first, whatever
\* overtakes what while they await, and for any number of turns.
THEOREM EndToldOnce == Spec => []OneSequence
<1>1. IngressInv => OneSequence
  <2>1. ASSUME IngressInv, NEW e \in seen, NEW f \in seen, e.kind = f.kind, e.turn = f.turn
        PROVE  e = f
    <3>1. Keyed(e) /\ Honest(e, claims) /\ Honest(f, claims)
      BY <2>1 DEF IngressInv, SeenOk
    <3>2. e \in Messages /\ f \in Messages
      BY <3>1 DEF Honest
    <3>3. e.origin = f.origin
      BY <2>1, <3>1, <3>2 DEF Honest, Keyed, Messages, Kinds
    <3> QED
      BY <2>1, <3>2, <3>3 DEF Messages
  <2> QED
    BY <2>1 DEF OneSequence
<1> QED
  BY <1>1, IngressInvariant, PTL

\* A committed claim keeps its owner: neither the app-server that takes the
\* session over nor a source that awaited meanwhile takes it away.
THEOREM ClaimsKeepOwners == Spec => OwnerKept
<1>1. IngressInv /\ [Next]_vars
        => [\A k \in DOMAIN claims : claims[k].committed => claims'[k] = claims[k]]_vars
  <2>1. ASSUME IngressInv, [Next]_vars
        PROVE  \A k \in DOMAIN claims : claims[k].committed => claims'[k] = claims[k]
    <3>1. Kept(claims, claims') /\ DOMAIN claims = ClaimKeys
      BY <2>1, StepKeeps DEF Step, IngressInv, ClaimsSet
    <3> QED
      BY <3>1 DEF Kept
  <2> QED
    BY <2>1
<1> QED
  BY <1>1, IngressInvariant, PTL DEF Spec, OwnerKept
=============================================================================
