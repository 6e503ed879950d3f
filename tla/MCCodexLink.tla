---------------------------- MODULE MCCodexLink ----------------------------
(***************************************************************************)
(* TLC instances of the two ways to the codex app-server: the program's    *)
(* own connection and the proxy for a CLI.  They share no state; a run is  *)
(* about one of them, and the other stays as it is at first.               *)
(***************************************************************************)
EXTENDS Naturals, Sequences, FiniteSets

CONSTANTS Asks, Lists, Id, Verdicts,        \* RemoteProxy's
          Calls, MaxAdapters, MaxFaults     \* CodexConnection's

VARIABLES
  connected, down, outbound, prompt, race, answered, waiting, event, chosen, card, pressable,
  said, mirror, replies, resolved, cwds, list,
  server, extra, running, adapter, made, installed, tasks, inflight, monitor, call, faults,
  skipped, spoilt

Proxy == INSTANCE RemoteProxy WITH Requests <- Asks, open <- connected, buttons <- pressable
Codex == INSTANCE CodexConnection WITH turn <- running, task <- tasks

proxied   == <<connected, down, outbound, prompt, race, answered, waiting, event, chosen, card,
               pressable, said, mirror, replies, resolved, cwds, list>>
connection == <<server, extra, running, adapter, made, installed, tasks, inflight, monitor, call,
                faults, skipped, spoilt>>

ASSUME ProxyAssumption ==
  /\ Asks \cap Lists = {}
  /\ Id \in [Asks \cup Lists -> Nat]
  /\ \A r, s \in Asks : Id[r] = Id[s] => r = s
  /\ \A k, l \in Lists : Id[k] = Id[l] => k = l
  /\ "" \notin Verdicts

ASSUME ConnectionAssumption == MaxAdapters \in Nat \ {0} /\ MaxFaults \in Nat

BothInit == Proxy!Init /\ Codex!Init

ProxySpec ==
  /\ BothInit /\ [][Proxy!Next /\ UNCHANGED connection]_<<proxied, connection>>
  /\ WF_proxied(Proxy!Relay) /\ \A r \in Asks : WF_proxied(Proxy!Task(r))

ConnectionSpec ==
  /\ BothInit /\ [][Codex!Next /\ UNCHANGED proxied]_<<proxied, connection>>
  /\ WF_connection(Codex!MonitorFinds) /\ WF_connection(Codex!TurnEnds)
  /\ \A a \in Codex!Adapters : WF_connection(Codex!AdapterStep(a))
  /\ \A t \in Codex!Tasks : WF_connection(Codex!TaskStep(t))
  /\ \A c \in Calls : WF_connection(Codex!CallStep(c))

TwoCalls    == {"c1", "c2"}
TwoRequests == {"r0", "r1"}
OneRequest  == {"r1"}
OneList     == {"l1"}
Allow       == {"allow"}

\* The app-server numbers its requests from zero; the CLI is ahead by then.
Apart == [x \in {"r0", "r1", "l1"} |-> CASE x = "r0" -> 0 [] x = "r1" -> 1 [] x = "l1" -> 7]
Nobody == [x \in {} |-> 0]

\* A CLI that numbers its own requests from one is at the number the app-server
\* has come to.
SameId == [x \in {"r1", "l1"} |-> 1]

-----------------------------------------------------------------------------
\* The properties under their own names; each is stated in its module.
\* The first to decide an approval is the only one the proxy replies for.
FirstDecides == Proxy!FirstDecides

\* Once an approval is decided, its task ends.
DecisionEnds == Proxy!DecisionEnds

\* There is one connection, and it is seen to until it works again.
ConnectionKept == Codex!ConnectionKept

\* Every call that is made ends.
CallsEnd == Codex!CallsEnd
=============================================================================
