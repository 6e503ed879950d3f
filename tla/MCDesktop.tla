----------------------------- MODULE MCDesktop -----------------------------
(***************************************************************************)
(* Nine parts of the owner process that share no state with each other, in  *)
(* one run: a behaviour is one of one part, the others stay as they are at *)
(* first, so that the parts' state spaces add up and do not multiply.      *)
(***************************************************************************)
EXTENDS Naturals, Sequences, FiniteSets, TLC

CONSTANTS
  Sessions, First, Into, MaxPackages, MaxFaults,
  Accounts, Tasks, MaxSignIns, MaxMinted, MaxFailures,
  Texts, MaxRows, MaxRestarts,
  Threads, Messages, MaxHosts,
  Listed, Asks, MaxLoads, MaxWrites,
  MaxChanges, MaxQueue,
  Owners, Entries, Commands, MaxUpsets,
  Chats, MaxTasks, MaxMishaps,
  MaxTurns, MaxLooks

ASSUME DesktopAssumption ==
  /\ First \subseteq Sessions
  /\ {MaxFaults, MaxSignIns, MaxMinted, MaxFailures, MaxRows, MaxRestarts, MaxHosts,
      MaxLoads, MaxWrites, MaxChanges, MaxUpsets, MaxTasks, MaxMishaps} \subseteq Nat
  /\ {MaxPackages, MaxQueue, MaxTurns, MaxLooks} \subseteq Nat \ {0}
  /\ "nobody" \notin Messages

VARIABLES
  part,
  home, index, manifest, files, made, repaired, stored, rows, op, known, faults, scarred,
  listed, detail, auth, pending, task, minted, valid, signIns, redeemed, ended, brought,
  lost, torn, failures,
  shared, rollout, half, watch, poll, synced, streaming, told, shown, missed, restarts,
  to, stage, link, hosts, current, holder, socket, status, typed,
  rolled, active, writes, loads, loading, cache, ask,
  kind, version, gone, history, conn, queue, sent, view, silent,
  file, content, temporary, forward, job, build, trust, wanted, installed, fired, raced,
  upsets,
  doing, turn, board, busy, admission, service, host, app, backup, begun, mishaps, unheard,
  past, remapped, cut,
  alike, outcome, message, stream, wire, setup, seeker, final, unnamed

Assets   == INSTANCE SessionAssets
Store    == INSTANCE Accounts
Mirror   == INSTANCE RolloutMirror
Terminal == INSTANCE TerminalHost
Lists    == INSTANCE SessionList
Streams  == INSTANCE SessionStreams
Hooks    == INSTANCE HookInstall
Update   == INSTANCE AppUpdate
Recovery == INSTANCE StreamRecovery WITH link <- wire, task <- seeker, told <- final

Parts == {"assets", "accounts", "mirror", "terminal", "list", "streams", "hooks", "update",
          "recovery"}

assets   == <<home, index, manifest, files, made, repaired, stored, rows, op, known, faults, scarred>>
accounts == <<listed, detail, auth, pending, task, minted, valid, signIns, redeemed, ended,
              brought, lost, torn, failures>>
mirror   == <<shared, rollout, half, watch, poll, synced, streaming, told, shown, missed, restarts>>
terminal == <<to, stage, link, hosts, current, holder, socket, status, typed>>
list     == <<rolled, active, writes, loads, loading, cache, ask>>
streams  == <<kind, version, gone, history, conn, queue, sent, view, silent>>
hooks    == <<file, content, temporary, forward, job, build, trust, wanted, installed, fired,
              raced, upsets>>
update   == <<doing, turn, board, busy, admission, service, host, app, backup, begun, mishaps,
              unheard, past, remapped, cut>>
recovery == <<alike, outcome, message, stream, wire, setup, seeker, final, unnamed>>
vars     == <<part, assets, accounts, mirror, terminal, list, streams, hooks, update, recovery>>

\* What a part may choose at first, it chooses only in its own behaviours.
OneChoice ==
  /\ part # "assets"   => index = First /\ stored = <<>>
  /\ part # "mirror"   => ~shared
  /\ part # "terminal" => \A m, n \in Messages : m # n => to[m] # to[n]
  /\ part # "list"     => rolled = {}
  /\ part # "streams"  => kind = "activities" /\ ~history
  /\ part # "hooks"    => file = "hooks" /\ wanted = {}
  /\ part # "recovery" => ~alike

Init ==
  /\ part \in Parts
  /\ Assets!Init /\ Store!Init /\ Mirror!Init /\ Terminal!Init /\ Lists!Init /\ Streams!Init
  /\ Hooks!Init /\ Update!Init /\ Recovery!Init
  /\ OneChoice

Next ==
  /\ UNCHANGED part
  /\ \/ /\ part = "assets" /\ Assets!Next
        /\ UNCHANGED <<accounts, mirror, terminal, list, streams, hooks, update, recovery>>
     \/ /\ part = "accounts" /\ Store!Next
        /\ UNCHANGED <<assets, mirror, terminal, list, streams, hooks, update, recovery>>
     \/ /\ part = "mirror" /\ Mirror!Next
        /\ UNCHANGED <<assets, accounts, terminal, list, streams, hooks, update, recovery>>
     \/ /\ part = "terminal" /\ Terminal!Next
        /\ UNCHANGED <<assets, accounts, mirror, list, streams, hooks, update, recovery>>
     \/ /\ part = "list" /\ Lists!Next
        /\ UNCHANGED <<assets, accounts, mirror, terminal, streams, hooks, update, recovery>>
     \/ /\ part = "streams" /\ Streams!Next
        /\ UNCHANGED <<assets, accounts, mirror, terminal, list, hooks, update, recovery>>
     \/ /\ part = "hooks" /\ Hooks!Next
        /\ UNCHANGED <<assets, accounts, mirror, terminal, list, streams, update, recovery>>
     \/ /\ part = "update" /\ Update!Next
        /\ UNCHANGED <<assets, accounts, mirror, terminal, list, streams, hooks, recovery>>
     \/ /\ part = "recovery" /\ Recovery!Next
        /\ UNCHANGED <<assets, accounts, mirror, terminal, list, streams, hooks, update>>

Spec == Init /\ [][Next]_vars

\* The parts take their values from the same two sets, so that few permutations do for all.
Symmetry == Permutations(Accounts) \cup Permutations(Tasks)

-----------------------------------------------------------------------------
\* The parts' properties, under their own names; each is stated in its module.
\* Every part has its types.
TypeOK ==
  /\ Assets!TypeOK /\ Store!TypeOK /\ Mirror!TypeOK /\ Terminal!TypeOK /\ Lists!TypeOK
  /\ Streams!TypeOK /\ Hooks!TypeOK /\ Update!TypeOK /\ Recovery!TypeOK

\* No session is lost, wherever an action of the account feature dies or fails, and an
\* action that failed has done nothing but what it had committed before: a repair that
\* fails at one state database leaves those before it repaired.
AssetsKept == []Assets!NeverLost /\ Assets!AllOrNothing

\* The login an account was last given is kept, and a cancelled or replaced sign-in brings
\* no account in.
LoginsRight == []Store!LoginKept /\ Store!CancelledStaysOut

\* Each row of a watched rollout is told once.
RowsTold == Mirror!RowsTold

\* A message is typed into its own thread's terminal only.
RightTerminal == Terminal!RightTerminal

\* A list that was read for a request shows what was there all the while.
AsksSee == Lists!AsksSee

\* The desktop ends up showing each session as it is.
Converges == Streams!Converges

\* What the user put into a file with hooks of ours outlives every installation, and the
\* hooks count as verified only once one of those installed has been heard of.
HooksKept == Hooks!UsersKept /\ Hooks!TrustEarned

\* An app update cuts off no work that came in by the gate.
NothingCut == Update!NothingCut

\* A session at rest does not stand in the way of an update, and an app that runs is in its
\* place or can be put back there, whatever step of an installation fails.
UpdateSafe == Update!RestAdmits /\ Update!AppThere

\* A message left half shown ends up with its own turn's answer.
OwnAnswer == Recovery!OwnAnswer
=============================================================================
