---------------------------- MODULE HookInstall ----------------------------
(***************************************************************************)
(* The installation of OnlineWorker's entries in files that belong to      *)
(* codex, claude and their user: hooks.json, config.toml's notify command  *)
(* and claude's settings.json.  An owner process, one per data directory,  *)
(* reads the file, puts its entry among the user's (a notify command has   *)
(* room for one only: the user's is moved to a forward file, and run from  *)
(* there) and replaces the file.  The user, codex and claude write the     *)
(* files too, another data directory's owner does the same, an owner may   *)
(* die at each step.  The trust record says whether codex has run the      *)
(* hooks as they are installed.  A behaviour is of one of the three files. *)
(***************************************************************************)
EXTENDS Naturals, FiniteSets

CONSTANTS
  Owners,     \* data directories, each with its owner process
  Entries,    \* hook entries of the user's
  Commands,   \* notify commands of the user's
  MaxUpsets   \* bound: writes of the user's, of codex or of claude, writes that fail,
              \* processes that die, updates

VARIABLES
  file,       \* the file a behaviour is about
  content,    \* what it holds: whether it can be parsed, the user's items, our entry
  temporary,  \* the temporary file codex's two files are written through, by its fixed name
  forward,    \* owner |-> the user's notify command in codex_notify_forward.json
  job,        \* owner |-> the installation under way: its next step, the content it read
  build,      \* owner |-> the definition it installs
  trust,      \* owner |-> codex_hook_trust.json: the definition, and the one verified
  wanted,     \* what the user last wanted in the file
  installed,  \* definitions that have been in the file
  fired,      \* definitions in the file, then or before, when a hook was heard of
  raced,      \* a replacement wrote over what another had written since the read
  upsets

hookVars == <<file, content, temporary, forward, job, build, trust, wanted, installed,
              fired, raced, upsets>>

None    == [of |-> "nobody", build |-> 0]
Nothing == [ok |-> FALSE, user |-> {}, own |-> None]
Entry(o) == [of |-> o, build |-> build[o]]

-----------------------------------------------------------------------------
\* The file with this owner's entry in it, once: what another owner or another build had
\* left goes, the user's entries stay; the notify command is replaced whatever it was.
Merged(o, c) ==
  [c EXCEPT !.user = IF file = "notify" THEN {} ELSE @, !.own = Entry(o)]

\* A notify command that is not ours is kept in the forward file.
KeepsCommandAny(c) == TRUE   \* mutant: the test that the command is not ours is missing
KeepsCommand(c)    == c.user # {}

\* The definition that counts as verified once d is recorded as installed.
StillVerifiedAny(o, d) == IF trust[o].verified # None THEN d ELSE None \* mutant: any hash will do
StillVerified(o, d)    == IF trust[o].verified = d THEN d ELSE None

\* What the user may want in the file.
Wants == IF file = "notify" THEN {{}} \cup {{c} : c \in Commands} ELSE SUBSET Entries

\* What comes in between is bounded.
Upset == upsets < MaxUpsets /\ upsets' = upsets + 1

Idle   == [at |-> "idle", read |-> Nothing]
Steps  == {"forward", "write", "replace", "trust"}
Goes(o, step) == job' = [job EXCEPT ![o].at = step]
Ends(o)       == job' = [job EXCEPT ![o] = Idle]

Init ==
  /\ file \in {"hooks", "notify", "settings"}
  /\ wanted \in Wants
  /\ content = [ok |-> TRUE, user |-> wanted, own |-> None]
  /\ temporary = Nothing
  /\ forward = [o \in Owners |-> {}]
  /\ job = [o \in Owners |-> Idle]
  /\ build = [o \in Owners |-> 1]
  /\ trust = [o \in Owners |-> [definition |-> None, verified |-> None]]
  /\ installed = {} /\ fired = {} /\ raced = FALSE
  /\ upsets = 0

-----------------------------------------------------------------------------
\* A file that cannot be parsed, or whose parts have another shape, is left alone.
Readable == content.ok

\* One that has the entry already is not written.
Changes(o) == Merged(o, content) # content

\* A notify command of the user's is saved first.
Step(o) ==
  CASE file = "notify" /\ KeepsCommand(content) -> "forward"
    [] ~(file = "notify" /\ KeepsCommand(content)) /\ Changes(o) -> "write"
    [] file = "hooks" /\ ~Changes(o) -> "trust"
    [] OTHER -> "idle"

\* An owner installs as it starts a provider.
Read(o) ==
  /\ job[o].at = "idle" /\ Readable
  /\ job' = [job EXCEPT ![o] = IF Step(o) = "idle" THEN Idle
                               ELSE [at |-> Step(o), read |-> content]]
  /\ UNCHANGED <<file, content, temporary, forward, build, trust, wanted, installed, fired,
                 raced, upsets>>

\* The user's notify command is saved before the file that names it is written.
SaveForward(o) ==
  /\ job[o].at = "forward"
  /\ forward' = [forward EXCEPT ![o] = job[o].read.user]
  /\ Goes(o, "write")
  /\ UNCHANGED <<file, content, temporary, build, trust, wanted, installed, fired, raced,
                 upsets>>

\* codex's files are written through a temporary file that every owner gives the same name;
\* claude's through one of the process's own, which its replacement cannot miss.
WriteTemporary(o) ==
  /\ job[o].at = "write"
  /\ temporary' = IF file = "settings" THEN temporary ELSE Merged(o, job[o].read)
  /\ Goes(o, "replace")
  /\ UNCHANGED <<file, content, forward, build, trust, wanted, installed, fired, raced,
                 upsets>>

Written(o) == IF file = "settings" THEN Merged(o, job[o].read) ELSE temporary

\* os.replace puts there what the temporary file holds by then.
Replace(o) ==
  /\ job[o].at = "replace" /\ Written(o) # Nothing
  /\ content' = Written(o)
  /\ temporary' = Nothing
  /\ installed' = installed \cup {Written(o).own}
  /\ raced' = (raced \/ content # job[o].read \/ Written(o) # Merged(o, job[o].read))
  /\ IF file = "hooks" THEN Goes(o, "trust") ELSE Ends(o)
  /\ UNCHANGED <<file, forward, build, trust, wanted, fired, upsets>>

\* Another owner has moved the temporary file away: the installation fails.
ReplaceMisses(o) ==
  /\ job[o].at = "replace" /\ Written(o) = Nothing
  /\ Ends(o)
  /\ UNCHANGED <<file, content, temporary, forward, build, trust, wanted, installed, fired,
                 raced, upsets>>

\* The record takes the definition; that it was verified holds only for the same one.
SyncTrust(o) ==
  /\ job[o].at = "trust"
  /\ trust' = [trust EXCEPT ![o] = [definition |-> Entry(o),
                                    verified |-> StillVerified(o, Entry(o))]]
  /\ Ends(o)
  /\ UNCHANGED <<file, content, temporary, forward, build, wanted, installed, fired, raced,
                 upsets>>

\* A write fails, or the process dies; what was written so far stays.
Break(o) ==
  /\ Upset /\ job[o].at \in Steps
  /\ Ends(o)
  /\ UNCHANGED <<file, content, temporary, forward, build, trust, wanted, installed, fired,
                 raced>>

\* claude's entries are taken out of the settings again.
Uninstall(o) ==
  /\ file = "settings" /\ job[o].at = "idle"
  /\ content.ok /\ content.own # None
  /\ content' = [content EXCEPT !.own = None]
  /\ UNCHANGED <<file, temporary, forward, job, build, trust, wanted, installed, fired,
                 raced, upsets>>

\* A codex session runs the hook of a definition that is or was in the file, with or
\* without the one installed since: what reaches the owner verifies what is recorded.
Fire(o) ==
  /\ file = "hooks"
  /\ \E d \in installed : d.of = o
  /\ fired' = fired \cup {d \in installed : d.of = o}
  /\ trust' = [trust EXCEPT ![o].verified = trust[o].definition]
  /\ UNCHANGED <<file, content, temporary, forward, job, build, wanted, installed, raced,
                 upsets>>

\* The app of one data directory is updated: what its owner installs from now on differs.
Update(o) ==
  /\ Upset /\ build = [x \in Owners |-> 1] /\ job[o].at = "idle"
  /\ build' = [build EXCEPT ![o] = 2]
  /\ UNCHANGED <<file, content, temporary, forward, job, trust, wanted, installed, fired,
                 raced>>

\* The user sets a notify command, or changes the hooks and keeps or drops our entry; and
\* may leave the file so that it cannot be parsed.
Edit ==
  /\ Upset
  /\ \E set \in Wants, ok \in BOOLEAN, keeps \in BOOLEAN :
       /\ file = "notify" => set # {} /\ ~keeps
       /\ wanted' = set
       /\ content' = [ok |-> ok, user |-> set, own |-> IF keeps THEN content.own ELSE None]
  /\ UNCHANGED <<file, temporary, forward, job, build, trust, installed, fired, raced>>

\* Nothing is asked of a file once a write of another's is lost: a behaviour ends there.
Next ==
  /\ ~raced
  /\ \/ \E o \in Owners :
          \/ Read(o) \/ SaveForward(o) \/ WriteTemporary(o) \/ Replace(o)
          \/ ReplaceMisses(o) \/ SyncTrust(o) \/ Break(o) \/ Uninstall(o)
          \/ Fire(o) \/ Update(o)
     \/ Edit

-----------------------------------------------------------------------------
Contents == [ok : BOOLEAN, user : SUBSET (Entries \cup Commands),
             own : [of : Owners, build : 1..2] \cup {None}]

TypeOK ==
  /\ {content, temporary} \subseteq Contents
  /\ forward \in [Owners -> SUBSET (Entries \cup Commands)]
  /\ job \in [Owners -> [at : Steps \cup {"idle"}, read : Contents]]

\* The notify command of the user's that codex's notification leads to: the one in the
\* file, or what the bridge in the file forwards to.
Notified == IF content.own = None THEN content.user ELSE forward[content.own.of]

\* What the user put into a file outlives every installation, wherever one dies or fails:
\* hook entries stay in the file; a notify command stays in it or is in a forward file, and
\* as long as one data directory's owner only has installed, it is still the one run.
\* Only an edit between an installation's read and its replacement may be lost.
UsersKept ==
  raced \/
    /\ file # "notify" => content.user = wanted
    /\ file = "notify" => wanted \in {content.user} \cup {forward[o] : o \in Owners}
    /\ file = "notify" /\ Cardinality({d.of : d \in installed}) <= 1 => Notified = wanted

\* The hooks count as verified only if one was heard of since they have been installed:
\* neither an update of the app nor another owner's installation carries that over, unless
\* two owners install at once.
TrustEarned == raced \/ \A o \in Owners : trust[o].verified \in fired \cup {None}
=============================================================================
