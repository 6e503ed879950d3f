\* Assets: two sessions codex makes or a package brings, one package, one fault,
\* rows in the second state database or in both.
\* Accounts: two identities and two actions, two sign-ins, two logins, two faults.
\* Mirror: three rows of two texts, one restart, send or row seen by half.  Terminal: two sends on two
\* threads, three hosts.  List: two requests, two sessions, two loads, three changes.
\* Streams: four changes through a queue of two.  Hooks: two data directories, one entry or
\* two notify commands of the user's, two upsets.  Update: two sessions, three
\* pieces of work, two mishaps.  Recovery: three turns, two looks.
CONSTANTS
  a = a  b = b  p = p  q = q  e = e
  Sessions = {a, b}
  First = {}
  Into = {{2}, {1, 2}}
  MaxPackages = 1
  MaxFaults = 1
  Accounts = {a, b}
  Tasks = {p, q}
  MaxSignIns = 2
  MaxMinted = 2
  MaxFailures = 2
  Texts = {a, b}
  MaxRows = 3
  MaxRestarts = 1
  Threads = {a, b}
  Messages = {p, q}
  MaxHosts = 3
  Listed = {a, b}
  Asks = {p, q}
  MaxLoads = 2
  MaxWrites = 3
  MaxChanges = 4
  MaxQueue = 2
  Owners = {a, b}
  Entries = {e}
  Commands = {p, q}
  MaxUpsets = 2
  Chats = {a, b}
  MaxTasks = 3
  MaxMishaps = 2
  MaxTurns = 3
  MaxLooks = 2
SPECIFICATION Spec
SYMMETRY Symmetry
INVARIANTS
  RowsTold
  RightTerminal
  AsksSee
  Converges
  HooksKept
  NothingCut
  UpdateSafe
  OwnAnswer
PROPERTIES
  AssetsKept
  LoginsRight
\* What is bounded comes to an end.
CHECK_DEADLOCK FALSE
