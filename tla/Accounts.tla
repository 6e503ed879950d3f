------------------------------ MODULE Accounts ------------------------------
(***************************************************************************)
(* The codex accounts OnlineWorker keeps: an index with one sealed file    *)
(* for each, filled by imports and by the OAuth sign-in, renewed when      *)
(* their quota is asked for, applied to codex's auth.json.  An action is a *)
(* process; the lock (operation_lock) is held over the files but not over  *)
(* the requests to the provider, so that two actions cross there.          *)
(***************************************************************************)
EXTENDS Naturals, FiniteSets

CONSTANTS
  Accounts,   \* identities
  Tasks,      \* actions under way at a time
  MaxSignIns, \* bound: sign-ins started
  MaxMinted,  \* bound: logins the provider hands out
  MaxFailures \* bound: writes that fail, processes that die

VARIABLES
  listed,   \* accounts index.json lists
  detail,   \* the login in each account's file, 0 without one
  auth,     \* what codex's auth.json holds: an account and its login
  pending,  \* the sign-in oauth-pending.json is about, 0 without one
  task,     \* the actions under way
  minted,   \* logins handed out so far
  valid,    \* and those that can still be renewed
  signIns,  \* sign-ins started
  redeemed, \* whose code the provider has taken
  ended,    \* that were cancelled, or replaced by a later one
  brought,  \* that have brought an account in
  lost,     \* accounts whose last login a fault, or apply, has thrown away
  torn,     \* a write that failed was not taken back whole
  failures  \* faults so far

files == <<listed, detail>>
oauth == <<signIns, redeemed, ended, brought>>
vars  == <<listed, detail, auth, pending, task, minted, valid, oauth, lost, torn, failures>>

SignIns == 1..MaxSignIns
Logins  == 1..MaxMinted
NoTask  == [kind |-> "none", stage |-> "none", signIn |-> 0, login |-> <<>>]
Held    == {<<a, v>> : a \in Accounts, v \in Logins}

TypeOK ==
  /\ listed \subseteq Accounts /\ lost \subseteq Accounts
  /\ detail \in [Accounts -> 0..MaxMinted]
  /\ auth \in Held \cup {<<>>} /\ valid \subseteq Held
  /\ {pending, signIns} \subseteq 0..MaxSignIns
  /\ task \in [Tasks -> [kind : {"none", "complete", "refresh"},
                         stage : {"none", "exchange", "import", "ask", "renew", "store", "again"},
                         signIn : 0..MaxSignIns, login : Held \cup {<<>>}]]
  /\ {redeemed, ended, brought} \subseteq SUBSET SignIns
  /\ minted \in 0..MaxMinted /\ failures \in 0..MaxFailures /\ torn \in BOOLEAN

Init ==
  /\ listed = {} /\ detail = [a \in Accounts |-> 0] /\ auth = <<>> /\ pending = 0
  /\ task = [t \in Tasks |-> NoTask]
  /\ minted = 0 /\ valid = {}
  /\ signIns = 0 /\ redeemed = {} /\ ended = {} /\ brought = {}
  /\ lost = {} /\ torn = FALSE /\ failures = 0

-----------------------------------------------------------------------------
(* The store.                                                              *)

Faulty(n) == failures + n <= MaxFailures /\ failures' = failures + n

Puts(a, v)  == detail' = [detail EXCEPT ![a] = v]
Lists(a)    == listed' = listed \cup {a}
Throws(a)   == lost' = lost \cup {a}

\* An account whose file cannot be read is not written either.
Readable(a) == a \in listed => detail[a] # 0

\* upsert, under the lock: the file, then the index.  A write that fails is taken back,
\* file first; the process may die after either write, and while it takes back.
Upsert(a, v, done, failed) ==
  \/ /\ ~Readable(a) /\ failed /\ Throws(a) /\ UNCHANGED <<files, torn, failures>>
  \/ /\ Readable(a)
     /\ \/ Puts(a, v) /\ Lists(a) /\ done /\ UNCHANGED <<lost, torn, failures>>
        \/ Faulty(1) /\ failed /\ Throws(a) /\ UNCHANGED <<files, torn>>
        \/ Faulty(1) /\ Puts(a, v) /\ failed /\ Throws(a) /\ UNCHANGED <<listed, torn>>
        \/ Faulty(1) /\ Puts(a, v) /\ Lists(a) /\ failed /\ UNCHANGED <<lost, torn>>
        \/ /\ Faulty(2) /\ Lists(a) /\ failed /\ Throws(a)
           /\ torn' = TRUE /\ UNCHANGED detail

\* The provider hands out a login.
Mints(a, v) == minted < MaxMinted /\ minted' = minted + 1 /\ v = <<a, minted + 1>>

Becomes(t, new) == task' = [task EXCEPT ![t] = new]
Done(t)         == Becomes(t, NoTask)
Stage(t, s)     == task[t].stage = s

\* accounts.import: a login that another program made.
Import(a) ==
  /\ \E new \in Held :
       /\ Mints(a, new) /\ valid' = valid \cup {new}
       /\ Upsert(a, new[2], TRUE, TRUE)
  /\ UNCHANGED <<auth, pending, task, oauth>>

-----------------------------------------------------------------------------
(* Sign-in.                                                                *)

\* start_oauth replaces the one pending.
Start ==
  /\ signIns < MaxSignIns /\ signIns' = signIns + 1
  /\ pending' = signIns + 1 /\ ended' = ended \cup ({pending} \ {0})
  /\ UNCHANGED <<files, auth, task, minted, valid, redeemed, brought, lost, torn, failures>>

Drops(i) == pending' = 0 /\ ended' = ended \cup {i}

\* cancel_oauth names the sign-in; the provider says no; or it is ten minutes old
\* when somebody looks.
Cancel ==
  /\ pending # 0 /\ Drops(pending)
  /\ UNCHANGED <<files, auth, task, minted, valid, signIns, redeemed, brought, lost, torn, failures>>

\* oauth.complete: the callback is the pending sign-in's.
Callback(t) ==
  /\ task[t] = NoTask /\ pending # 0
  /\ Becomes(t, [NoTask EXCEPT !.kind = "complete", !.stage = "exchange", !.signIn = pending])
  /\ UNCHANGED <<files, auth, pending, minted, valid, oauth, lost, torn, failures>>

\* A code is good for one login; the request may fail.
Exchange(t) ==
  /\ Stage(t, "exchange")
  /\ \/ \E a \in Accounts, new \in Held :
          /\ task[t].signIn \notin redeemed /\ Mints(a, new) /\ valid' = valid \cup {new}
          /\ redeemed' = redeemed \cup {task[t].signIn}
          /\ Becomes(t, [task[t] EXCEPT !.stage = "import", !.login = new])
     \/ Done(t) /\ UNCHANGED <<minted, valid, redeemed>>
  /\ UNCHANGED <<files, auth, pending, signIns, ended, brought, lost, torn, failures>>

\* A bug: the sign-in is not looked at again.
StillPendingNot(i) == TRUE

\* ensure_oauth_pending
StillPending(i) == pending = i

\* What follows holds the lock: the sign-in is still the pending one, its account
\* is brought in, and it is over, unless the process dies just before that.
Complete(t) ==
  /\ Stage(t, "import")
  /\ IF StillPending(task[t].signIn)
     THEN Upsert(task[t].login[1], task[t].login[2],
            brought' = brought \cup {task[t].signIn} /\ pending' \in {0, pending},
            UNCHANGED <<brought, pending>>)
     ELSE UNCHANGED <<files, brought, pending, lost, torn, failures>>
  /\ Done(t)
  /\ UNCHANGED <<auth, minted, valid, signIns, redeemed, ended>>

-----------------------------------------------------------------------------
(* Quota.                                                                  *)

\* accounts.refresh reads the login and lets go of the lock.
Refresh(t, a) ==
  /\ task[t] = NoTask /\ detail[a] # 0
  /\ Becomes(t, [NoTask EXCEPT !.kind = "refresh", !.stage = "ask", !.login = <<a, detail[a]>>])
  /\ UNCHANGED <<files, auth, pending, minted, valid, oauth, lost, torn, failures>>

\* fetch_quota: an answer, that set_quota notes; none; or the login has run out.
Ask(t) ==
  /\ Stage(t, "ask") \/ Stage(t, "again")
  /\ \/ Done(t)
     \/ Stage(t, "ask") /\ Becomes(t, [task[t] EXCEPT !.stage = "renew"])
  /\ UNCHANGED <<files, auth, pending, minted, valid, oauth, lost, torn, failures>>

\* Renewing uses the old login up.
Renews(old, new) ==
  /\ old \in valid /\ Mints(old[1], new) /\ valid' = (valid \ {old}) \cup {new}

\* A bug: the quota is asked for again at once.
AfterRenewAsks == "again"

AfterRenew == "store"

Renew(t) ==
  /\ Stage(t, "renew")
  /\ \/ \E new \in Held :
          /\ Renews(task[t].login, new)
          /\ Becomes(t, [task[t] EXCEPT !.stage = AfterRenew, !.login = new])
     \/ Done(t) /\ UNCHANGED <<minted, valid>>
  /\ UNCHANGED <<files, auth, pending, oauth, lost, torn, failures>>

\* The new login is kept before the quota is asked for again.
Store(t) ==
  /\ Stage(t, "store")
  /\ Upsert(task[t].login[1], task[t].login[2],
            Becomes(t, [task[t] EXCEPT !.stage = "again"]), Done(t))
  /\ UNCHANGED <<auth, pending, minted, valid, oauth>>

\* The process dies; what it held in memory only is gone.
Crash(t) ==
  /\ task[t].stage \in {"import", "store"} /\ Faulty(1) /\ Done(t)
  /\ Throws(task[t].login[1])
  /\ UNCHANGED <<files, auth, pending, minted, valid, oauth, torn>>

-----------------------------------------------------------------------------
(* Codex.                                                                  *)

\* auth.json holds a login codex has renewed, that the store does not know.
RenewedByCodex == auth # <<>> /\ auth \in valid /\ detail[auth[1]] # auth[2]

\* apply_account, under the lock: the account's login, or what was there.
Apply(a) ==
  /\ detail[a] # 0
  /\ \/ /\ auth' = <<a, detail[a]>>
        /\ IF RenewedByCodex THEN Throws(auth[1]) ELSE UNCHANGED lost
        /\ UNCHANGED failures
     \/ Faulty(1) /\ UNCHANGED <<auth, lost>>
  /\ UNCHANGED <<files, pending, task, minted, valid, oauth, torn>>

CodexRenews ==
  /\ auth # <<>> /\ \E new \in Held : Renews(auth, new) /\ auth' = new
  /\ UNCHANGED <<files, pending, task, oauth, lost, torn, failures>>

Next ==
  \/ \E a \in Accounts : Import(a) \/ Apply(a)
  \/ \E t \in Tasks :
       \/ Callback(t) \/ Exchange(t) \/ Complete(t)
       \/ \E a \in Accounts : Refresh(t, a)
       \/ Ask(t) \/ Renew(t) \/ Store(t) \/ Crash(t)
  \/ Start \/ Cancel \/ CodexRenews

Spec == Init /\ [][Next]_vars

-----------------------------------------------------------------------------
\* A sign-in that was cancelled, or replaced by another, brings no account in, however
\* late its answer comes.
CancelledStaysOut ==
  [][\A i \in brought' \ brought : i \notin ended]_vars

\* Each account listed has its file, so that the list can be read, wherever an action
\* failed or died, except while it took a failed write back.
ListReadable == ~torn => \A a \in listed : detail[a] # 0

\* Each of them has the login it was last given: in its file, in the hands of an action
\* that is about to write it, or with codex; unless a fault or apply threw it away.
LastLogin ==
  \A a \in listed \ lost :
    \E v \in Logins :
      /\ <<a, v>> \in valid
      /\ detail[a] = v \/ auth = <<a, v>>
         \/ \E t \in Tasks : task[t].login = <<a, v>> /\ task[t].stage \in {"store", "import"}

\* What the store lists can be used: no action that fails, dies or crosses another one
\* between two requests leaves an account without its file or without a login that is
\* still good.
LoginKept == ListReadable /\ LastLogin
=============================================================================
