---------------------------- MODULE AccountAccess ----------------------------
(***************************************************************************)
(* Accounts, their mailed codes, their sessions and the administrators     *)
(* who ban, demote and delete them.  Requests of users and of staff run    *)
(* together, one statement or one transaction at a time, and die between   *)
(* two of them.  A transaction that has not committed shows in the model   *)
(* only by the row locks it holds.                                         *)
(***************************************************************************)
EXTENDS Naturals

CONSTANTS
    Users, Requests,
    Codes,        \* room for unconsumed rows of auth_challenges (bound)
    MaxAttempts,  \* MAX_ATTEMPTS
    MaxResets,    \* password changes of a user (bound)
    Budgets,      \* how many codes and how many staff requests a behaviour has (bound)
    None          \* no lock

ASSUME LimitAssumption == MaxAttempts \in Nat \ {0} /\ MaxResets \in Nat
ASSUME BudgetAssumption == Budgets \subseteq [codes : Nat, edits : Nat]
ASSUME NullAssumption == None \notin Requests

VARIABLES
    account,   \* whether the user's row exists and email_verified_at is set
    role, banned,
    password,  \* number of the password the user has
    sessions,  \* sessions: whose, made with which password, made too late
    code,      \* unconsumed challenges
    older,     \* their order by created_at: pairs of an older and a newer one
    lock,      \* their row locks
    req,       \* where a request is and what it read
    raced,     \* history: staff wrote on a count that another write had outdated
    budget     \* codes and staff requests to come

users == <<account, role, banned, password>>
codes == <<code, older>>
vars == <<users, sessions, codes, lock, req, raced, budget>>

Purposes == {"EMAIL_VERIFY", "PASSWORD_RESET"}
Passwords == 0..MaxResets
Idle == [at |-> "idle"]

RequestStates ==
    [at : {"idle"}]
    \cup [at : {"wait"}, user : Users, purpose : Purposes, code : Codes]
    \cup [at : {"replace", "insert"}, user : Users, purpose : Purposes, overtaken : BOOLEAN]
    \cup [at : {"apply"}, code : Codes]
    \cup [at : {"session"}, user : Users, password : Passwords, late : BOOLEAN]
    \cup [at : {"save"}, user : Users, role : {"ADMIN", "USER"}, ban : BOOLEAN, stale : BOOLEAN]
    \cup [at : {"delete"}, user : Users, stale : BOOLEAN]
    \cup [at : {"purge"}, user : Users]

\* A row that is not there, or is consumed.
Consumed == [age |-> "none"]

Unused == {c \in Codes : code[c] # Consumed}

IsStrictTotalOrder(pairs, S) ==
    /\ pairs \subseteq S \X S
    /\ \A c, d \in S : <<c, d>> \in pairs <=> c # d /\ <<d, c>> \notin pairs
    /\ \A c, d, e \in S : <<c, d>> \in pairs /\ <<d, e>> \in pairs => <<c, e>> \in pairs

TypeOK ==
    /\ account \in [Users -> {"none", "unverified", "verified"}]
    /\ role \in [Users -> {"ADMIN", "USER"}] /\ banned \in [Users -> BOOLEAN]
    /\ password \in [Users -> Passwords]
    /\ sessions \subseteq [user : Users, password : Passwords, late : BOOLEAN]
    /\ code \in [Codes -> [age : {"none"}] \cup
          [age : {"fresh", "old", "expired"}, user : Users, purpose : Purposes,
           attempts : 0..MaxAttempts, sent : BOOLEAN]]
    /\ IsStrictTotalOrder(older, Unused)
    /\ lock \in [Codes -> Requests \cup {None}]
    /\ req \in [Requests -> RequestStates]
    /\ raced \in BOOLEAN
    /\ budget \in [codes : Nat, edits : Nat]

\* Administrators are signed in.  The others have yet to register.
Init ==
    /\ role \in [Users -> {"ADMIN", "USER"}]
    /\ \E u \in Users : role[u] = "ADMIN"
    /\ account = [u \in Users |-> IF role[u] = "ADMIN" THEN "verified" ELSE "none"]
    /\ banned = [u \in Users |-> FALSE] /\ password = [u \in Users |-> 0]
    /\ sessions = [user : {u \in Users : role[u] = "ADMIN"}, password : {0}, late : {FALSE}]
    /\ code = [c \in Codes |-> Consumed] /\ older = {}
    /\ lock = [c \in Codes |-> None]
    /\ req = [r \in Requests |-> Idle]
    /\ raced = FALSE
    /\ budget \in Budgets

-----------------------------------------------------------------------------
(* Codes *)

Unconsumed(u, p) ==
    {c \in Unused : code[c].user = u /\ code[c].purpose = p}

Live(c) == code[c].age \in {"fresh", "old"}

IsNewest(c, candidates) ==
    \A d \in candidates \ {c} : <<d, c>> \in older

Goto(r, state) == req' = [req EXCEPT ![r] = state]
Replacing(u, p) == [at |-> "replace", user |-> u, purpose |-> p, overtaken |-> FALSE]
Holds(r, cs) == lock' = [c \in Codes |-> IF c \in cs THEN r ELSE lock[c]]
Unlocked(r) == [c \in Codes |-> IF lock[c] = r THEN None ELSE lock[c]]

Spend(kind) ==
    /\ budget[kind] > 0
    /\ budget' = [budget EXCEPT ![kind] = @ - 1]

\* The account and its first code, which no interval holds back.
Register(r, u) ==
    /\ req[r] = Idle /\ account[u] = "none"
    /\ account' = [account EXCEPT ![u] = "unverified"]
    /\ role' = [role EXCEPT ![u] = "USER"] /\ banned' = [banned EXCEPT ![u] = FALSE]
    /\ Goto(r, Replacing(u, "EMAIL_VERIFY"))
    /\ Spend("codes")
    /\ UNCHANGED <<password, sessions, codes, lock, raced>>

\* The newest unconsumed row under its lock; younger than a minute ends the request.
LockRecent(r, u, p, c) ==
    IF code[c].age = "fresh"
    THEN Goto(r, Idle) /\ UNCHANGED lock
    ELSE Goto(r, Replacing(u, p)) /\ Holds(r, {c})

\* verify-email/resend and password/forgot.
AskCode(r, u, p) ==
    /\ req[r] = Idle
    /\ account[u] \in IF p = "EMAIL_VERIFY" THEN {"unverified"} ELSE {"unverified", "verified"}
    /\ \/ Unconsumed(u, p) = {} /\ Goto(r, Replacing(u, p)) /\ UNCHANGED lock
       \/ \E c \in Unconsumed(u, p) :
            /\ IsNewest(c, Unconsumed(u, p))
            /\ IF lock[c] = None
               THEN LockRecent(r, u, p, c)
               ELSE Goto(r, [at |-> "wait", user |-> u, purpose |-> p, code |-> c])
                    /\ UNCHANGED lock
    /\ Spend("codes")
    /\ UNCHANGED <<users, sessions, codes, raced>>

\* The row that was waited for, if it is still unconsumed; no other is looked for.
Wake(r) ==
    /\ req[r].at = "wait"
    /\ LET u == req[r].user  p == req[r].purpose  c == req[r].code IN
        /\ lock[c] = None
        /\ IF c \in Unconsumed(u, p)
           THEN LockRecent(r, u, p, c)
           ELSE Goto(r, Replacing(u, p)) /\ UNCHANGED lock
    /\ UNCHANGED <<users, sessions, codes, raced, budget>>

\* Mutant: only the row that was looked at is replaced.
ReplaceNewest(r) ==
    /\ req[r].at = "replace"
    /\ Goto(r, [req[r] EXCEPT !.at = "insert"])
    /\ UNCHANGED <<users, sessions, codes, lock, raced, budget>>

\* The update that consumes every row of the user waits for their locks.
Replace(r) ==
    /\ req[r].at = "replace"
    /\ LET old == Unconsumed(req[r].user, req[r].purpose) IN
        /\ \A c \in old : lock[c] \in {r, None}
        /\ Holds(r, old)
    /\ Goto(r, [req[r] EXCEPT !.at = "insert"])
    /\ UNCHANGED <<users, sessions, codes, raced, budget>>

Without(cs) == {pair \in older : pair[1] \notin cs /\ pair[2] \notin cs}

\* Insert and commit; the mail that follows may be lost.  created_at is when the
\* transaction began, so of two that overlap either may count as the newer.
Insert(r, c) ==
    /\ req[r].at = "insert"
    /\ LET u == req[r].user  p == req[r].purpose
           old == {k \in Codes : lock[k] = r}
           others == Unused \ (old \cup {c})
       IN /\ code[c] = Consumed \/ c \in old
          /\ \E sent \in BOOLEAN :
                code' = [k \in Codes |->
                    IF k = c THEN [age |-> "fresh", user |-> u, purpose |-> p,
                                   attempts |-> 0, sent |-> sent]
                    ELSE IF k \in old THEN Consumed ELSE code[k]]
          /\ \/ older' = Without(old \cup {c}) \cup others \X {c}
             \/ req[r].overtaken /\ older' = Without(old \cup {c}) \cup {c} \X others
          /\ req' = [q \in Requests |->
                IF q = r THEN Idle
                ELSE IF req[q].at = "insert" /\ req[q].user = u /\ req[q].purpose = p
                     THEN [req[q] EXCEPT !.overtaken = TRUE] ELSE req[q]]
    /\ lock' = Unlocked(r)
    /\ UNCHANGED <<users, sessions, raced, budget>>

\* A minute passes, then the twenty of the expiry.
Age(c) ==
    /\ Live(c)
    /\ code' = [code EXCEPT ![c].age = IF @ = "fresh" THEN "old" ELSE "expired"]
    /\ UNCHANGED <<users, sessions, older, lock, req, raced, budget>>

\* Mutant: the row is read without its lock.
SubmitUnlocked(r, c) ==
    /\ req[r] = Idle
    /\ Live(c) /\ code[c].sent
    /\ Goto(r, [at |-> "apply", code |-> c])
    /\ UNCHANGED <<users, sessions, codes, lock, raced, budget>>

\* The link finds its own row; the digits count for the newest row of the user.
Submit(r, c) ==
    /\ req[r] = Idle
    /\ Live(c) /\ code[c].sent /\ lock[c] = None
    /\ Goto(r, [at |-> "apply", code |-> c])
    /\ Holds(r, {c})
    /\ UNCHANGED <<users, sessions, codes, raced, budget>>

\* Digits that are wrong, or belong to a row that is not the newest.
Guess(r, c) ==
    /\ req[r] = Idle
    /\ Live(c) /\ lock[c] = None /\ code[c].attempts < MaxAttempts
    /\ IsNewest(c, {k \in Unconsumed(code[c].user, code[c].purpose) : Live(k)})
    /\ code' = [code EXCEPT ![c].attempts = @ + 1]
    /\ UNCHANGED <<users, sessions, older, lock, req, raced, budget>>

Consume(r, c) ==
    /\ code' = [code EXCEPT ![c] = Consumed]
    /\ older' = Without({c})
    /\ lock' = Unlocked(r)

\* consumeEmailVerification; the route makes a session after the commit, and asks
\* nothing about a ban.
Verify(r) ==
    /\ req[r].at = "apply" /\ code[req[r].code].purpose = "EMAIL_VERIFY"
    /\ LET c == req[r].code  u == code[c].user IN
        /\ Consume(r, c)
        /\ account' = [account EXCEPT ![u] = "verified"]
        /\ Goto(r, [at |-> "session", user |-> u, password |-> password[u], late |-> banned[u]])
    /\ UNCHANGED <<role, banned, password, sessions, raced, budget>>

\* What a request has already read of a user whose sessions are about to end.
Outdated(u, q) ==
    IF req[q].at = "session" /\ req[q].user = u THEN [req[q] EXCEPT !.late = TRUE] ELSE req[q]

\* Mutant: the old sessions stay.
ResetQuietly(r) ==
    /\ req[r].at = "apply" /\ code[req[r].code].purpose = "PASSWORD_RESET"
    /\ LET c == req[r].code  u == code[c].user IN
        /\ password[u] < MaxResets
        /\ Consume(r, c)
        /\ password' = [password EXCEPT ![u] = @ + 1]
        /\ req' = [q \in Requests |-> IF q = r THEN Idle ELSE Outdated(u, q)]
    /\ UNCHANGED <<account, role, banned, sessions, raced, budget>>

\* consumePasswordReset.
Reset(r) ==
    /\ req[r].at = "apply" /\ code[req[r].code].purpose = "PASSWORD_RESET"
    /\ LET c == req[r].code  u == code[c].user IN
        /\ password[u] < MaxResets
        /\ Consume(r, c)
        /\ password' = [password EXCEPT ![u] = @ + 1]
        /\ sessions' = {s \in sessions : s.user # u}
        /\ req' = [q \in Requests |-> IF q = r THEN Idle ELSE Outdated(u, q)]
    /\ UNCHANGED <<account, role, banned, raced, budget>>

-----------------------------------------------------------------------------
(* Sessions *)

\* The password is checked, the session is inserted by another statement.
Login(r, u) ==
    /\ req[r] = Idle
    /\ account[u] = "verified" /\ ~banned[u]
    /\ Goto(r, [at |-> "session", user |-> u, password |-> password[u], late |-> FALSE])
    /\ UNCHANGED <<users, sessions, codes, lock, raced, budget>>

CreateSession(r) ==
    /\ req[r].at = "session"
    /\ sessions' = sessions \cup
          {[user |-> req[r].user, password |-> req[r].password, late |-> req[r].late]}
    /\ Goto(r, Idle)
    /\ UNCHANGED <<users, codes, lock, raced, budget>>

Logout(s) ==
    /\ sessions' = sessions \ {s}
    /\ UNCHANGED <<users, codes, lock, req, raced, budget>>

-----------------------------------------------------------------------------
(* Administrators *)

ActiveAdmins == {u \in Users : role[u] = "ADMIN" /\ ~banned[u]}

Acting(a) == a \in ActiveAdmins /\ \E s \in sessions : s.user = a

\* Mutant: banned administrators count as administrators that remain.
NotTheLastListed(u) ==
    role[u] = "ADMIN" => \E v \in Users \ {u} : role[v] = "ADMIN"

\* The administrator who would go is not the only active one.
NotTheLast(u) ==
    role[u] = "ADMIN" => \E v, w \in ActiveAdmins : v # w

\* PATCH up to its count.
Edit(r, a, u, newRole, ban) ==
    /\ req[r] = Idle /\ Acting(a)
    /\ account[u] # "none" /\ ~(a = u /\ ban)
    /\ newRole # "ADMIN" \/ ban => NotTheLast(u)
    /\ Goto(r, [at |-> "save", user |-> u, role |-> newRole, ban |-> ban, stale |-> FALSE])
    /\ Spend("edits")
    /\ UNCHANGED <<users, sessions, codes, lock, raced>>

\* A write to the users outdates what the other staff requests have counted.
Stale(q) ==
    IF req[q].at \in {"save", "delete"} THEN [req[q] EXCEPT !.stale = TRUE] ELSE req[q]

\* Mutant: a ban leaves the sessions to their own expiry.
SaveOnly(r) ==
    /\ req[r].at = "save"
    /\ LET u == req[r].user IN
        /\ role' = [role EXCEPT ![u] = req[r].role]
        /\ banned' = [banned EXCEPT ![u] = req[r].ban]
        /\ req' = [q \in Requests |->
              IF q = r THEN Idle
              ELSE IF req[r].ban /\ req[q].at = "session" THEN Outdated(u, q) ELSE Stale(q)]
    /\ raced' = (raced \/ req[r].stale)
    /\ UNCHANGED <<account, password, sessions, codes, lock, budget>>

\* The row; the sessions of a banned user end in a statement of their own.
Save(r) ==
    /\ req[r].at = "save"
    /\ LET u == req[r].user IN
        /\ role' = [role EXCEPT ![u] = req[r].role]
        /\ banned' = [banned EXCEPT ![u] = req[r].ban]
        /\ req' = [q \in Requests |->
              IF q = r THEN IF req[r].ban THEN [at |-> "purge", user |-> u] ELSE Idle
              ELSE IF req[r].ban /\ req[q].at = "session" THEN Outdated(u, q) ELSE Stale(q)]
    /\ raced' = (raced \/ req[r].stale)
    /\ UNCHANGED <<account, password, sessions, codes, lock, budget>>

Purge(r) ==
    /\ req[r].at = "purge"
    /\ sessions' = {s \in sessions : s.user # req[r].user}
    /\ Goto(r, Idle)
    /\ UNCHANGED <<users, codes, lock, raced, budget>>

\* DELETE up to its counts; a customer without history may go.
AskDelete(r, a, u) ==
    /\ req[r] = Idle /\ Acting(a)
    /\ account[u] # "none" /\ a # u /\ NotTheLast(u)
    /\ Goto(r, [at |-> "delete", user |-> u, stale |-> FALSE])
    /\ Spend("edits")
    /\ UNCHANGED <<users, sessions, codes, lock, raced>>

\* Sessions and codes go with the row, and requests about it fail.
Delete(r) ==
    /\ req[r].at = "delete"
    /\ LET u == req[r].user
           gone == UNION {Unconsumed(u, p) : p \in Purposes}
       IN /\ \A c \in gone : lock[c] = None
          /\ account' = [account EXCEPT ![u] = "none"]
          /\ role' = [role EXCEPT ![u] = "USER"] /\ banned' = [banned EXCEPT ![u] = FALSE]
          /\ password' = [password EXCEPT ![u] = 0]
          /\ sessions' = {s \in sessions : s.user # u}
          /\ code' = [c \in Codes |-> IF c \in gone THEN Consumed ELSE code[c]]
          /\ older' = Without(gone)
          /\ req' = [q \in Requests |->
                IF "user" \in DOMAIN req[q] /\ req[q].user = u THEN Idle ELSE Stale(q)]
    /\ raced' = (raced \/ req[r].stale)
    /\ UNCHANGED <<lock, budget>>

\* A request dies, or a statement of it fails: its transaction rolls back.  Sessions
\* that a ban was still to end then outlive it.
Die(r) ==
    /\ req[r] # Idle
    /\ sessions' = IF req[r].at = "purge"
                   THEN {[s EXCEPT !.late = @ \/ s.user = req[r].user] : s \in sessions}
                   ELSE sessions
    /\ Goto(r, Idle)
    /\ lock' = Unlocked(r)
    /\ UNCHANGED <<users, codes, raced, budget>>

-----------------------------------------------------------------------------

Continue(r) ==
    \/ Wake(r) \/ Replace(r) \/ Verify(r) \/ Reset(r) \/ CreateSession(r)
    \/ Save(r) \/ Purge(r) \/ Delete(r) \/ Die(r)
    \/ \E c \in Codes : Insert(r, c)

Begin(r) ==
    \/ \E u \in Users :
        \/ Register(r, u) \/ Login(r, u)
        \/ \E p \in Purposes : AskCode(r, u, p)
        \/ \E a \in Users :
            \/ AskDelete(r, a, u)
            \/ \E newRole \in {"ADMIN", "USER"}, ban \in BOOLEAN : Edit(r, a, u, newRole, ban)
    \/ \E c \in Codes : Submit(r, c) \/ Guess(r, c)

Next ==
    \/ \E r \in Requests : Begin(r) \/ Continue(r)
    \/ \E c \in Codes : Age(c)
    \/ \E s \in sessions : Logout(s)

Spec == Init /\ [][Next]_vars

-----------------------------------------------------------------------------
(* Properties *)

\* A code takes effect once: the row a verification or a reset is about to use up
\* is unconsumed until it does, whatever is resent, guessed or submitted meanwhile.
CodeUsedOnce ==
    \A r \in Requests : req[r].at = "apply" => code[req[r].code] # Consumed

\* A code request that no other overtook leaves its code as the only one that works.
NewestReplaces ==
    [][\A r \in Requests, c \in Codes :
          Insert(r, c) /\ ~req[r].overtaken =>
              {k \in Codes : code'[k] # Consumed /\ code'[k].user = req[r].user
                               /\ code'[k].purpose = req[r].purpose} = {c}]_vars

\* A session was made with the password its user still has; only a login that had
\* checked the password before a reset, and inserts its session after, escapes.
SessionsFollowPassword ==
    \A s \in sessions : s.password = password[s.user] \/ s.late

\* A ban ends the sessions there are, so that none comes back when it is lifted; one
\* that was being made at that moment, or whose end died with the request, does.
BanEndsSessions ==
    \A s \in sessions : banned[s.user] =>
        s.late \/ \E r \in Requests : req[r] = [at |-> "purge", user |-> s.user]

\* "The last active administrator cannot be demoted or banned", nor deleted, as long
\* as no two staff requests overlap.
AdminRemains == raced \/ ActiveAdmins # {}
=============================================================================
