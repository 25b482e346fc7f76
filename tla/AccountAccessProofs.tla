-------------------------- MODULE AccountAccessProofs --------------------------
(***************************************************************************)
(* Proofs about AccountAccess, for any number of users, requests and       *)
(* codes.  Requests carry what they read into a later statement, so each   *)
(* invariant says what still holds of it: a row that is locked is still    *)
(* unconsumed, a password or a ban that changed has marked the login, and  *)
(* a count of administrators that another write outdated is marked stale.  *)
(***************************************************************************)
EXTENDS AccountAccess, TLAPS

Waiting == [at : {"wait"}, user : Users, purpose : Purposes, code : Codes]
Making == [at : {"replace", "insert"}, user : Users, purpose : Purposes, overtaken : BOOLEAN]
Applying == [at : {"apply"}, code : Codes]
Entering == [at : {"session"}, user : Users, password : Passwords, late : BOOLEAN]
Saving == [at : {"save"}, user : Users, role : {"ADMIN", "USER"}, ban : BOOLEAN, stale : BOOLEAN]
Deleting == [at : {"delete"}, user : Users, stale : BOOLEAN]
Purging == [at : {"purge"}, user : Users]

Sessions == [user : Users, password : Passwords, late : BOOLEAN]
Rows == [age : {"fresh", "old", "expired"}, user : Users, purpose : Purposes,
         attempts : 0..MaxAttempts, sent : BOOLEAN]

Columns ==
    /\ account \in [Users -> {"none", "unverified", "verified"}]
    /\ role \in [Users -> {"ADMIN", "USER"}] /\ banned \in [Users -> BOOLEAN]
    /\ password \in [Users -> Passwords]
    /\ sessions \subseteq Sessions
    /\ code \in [Codes -> {Consumed} \cup Rows]
    /\ lock \in [Codes -> Requests \cup {None}]
    /\ raced \in BOOLEAN

Requested == req \in [Requests -> RequestStates]

\* What the word of a request says about the rest of it.
LEMMA Shapes ==
    ASSUME NEW q \in RequestStates
    PROVE  /\ q.at = "idle" => q = Idle
           /\ q.at = "wait" => q \in Waiting
           /\ q.at \in {"replace", "insert"} => q \in Making
           /\ q.at = "apply" => q \in Applying
           /\ q.at = "session" => q \in Entering
           /\ q.at = "save" => q \in Saving
           /\ q.at = "delete" => q \in Deleting
           /\ q.at = "purge" => q \in Purging
           /\ q.at \in {"idle", "wait", "replace", "insert", "apply", "session", "save",
                        "delete", "purge"}
  BY DEF RequestStates, Idle, Waiting, Making, Applying, Entering, Saving, Deleting, Purging

LEMMA States ==
    /\ Idle \in RequestStates /\ Waiting \subseteq RequestStates
    /\ Making \subseteq RequestStates /\ Applying \subseteq RequestStates
    /\ Entering \subseteq RequestStates /\ Saving \subseteq RequestStates
    /\ Deleting \subseteq RequestStates /\ Purging \subseteq RequestStates
  BY DEF RequestStates, Idle, Waiting, Making, Applying, Entering, Saving, Deleting, Purging

LEMMA MakingMoves ==
    ASSUME NEW q \in Making
    PROVE  /\ [q EXCEPT !.at = "insert"] \in Making
           /\ [q EXCEPT !.at = "insert"].at = "insert"
           /\ [q EXCEPT !.at = "insert"].user = q.user
           /\ [q EXCEPT !.at = "insert"].purpose = q.purpose
           /\ [q EXCEPT !.overtaken = TRUE] \in Making
           /\ [q EXCEPT !.overtaken = TRUE].at = q.at
           /\ [q EXCEPT !.overtaken = TRUE].overtaken = TRUE
  BY DEF Making

\* A login whose user loses the sessions is marked, every other request is left.
LEMMA OutdatedMarks ==
    ASSUME Requested, NEW q \in Requests, NEW u
    PROVE  /\ Outdated(u, q) \in RequestStates
           /\ Outdated(u, q).at = req[q].at
           /\ req[q].at # "session" => Outdated(u, q) = req[q]
           /\ req[q].at = "session" =>
                /\ Outdated(u, q).user = req[q].user
                /\ Outdated(u, q).password = req[q].password
                /\ req[q].late \/ req[q].user = u => Outdated(u, q).late
  <1>1. CASE req[q].at = "session" /\ req[q].user = u
    <2>1. req[q] \in Entering
      BY <1>1, Shapes DEF Requested
    <2> DEFINE old == req[q]
    <2>2. Outdated(u, q) = [old EXCEPT !.late = TRUE]
      BY <1>1 DEF Outdated
    <2>3. /\ [old EXCEPT !.late = TRUE] \in Entering
          /\ [old EXCEPT !.late = TRUE].at = old.at
          /\ [old EXCEPT !.late = TRUE].user = old.user
          /\ [old EXCEPT !.late = TRUE].password = old.password
          /\ [old EXCEPT !.late = TRUE].late = TRUE
      BY <2>1 DEF Entering
    <2> QED
      BY <1>1, <2>2, <2>3, States
  <1>2. CASE ~(req[q].at = "session" /\ req[q].user = u)
    BY <1>2 DEF Outdated, Requested
  <1> QED
    BY <1>1, <1>2

\* A staff request that has counted is marked, every other request is left.
LEMMA StaleMarks ==
    ASSUME Requested, NEW q \in Requests
    PROVE  /\ Stale(q) \in RequestStates
           /\ Stale(q).at = req[q].at
           /\ req[q].at \notin {"save", "delete"} => Stale(q) = req[q]
           /\ req[q].at \in {"save", "delete"} =>
                Stale(q).stale /\ Stale(q).user = req[q].user
  <1>1. CASE req[q].at \in {"save", "delete"}
    <2>1. req[q] \in Saving \/ req[q] \in Deleting
      BY <1>1, Shapes DEF Requested
    <2> DEFINE old == req[q]
    <2>2. Stale(q) = [old EXCEPT !.stale = TRUE]
      BY <1>1 DEF Stale
    <2>3. /\ [old EXCEPT !.stale = TRUE] \in Saving \/ [old EXCEPT !.stale = TRUE] \in Deleting
          /\ [old EXCEPT !.stale = TRUE].at = old.at
          /\ [old EXCEPT !.stale = TRUE].stale = TRUE
          /\ [old EXCEPT !.stale = TRUE].user = old.user
      BY <2>1 DEF Saving, Deleting
    <2> QED
      BY <1>1, <2>2, <2>3, States
  <1>2. CASE req[q].at \notin {"save", "delete"}
    BY <1>2 DEF Stale, Requested
  <1> QED
    BY <1>1, <1>2

LEMMA RowMoves ==
    ASSUME NEW row \in Rows
    PROVE  /\ row # Consumed
           /\ \A age \in {"old", "expired"} :
                 /\ [row EXCEPT !.age = age] \in Rows
                 /\ [row EXCEPT !.age = age].user = row.user
                 /\ [row EXCEPT !.age = age].purpose = row.purpose
           /\ row.attempts < MaxAttempts =>
                 /\ [row EXCEPT !.attempts = row.attempts + 1] \in Rows
                 /\ [row EXCEPT !.attempts = row.attempts + 1].user = row.user
                 /\ [row EXCEPT !.attempts = row.attempts + 1].purpose = row.purpose
  BY LimitAssumption DEF Rows, Consumed

-----------------------------------------------------------------------------
(* Codes in use *)

\* A code that is about to be used up is under the lock of the request that uses it.
HeldCodes ==
    \A r \in Requests : req[r].at = "apply" =>
        lock[req[r].code] = r /\ code[req[r].code] # Consumed

Base == Columns /\ Requested /\ HeldCodes

\* A step of r, or of nobody, that takes no lock and no row from the others.
LEMMA OthersKeep ==
    ASSUME Base, NEW r,
           \A q \in Requests \ {r} : req'[q].at = "apply" => req'[q] = req[q],
           \A c \in Codes : lock[c] \in Requests \ {r} =>
               lock'[c] = lock[c] /\ (code[c] # Consumed => code'[c] # Consumed),
           r \in Requests /\ req'[r].at = "apply" =>
               lock'[req'[r].code] = r /\ code'[req'[r].code] # Consumed
    PROVE  HeldCodes'
  <1>1. ASSUME NEW q \in Requests, q # r, req'[q].at = "apply"
        PROVE  lock'[req'[q].code] = q /\ code'[req'[q].code] # Consumed
    <2>1. req'[q] = req[q] /\ req[q].at = "apply"
      BY <1>1
    <2>2. req[q].code \in Codes
      BY <2>1, Shapes DEF Base, Requested, Applying
    <2>3. lock[req[q].code] = q /\ code[req[q].code] # Consumed
      BY <2>1 DEF Base, HeldCodes
    <2> QED
      BY <1>1, <2>1, <2>2, <2>3
  <1> QED
    BY <1>1 DEF HeldCodes

\* A request that starts on what is not a code, and touches none.
LEMMA PlainStart ==
    ASSUME Base, NEW r \in Requests, NEW next \in RequestStates, next.at # "apply",
           Goto(r, next), UNCHANGED <<code, lock>>
    PROVE  Requested' /\ HeldCodes'
  <1>1. req' = [req EXCEPT ![r] = next]
    BY DEF Goto
  <1>2. Requested'
    BY <1>1 DEF Base, Requested
  <1>3. \A q \in Requests : req'[q] = IF q = r THEN next ELSE req[q]
    BY <1>1 DEF Base, Requested
  <1> QED
    BY <1>2, <1>3, OthersKeep

\* The rows that Holds locks, and no others, change hands.
LEMMA HoldsLocks ==
    ASSUME Columns, NEW r \in Requests, NEW cs \in SUBSET Codes, Holds(r, cs),
           \A c \in cs : lock[c] \in {r, None}
    PROVE  /\ lock' \in [Codes -> Requests \cup {None}]
           /\ \A c \in Codes : lock'[c] = IF c \in cs THEN r ELSE lock[c]
           /\ \A c \in Codes : lock[c] \in Requests \ {r} => lock'[c] = lock[c]
  BY NullAssumption DEF Columns, Holds

LEMMA UnlockedLocks ==
    ASSUME Columns, NEW r \in Requests, lock' = Unlocked(r)
    PROVE  /\ lock' \in [Codes -> Requests \cup {None}]
           /\ \A c \in Codes : lock'[c] = IF lock[c] = r THEN None ELSE lock[c]
  BY DEF Columns, Unlocked

\* LockRecent ends the request or lets it replace the rows, with one of them locked.
LEMMA RecentLocked ==
    ASSUME Base, NEW r \in Requests, NEW u \in Users, NEW p \in Purposes, NEW c \in Codes,
           lock[c] = None, LockRecent(r, u, p, c), UNCHANGED code
    PROVE  Requested' /\ HeldCodes' /\ lock' \in [Codes -> Requests \cup {None}]
  <1>1. CASE code[c].age = "fresh"
    <2>1. Goto(r, Idle) /\ lock' = lock
      BY <1>1 DEF LockRecent
    <2>2. Idle \in RequestStates /\ Idle.at # "apply"
      BY States DEF Idle
    <2> QED
      BY <2>1, <2>2, PlainStart DEF Base, Columns
  <1>2. CASE code[c].age # "fresh"
    <2>1. Goto(r, Replacing(u, p)) /\ Holds(r, {c})
      BY <1>2 DEF LockRecent
    <2>2. Replacing(u, p) \in Making /\ Replacing(u, p).at = "replace"
      BY DEF Replacing, Making
    <2>3. req' = [req EXCEPT ![r] = Replacing(u, p)]
      BY <2>1 DEF Goto
    <2>4. Requested'
      BY <2>2, <2>3, States DEF Base, Requested
    <2>5. /\ lock' \in [Codes -> Requests \cup {None}]
          /\ \A k \in Codes : lock[k] \in Requests \ {r} => lock'[k] = lock[k]
      BY <2>1, HoldsLocks DEF Base
    <2>6. \A q \in Requests : req'[q] = IF q = r THEN Replacing(u, p) ELSE req[q]
      BY <2>3 DEF Base, Requested
    <2> QED
      BY <2>2, <2>4, <2>5, <2>6, OthersKeep
  <1> QED
    BY <1>1, <1>2

-----------------------------------------------------------------------------
(* Each step keeps the base *)

LEMMA RegisterBase ==
    ASSUME Base, NEW r \in Requests, NEW u \in Users, Register(r, u)
    PROVE  Base'
  <1>1. Replacing(u, "EMAIL_VERIFY") \in Making /\ Replacing(u, "EMAIL_VERIFY").at = "replace"
    BY DEF Replacing, Making, Purposes
  <1>2. Columns'
    BY DEF Register, codes, Base, Columns
  <1>3. Requested' /\ HeldCodes'
    BY <1>1, States, PlainStart DEF Register, codes
  <1> QED
    BY <1>2, <1>3 DEF Base

LEMMA AskCodeBase ==
    ASSUME Base, NEW r \in Requests, NEW u \in Users, NEW p \in Purposes, AskCode(r, u, p)
    PROVE  Base'
  <1>1. UNCHANGED <<account, role, banned, password, sessions, code, raced>>
    BY DEF AskCode, users, codes
  <1>2. CASE Goto(r, Replacing(u, p)) /\ UNCHANGED lock
    <2>1. Replacing(u, p) \in Making /\ Replacing(u, p).at = "replace"
      BY DEF Replacing, Making
    <2> QED
      BY <1>1, <1>2, <2>1, States, PlainStart DEF Base, Columns
  <1>3. ASSUME NEW c \in Unconsumed(u, p), lock[c] = None, LockRecent(r, u, p, c)
        PROVE  Base'
    <2>1. c \in Codes
      BY DEF Unconsumed, Unused
    <2> QED
      BY <1>1, <1>3, <2>1, RecentLocked DEF Base, Columns
  <1>4. ASSUME NEW c \in Unconsumed(u, p), UNCHANGED lock,
               Goto(r, [at |-> "wait", user |-> u, purpose |-> p, code |-> c])
        PROVE  Base'
    <2> DEFINE next == [at |-> "wait", user |-> u, purpose |-> p, code |-> c]
    <2>1. next \in Waiting /\ next.at = "wait"
      BY DEF Waiting, Unconsumed, Unused
    <2>2. next \in RequestStates /\ next.at # "apply" /\ Goto(r, next)
      BY <1>4, <2>1, States
    <2> HIDE DEF next
    <2> QED
      BY <1>1, <1>4, <2>2, PlainStart DEF Base, Columns
  <1> QED
    BY <1>2, <1>3, <1>4 DEF AskCode

LEMMA WakeBase ==
    ASSUME Base, NEW r \in Requests, Wake(r)
    PROVE  Base'
  <1> DEFINE u == req[r].user
             p == req[r].purpose
             c == req[r].code
  <1>1. UNCHANGED <<account, role, banned, password, sessions, code, raced>> /\ lock[c] = None
    BY DEF Wake, users, codes
  <1>2. u \in Users /\ p \in Purposes /\ c \in Codes
    BY Shapes DEF Wake, Base, Requested, Waiting
  <1>3. CASE LockRecent(r, u, p, c)
    BY <1>1, <1>2, <1>3, RecentLocked DEF Base, Columns
  <1>4. CASE Goto(r, Replacing(u, p)) /\ UNCHANGED lock
    <2>1. Replacing(u, p) \in Making /\ Replacing(u, p).at = "replace"
      BY <1>2 DEF Replacing, Making
    <2> QED
      BY <1>1, <1>4, <2>1, States, PlainStart DEF Base, Columns
  <1> QED
    BY <1>3, <1>4 DEF Wake

LEMMA ReplaceBase ==
    ASSUME Base, NEW r \in Requests, Replace(r)
    PROVE  Base'
  <1> DEFINE old == Unconsumed(req[r].user, req[r].purpose)
             next == [req[r] EXCEPT !.at = "insert"]
  <1>1. /\ UNCHANGED <<account, role, banned, password, sessions, code, raced>>
        /\ Holds(r, old) /\ \A c \in old : lock[c] \in {r, None}
        /\ req' = [req EXCEPT ![r] = next]
    BY DEF Replace, users, codes, Goto
  <1>2. req[r] \in Making
    BY Shapes DEF Replace, Base, Requested
  <1>3. next \in RequestStates /\ next.at = "insert"
    BY <1>2, MakingMoves, States
  <1>4. old \in SUBSET Codes
    BY DEF Unconsumed, Unused
  <1> HIDE DEF next, old
  <1>5. /\ lock' \in [Codes -> Requests \cup {None}]
        /\ \A c \in Codes : lock[c] \in Requests \ {r} => lock'[c] = lock[c]
    BY <1>1, <1>4, HoldsLocks DEF Base
  <1>6. Requested' /\ \A q \in Requests : req'[q] = IF q = r THEN next ELSE req[q]
    BY <1>1, <1>3 DEF Base, Requested
  <1>7. HeldCodes'
    BY <1>1, <1>3, <1>5, <1>6, OthersKeep
  <1> QED
    BY <1>1, <1>5, <1>6, <1>7 DEF Base, Columns

LEMMA InsertBase ==
    ASSUME Base, NEW r \in Requests, NEW c \in Codes, Insert(r, c)
    PROVE  Base'
  <1> DEFINE u == req[r].user
             p == req[r].purpose
             old == {k \in Codes : lock[k] = r}
  <1>1. /\ req[r] \in Making /\ u \in Users /\ p \in Purposes
        /\ code[c] = Consumed \/ c \in old
        /\ lock' = Unlocked(r)
        /\ UNCHANGED <<account, role, banned, password, sessions, raced>>
    BY Shapes DEF Insert, users, Base, Requested, Making
  <1>2. PICK sent \in BOOLEAN :
          code' = [k \in Codes |->
                    IF k = c THEN [age |-> "fresh", user |-> u, purpose |-> p,
                                   attempts |-> 0, sent |-> sent]
                    ELSE IF k \in old THEN Consumed ELSE code[k]]
    BY DEF Insert
  <1>3. req' = [q \in Requests |->
                IF q = r THEN Idle
                ELSE IF req[q].at = "insert" /\ req[q].user = u /\ req[q].purpose = p
                     THEN [req[q] EXCEPT !.overtaken = TRUE] ELSE req[q]]
    BY DEF Insert
  <1> DEFINE new == [age |-> "fresh", user |-> u, purpose |-> p, attempts |-> 0, sent |-> sent]
  <1>4. new \in Rows
    BY <1>1, LimitAssumption DEF Rows
  <1>5. new # Consumed
    BY <1>4, RowMoves
  <1>6. code' \in [Codes -> {Consumed} \cup Rows]
    BY <1>2, <1>4 DEF Base, Columns
  <1>7. /\ lock' \in [Codes -> Requests \cup {None}]
        /\ \A k \in Codes : lock'[k] = IF lock[k] = r THEN None ELSE lock[k]
    BY <1>1, UnlockedLocks DEF Base
  <1>8. ASSUME NEW q \in Requests
        PROVE  req'[q] \in RequestStates /\ (req'[q].at = "apply" => req'[q] = req[q])
    <2>1. CASE q = r
      BY <1>3, <2>1, States DEF Idle
    <2>2. CASE q # r /\ req[q].at = "insert"
      <3>1. req[q] \in Making
        BY <2>2, Shapes DEF Base, Requested
      <3>2. [req[q] EXCEPT !.overtaken = TRUE] \in RequestStates
            /\ [req[q] EXCEPT !.overtaken = TRUE].at = "insert"
        BY <2>2, <3>1, MakingMoves, States
      <3> QED
        BY <1>3, <2>2, <3>2 DEF Base, Requested
    <2>3. CASE q # r /\ req[q].at # "insert"
      BY <1>3, <2>3 DEF Base, Requested
    <2> QED
      BY <2>1, <2>2, <2>3
  <1>9. Requested'
    BY <1>3, <1>8 DEF Requested
  <1>10. \A k \in Codes : lock[k] \in Requests \ {r} =>
            lock'[k] = lock[k] /\ (code[k] # Consumed => code'[k] # Consumed)
    BY <1>1, <1>2, <1>5, <1>7
  <1>11. HeldCodes'
    BY <1>3, <1>8, <1>10, OthersKeep DEF Idle
  <1> QED
    BY <1>1, <1>6, <1>7, <1>9, <1>11 DEF Base, Columns

\* Age and Guess leave a row that was there, with its user and purpose.
LEMMA CodeBase ==
    ASSUME Base, NEW c \in Codes, NEW r, Age(c) \/ Guess(r, c)
    PROVE  /\ Base' /\ req' = req /\ lock' = lock
           /\ \A k \in Codes : code[k] # Consumed <=> code'[k] # Consumed
           /\ \A k \in Codes : code[k] # Consumed =>
                 code'[k].user = code[k].user /\ code'[k].purpose = code[k].purpose
           /\ UNCHANGED <<users, sessions, raced>>
  <1> DEFINE row == code[c]
  <1>1. row \in Rows
    BY DEF Age, Guess, Live, Consumed, Base, Columns
  <1>2. PICK new \in Rows : /\ code' = [code EXCEPT ![c] = new]
                            /\ new.user = row.user /\ new.purpose = row.purpose
    <2>1. CASE Age(c)
      <3>1. PICK age \in {"old", "expired"} : code' = [code EXCEPT ![c] = [row EXCEPT !.age = age]]
        BY <2>1 DEF Age
      <3> QED
        BY <1>1, <3>1, RowMoves
    <2>2. CASE Guess(r, c)
      <3>1. /\ row.attempts < MaxAttempts
            /\ code' = [code EXCEPT ![c] = [row EXCEPT !.attempts = row.attempts + 1]]
        BY <2>2 DEF Guess
      <3> QED
        BY <1>1, <3>1, RowMoves
    <2> QED
      BY <2>1, <2>2
  <1>3. UNCHANGED <<account, role, banned, password, sessions, lock, req, raced>>
    BY DEF Age, Guess, users
  <1>4. row # Consumed /\ new # Consumed
    BY <1>1, <1>2, RowMoves
  <1>5. \A k \in Codes : code'[k] = IF k = c THEN new ELSE code[k]
    BY <1>2 DEF Base, Columns
  <1>6. Columns'
    BY <1>2, <1>3 DEF Base, Columns
  <1>7. Requested' /\ HeldCodes'
    <2>1. \A q \in Requests : req[q].at = "apply" => req[q].code \in Codes
      BY Shapes DEF Base, Requested, Applying
    <2> QED
      BY <1>3, <1>4, <1>5, <2>1 DEF Base, Requested, HeldCodes
  <1>8. \A k \in Codes : code[k] # Consumed <=> code'[k] # Consumed
    BY <1>4, <1>5
  <1>9. \A k \in Codes : code[k] # Consumed =>
           code'[k].user = code[k].user /\ code'[k].purpose = code[k].purpose
    BY <1>2, <1>5
  <1>10. Base'
    BY <1>6, <1>7 DEF Base
  <1> QED
    BY <1>3, <1>8, <1>9, <1>10 DEF users

LEMMA SubmitBase ==
    ASSUME Base, NEW r \in Requests, NEW c \in Codes, Submit(r, c)
    PROVE  Base'
  <1> DEFINE next == [at |-> "apply", code |-> c]
  <1>1. /\ req' = [req EXCEPT ![r] = next] /\ Holds(r, {c}) /\ lock[c] = None
        /\ UNCHANGED <<account, role, banned, password, sessions, code, raced>>
    BY DEF Submit, Goto, users, codes
  <1>2. next \in Applying /\ next.code = c
    BY DEF Applying
  <1>3. code[c] # Consumed
    BY DEF Submit, Live, Consumed
  <1> HIDE DEF next
  <1>4. Requested' /\ \A q \in Requests : req'[q] = IF q = r THEN next ELSE req[q]
    BY <1>1, <1>2, States DEF Base, Requested
  <1>5. /\ lock' \in [Codes -> Requests \cup {None}] /\ lock'[c] = r
        /\ \A k \in Codes : lock[k] \in Requests \ {r} => lock'[k] = lock[k]
    BY <1>1, HoldsLocks DEF Base
  <1>6. HeldCodes'
    BY <1>1, <1>2, <1>3, <1>4, <1>5, OthersKeep
  <1> QED
    BY <1>1, <1>4, <1>5, <1>6 DEF Base, Columns

\* The row of a code that takes effect, and what its consumption leaves.
LEMMA ConsumeStep ==
    ASSUME Base, NEW r \in Requests, req[r].at = "apply", Consume(r, req[r].code)
    PROVE  /\ req[r].code \in Codes /\ code[req[r].code] \in Rows
           /\ code' \in [Codes -> {Consumed} \cup Rows]
           /\ lock' \in [Codes -> Requests \cup {None}]
           /\ \A k \in Codes : code'[k] = IF k = req[r].code THEN Consumed ELSE code[k]
           /\ \A k \in Codes : lock'[k] = IF lock[k] = r THEN None ELSE lock[k]
           /\ lock[req[r].code] = r
  <1>1. req[r].code \in Codes
    BY Shapes DEF Base, Requested, Applying
  <1>2. code[req[r].code] \in Rows /\ lock[req[r].code] = r
    BY <1>1 DEF Base, Columns, HeldCodes
  <1>3. lock' = Unlocked(r) /\ code' = [code EXCEPT ![req[r].code] = Consumed]
    BY DEF Consume
  <1> QED
    BY <1>1, <1>2, <1>3, UnlockedLocks DEF Base, Columns

LEMMA VerifyBase ==
    ASSUME Base, NEW r \in Requests, Verify(r)
    PROVE  Base'
  <1> DEFINE c == req[r].code
             u == code[c].user
             next == [at |-> "session", user |-> u, password |-> password[u], late |-> banned[u]]
  <1>1. /\ req[r].at = "apply" /\ Consume(r, c)
        /\ account' = [account EXCEPT ![u] = "verified"]
        /\ req' = [req EXCEPT ![r] = next]
        /\ UNCHANGED <<role, banned, password, sessions, raced>>
    BY DEF Verify, Goto
  <1>2. u \in Users
    BY <1>1, ConsumeStep DEF Rows
  <1>3. next \in Entering /\ next.at = "session"
    BY <1>2 DEF Entering, Base, Columns
  <1> HIDE DEF next
  <1>4. Requested' /\ \A q \in Requests : req'[q] = IF q = r THEN next ELSE req[q]
    BY <1>1, <1>3, States DEF Base, Requested
  <1>5. HeldCodes'
    BY <1>1, <1>3, <1>4, ConsumeStep, OthersKeep
  <1>6. account' \in [Users -> {"none", "unverified", "verified"}]
    BY <1>1 DEF Base, Columns
  <1> QED
    BY <1>1, <1>4, <1>5, <1>6, ConsumeStep DEF Base, Columns

LEMMA ResetBase ==
    ASSUME Base, NEW r \in Requests, Reset(r)
    PROVE  Base'
  <1> DEFINE c == req[r].code
             u == code[c].user
  <1>1. /\ req[r].at = "apply" /\ Consume(r, c) /\ password[u] < MaxResets
        /\ password' = [password EXCEPT ![u] = @ + 1]
        /\ sessions' = {s \in sessions : s.user # u}
        /\ req' = [q \in Requests |-> IF q = r THEN Idle ELSE Outdated(u, q)]
        /\ UNCHANGED <<account, role, banned, raced>>
    BY DEF Reset
  <1>2. u \in Users
    BY <1>1, ConsumeStep DEF Rows
  <1>3. ASSUME NEW q \in Requests
        PROVE  req'[q] \in RequestStates /\ (req'[q].at = "apply" => req'[q] = req[q])
    BY <1>1, OutdatedMarks, States DEF Base, Idle
  <1>4. Requested'
    BY <1>1, <1>3 DEF Requested
  <1>5. HeldCodes'
    <2>1. \A k \in Codes : lock[k] \in Requests \ {r} =>
             lock'[k] = lock[k] /\ (code[k] # Consumed => code'[k] # Consumed)
      BY <1>1, ConsumeStep
    <2>2. req'[r].at # "apply"
      BY <1>1 DEF Idle
    <2> QED
      BY <1>3, <2>1, <2>2, OthersKeep
  <1>6. password[u] + 1 \in Passwords
    BY <1>1, <1>2, LimitAssumption DEF Base, Columns, Passwords
  <1>7. password' \in [Users -> Passwords]
    BY <1>1, <1>6 DEF Base, Columns
  <1>8. sessions' \subseteq Sessions
    BY <1>1 DEF Base, Columns
  <1> QED
    BY <1>1, <1>4, <1>5, <1>7, <1>8, ConsumeStep DEF Base, Columns

LEMMA LoginBase ==
    ASSUME Base, NEW r \in Requests, NEW u \in Users, Login(r, u)
    PROVE  Base'
  <1> DEFINE next == [at |-> "session", user |-> u, password |-> password[u], late |-> FALSE]
  <1>1. next \in Entering /\ next.at = "session"
    BY DEF Entering, Base, Columns
  <1>2. next \in RequestStates /\ next.at # "apply" /\ Goto(r, next)
    BY <1>1, States DEF Login
  <1> HIDE DEF next
  <1> QED
    BY <1>2, PlainStart DEF Login, users, codes, Base, Columns

LEMMA CreateSessionBase ==
    ASSUME Base, NEW r \in Requests, CreateSession(r)
    PROVE  Base'
  <1>1. req[r] \in Entering
    BY Shapes DEF CreateSession, Base, Requested
  <1>2. [user |-> req[r].user, password |-> req[r].password, late |-> req[r].late] \in Sessions
    BY <1>1 DEF Entering, Sessions
  <1>3. sessions' \subseteq Sessions
    BY <1>2 DEF CreateSession, Base, Columns
  <1>4. Idle \in RequestStates /\ Idle.at # "apply"
    BY States DEF Idle
  <1> QED
    BY <1>3, <1>4, PlainStart DEF CreateSession, users, codes, Base, Columns

LEMMA LogoutBase ==
    ASSUME Base, NEW s \in sessions, Logout(s)
    PROVE  Base'
  BY DEF Logout, users, codes, Base, Columns, Requested, HeldCodes

LEMMA EditBase ==
    ASSUME Base, NEW r \in Requests, NEW a, NEW u \in Users,
           NEW newRole \in {"ADMIN", "USER"}, NEW ban \in BOOLEAN,
           Edit(r, a, u, newRole, ban) \/ AskDelete(r, a, u)
    PROVE  Base'
  <1> DEFINE save == [at |-> "save", user |-> u, role |-> newRole, ban |-> ban, stale |-> FALSE]
             delete == [at |-> "delete", user |-> u, stale |-> FALSE]
  <1>1. save \in Saving /\ save.at = "save" /\ delete \in Deleting /\ delete.at = "delete"
    BY DEF Saving, Deleting
  <1>2. Goto(r, save) \/ Goto(r, delete)
    BY DEF Edit, AskDelete
  <1>3. UNCHANGED <<account, role, banned, password, sessions, code, lock, raced>>
    BY DEF Edit, AskDelete, users, codes
  <1>4. /\ save \in RequestStates /\ save.at # "apply"
        /\ delete \in RequestStates /\ delete.at # "apply"
    BY <1>1, States
  <1> HIDE DEF save, delete
  <1> QED
    BY <1>2, <1>3, <1>4, PlainStart DEF Base, Columns

LEMMA SaveBase ==
    ASSUME Base, NEW r \in Requests, Save(r)
    PROVE  Base'
  <1> DEFINE u == req[r].user
             next == IF req[r].ban THEN [at |-> "purge", user |-> u] ELSE Idle
  <1>1. req[r] \in Saving /\ u \in Users
    BY Shapes DEF Save, Base, Requested, Saving
  <1>2. /\ role' = [role EXCEPT ![u] = req[r].role]
        /\ banned' = [banned EXCEPT ![u] = req[r].ban]
        /\ req' = [q \in Requests |->
              IF q = r THEN next
              ELSE IF req[r].ban /\ req[q].at = "session" THEN Outdated(u, q) ELSE Stale(q)]
        /\ raced' = (raced \/ req[r].stale)
        /\ UNCHANGED <<account, password, sessions, code, lock>>
    BY DEF Save, codes
  <1>3. next \in RequestStates /\ next.at # "apply"
    <2>1. [at |-> "purge", user |-> u] \in Purging
      BY <1>1 DEF Purging
    <2> QED
      BY <2>1, States DEF Idle
  <1> HIDE DEF next
  <1>4. ASSUME NEW q \in Requests
        PROVE  req'[q] \in RequestStates /\ (req'[q].at = "apply" => req'[q] = req[q])
    BY <1>2, <1>3, OutdatedMarks, StaleMarks DEF Base
  <1>5. Requested'
    BY <1>2, <1>4 DEF Requested
  <1>6. HeldCodes'
    BY <1>2, <1>3, <1>4, OthersKeep
  <1>7. role' \in [Users -> {"ADMIN", "USER"}] /\ banned' \in [Users -> BOOLEAN]
    BY <1>1, <1>2 DEF Saving, Base, Columns
  <1>8. raced' \in BOOLEAN
    BY <1>2
  <1> QED
    BY <1>2, <1>5, <1>6, <1>7, <1>8 DEF Base, Columns

LEMMA PurgeBase ==
    ASSUME Base, NEW r \in Requests, Purge(r)
    PROVE  Base'
  <1>1. Idle \in RequestStates /\ Idle.at # "apply"
    BY States DEF Idle
  <1>2. sessions' \subseteq Sessions
    BY DEF Purge, Base, Columns
  <1> QED
    BY <1>1, <1>2, PlainStart DEF Purge, users, codes, Base, Columns

LEMMA DeleteBase ==
    ASSUME Base, NEW r \in Requests, Delete(r)
    PROVE  Base'
  <1> DEFINE u == req[r].user
             gone == UNION {Unconsumed(u, p) : p \in Purposes}
  <1>1. u \in Users /\ req[r].at = "delete" /\ req[r] \in Deleting
    BY Shapes DEF Delete, Base, Requested, Deleting
  <1>2. /\ \A c \in gone : lock[c] = None
        /\ account' = [account EXCEPT ![u] = "none"]
        /\ role' = [role EXCEPT ![u] = "USER"] /\ banned' = [banned EXCEPT ![u] = FALSE]
        /\ password' = [password EXCEPT ![u] = 0]
        /\ sessions' = {s \in sessions : s.user # u}
        /\ code' = [c \in Codes |-> IF c \in gone THEN Consumed ELSE code[c]]
        /\ req' = [q \in Requests |->
              IF "user" \in DOMAIN req[q] /\ req[q].user = u THEN Idle ELSE Stale(q)]
        /\ raced' = (raced \/ req[r].stale)
        /\ lock' = lock
    BY DEF Delete
  <1> HIDE DEF gone
  <1>3. ASSUME NEW q \in Requests
        PROVE  req'[q] \in RequestStates /\ (req'[q].at = "apply" => req'[q] = req[q])
    BY <1>2, StaleMarks, States DEF Base, Idle
  <1>4. Requested'
    BY <1>2, <1>3 DEF Requested
  <1>5. req'[r].at # "apply"
    BY <1>1, <1>2, StaleMarks DEF Base, Idle
  <1>6. HeldCodes'
    BY <1>2, <1>3, <1>5, NullAssumption, OthersKeep
  <1>7. 0 \in Passwords
    BY LimitAssumption DEF Passwords
  <1>8. /\ account' \in [Users -> {"none", "unverified", "verified"}]
        /\ role' \in [Users -> {"ADMIN", "USER"}] /\ banned' \in [Users -> BOOLEAN]
        /\ password' \in [Users -> Passwords]
    BY <1>2, <1>7 DEF Base, Columns
  <1>9. sessions' \subseteq Sessions /\ code' \in [Codes -> {Consumed} \cup Rows]
    BY <1>2 DEF Base, Columns
  <1>10. raced' \in BOOLEAN
    BY <1>2
  <1> QED
    BY <1>2, <1>4, <1>6, <1>8, <1>9, <1>10 DEF Base, Columns

\* What a death does to the sessions that a ban was to end.
LEMMA LateSessions ==
    ASSUME Base, NEW u, NEW s \in sessions
    PROVE  /\ [s EXCEPT !.late = s.late \/ s.user = u] \in Sessions
           /\ [s EXCEPT !.late = s.late \/ s.user = u].user = s.user
           /\ [s EXCEPT !.late = s.late \/ s.user = u].password = s.password
           /\ [s EXCEPT !.late = s.late \/ s.user = u].late = (s.late \/ s.user = u)
  <1>1. s \in Sessions
    BY DEF Base, Columns
  <1>2. PICK late \in BOOLEAN : late = (s.late \/ s.user = u)
    OBVIOUS
  <1>3. /\ [s EXCEPT !.late = late] \in Sessions
        /\ [s EXCEPT !.late = late].user = s.user
        /\ [s EXCEPT !.late = late].password = s.password
        /\ [s EXCEPT !.late = late].late = late
    BY <1>1 DEF Sessions
  <1> QED
    BY <1>2, <1>3

LEMMA DieBase ==
    ASSUME Base, NEW r \in Requests, Die(r)
    PROVE  Base'
  <1> DEFINE marked == {[s EXCEPT !.late = s.late \/ s.user = req[r].user] : s \in sessions}
  <1>1. /\ sessions' = IF req[r].at = "purge" THEN marked ELSE sessions
        /\ req' = [req EXCEPT ![r] = Idle]
        /\ lock' = Unlocked(r)
        /\ UNCHANGED <<account, role, banned, password, code, raced>>
    BY DEF Die, Goto, users, codes
  <1>2. ASSUME NEW s \in sessions
        PROVE  [s EXCEPT !.late = s.late \/ s.user = req[r].user] \in Sessions
    BY LateSessions
  <1>3. marked \subseteq Sessions
    BY <1>2
  <1> HIDE DEF marked
  <1>4. sessions' \subseteq Sessions
    BY <1>1, <1>3 DEF Base, Columns
  <1>5. Requested' /\ \A q \in Requests : req'[q] = IF q = r THEN Idle ELSE req[q]
    BY <1>1, States DEF Base, Requested
  <1>6. HeldCodes'
    BY <1>1, <1>5, UnlockedLocks, OthersKeep DEF Base, Idle
  <1> QED
    BY <1>1, <1>4, <1>5, <1>6, UnlockedLocks DEF Base, Columns

LEMMA Initially == Init => Base
  <1> SUFFICES ASSUME Init PROVE Base
    OBVIOUS
  <1>1. 0 \in Passwords
    BY LimitAssumption DEF Passwords
  <1>2. sessions \subseteq Sessions
    BY <1>1 DEF Init, Sessions
  <1>3. Columns
    BY <1>1, <1>2 DEF Init, Columns
  <1>4. Requested /\ HeldCodes
    BY States DEF Init, Requested, HeldCodes, Idle
  <1> QED
    BY <1>3, <1>4 DEF Base

LEMMA Inductive == Base /\ [Next]_vars => Base'
  <1> SUFFICES ASSUME Base, [Next]_vars PROVE Base'
    OBVIOUS
  <1>1. CASE UNCHANGED vars
    BY <1>1 DEF vars, users, codes, Base, Columns, Requested, HeldCodes
  <1>2. ASSUME NEW r \in Requests, Begin(r) PROVE Base'
    BY <1>2, RegisterBase, LoginBase, AskCodeBase, EditBase, SubmitBase, CodeBase DEF Begin
  <1>3. ASSUME NEW r \in Requests, Continue(r) PROVE Base'
    BY <1>3, WakeBase, ReplaceBase, VerifyBase, ResetBase, CreateSessionBase, SaveBase,
       PurgeBase, DeleteBase, DieBase, InsertBase DEF Continue
  <1>4. ASSUME NEW c \in Codes, Age(c) PROVE Base'
    BY <1>4, CodeBase
  <1>5. ASSUME NEW s \in sessions, Logout(s) PROVE Base'
    BY <1>5, LogoutBase
  <1> QED
    BY <1>1, <1>2, <1>3, <1>4, <1>5 DEF Next

\* The types, and the locks of codes in use, in every behaviour.
THEOREM Invariance == Spec => []Base
  <1> HIDE DEF Base
  <1> QED
    BY Initially, Inductive, PTL DEF Spec

\* A code that a request is about to use up is still there to be used up, whatever
\* is resent, guessed, deleted or submitted between its check and its consumption.
THEOREM CodesOnce == Spec => []CodeUsedOnce
  <1>1. Base => CodeUsedOnce
    BY DEF Base, HeldCodes, CodeUsedOnce
  <1> HIDE DEF Base, CodeUsedOnce
  <1> QED
    BY <1>1, Invariance, PTL

-----------------------------------------------------------------------------
(* Sessions *)

\* A login between its check and its session knows what happened meanwhile.
LoginsKnow ==
    \A r \in Requests : req[r].at = "session" =>
        /\ req[r].password = password[req[r].user] \/ req[r].late
        /\ banned[req[r].user] => req[r].late

SessionInv == SessionsFollowPassword /\ BanEndsSessions /\ LoginsKnow

\* A step that makes no session and no login, and outdates none that it leaves.
LEMMA QuietSessions ==
    ASSUME Base, SessionInv,
           \A s \in sessions' : /\ s \in sessions /\ password'[s.user] = password[s.user]
                                /\ banned'[s.user] => banned[s.user]
                                /\ \A q \in Requests : req[q] = [at |-> "purge", user |-> s.user]
                                      => req'[q] = req[q],
           \A q \in Requests : req'[q].at = "session" =>
               /\ req'[q] = req[q]
               /\ password'[req[q].user] = password[req[q].user]
               /\ banned'[req[q].user] => banned[req[q].user]
    PROVE  SessionInv'
  <1>1. SessionsFollowPassword'
    BY DEF SessionInv, SessionsFollowPassword
  <1>2. BanEndsSessions'
    <2> SUFFICES ASSUME NEW s \in sessions', banned'[s.user], ~s.late
                 PROVE  \E q \in Requests : req'[q] = [at |-> "purge", user |-> s.user]
      BY DEF BanEndsSessions
    <2>1. PICK q \in Requests : req[q] = [at |-> "purge", user |-> s.user]
      BY DEF SessionInv, BanEndsSessions
    <2> QED
      BY <2>1
  <1>3. LoginsKnow'
    BY DEF SessionInv, LoginsKnow
  <1> QED
    BY <1>1, <1>2, <1>3 DEF SessionInv

\* A step of one request that is not a login and does not end sessions.
LEMMA PlainSessions ==
    ASSUME Base, SessionInv, NEW r \in Requests, NEW next, next.at # "session",
           req[r].at # "purge", Goto(r, next),
           password' = password, sessions' \subseteq sessions,
           \A u \in Users : banned'[u] => banned[u]
    PROVE  SessionInv'
  <1>1. \A q \in Requests : req'[q] = IF q = r THEN next ELSE req[q]
    BY DEF Goto, Base, Requested
  <1>2. \A u : req[r] # [at |-> "purge", user |-> u]
    OBVIOUS
  <1>3. \A s \in sessions : s.user \in Users
    BY DEF Base, Columns, Sessions
  <1>4. \A q \in Requests : req[q].at = "session" => req[q].user \in Users
    BY Shapes DEF Base, Requested, Entering
  <1> QED
    BY <1>1, <1>2, <1>3, <1>4, QuietSessions

LEMMA CodeSessions ==
    ASSUME Base, SessionInv, NEW r \in Requests, NEW u, NEW p, NEW c,
           Register(r, u) \/ AskCode(r, u, p) \/ Wake(r) \/ Replace(r) \/ Submit(r, c)
    PROVE  SessionInv'
  <1>1. req[r].at \in {"idle", "wait", "replace"}
    BY DEF Register, AskCode, Wake, Replace, Submit, Idle
  <1>2. password' = password /\ sessions' = sessions
    BY DEF Register, AskCode, Wake, Replace, Submit, users
  <1>3. \A v \in Users : banned'[v] => banned[v]
    BY DEF Register, AskCode, Wake, Replace, Submit, users, Base, Columns
  <1>4. \E next : Goto(r, next) /\ next.at # "session"
    <2>1. \A v, k : Replacing(v, k).at # "session"
      BY DEF Replacing
    <2>2. Idle.at # "session"
      BY DEF Idle
    <2>3. CASE Replace(r)
      <3>1. req[r] \in Making
        BY <2>3, Shapes DEF Replace, Base, Requested
      <3> QED
        BY <2>3, <3>1, MakingMoves DEF Replace
    <2>4. CASE Wake(r)
      BY <2>1, <2>2, <2>4 DEF Wake, LockRecent
    <2>5. CASE AskCode(r, u, p)
      <3>1. ASSUME NEW k \in Unconsumed(u, p), LockRecent(r, u, p, k)
            PROVE  \E next : Goto(r, next) /\ next.at # "session"
        BY <2>1, <2>2, <3>1 DEF LockRecent
      <3>2. ASSUME NEW k, Goto(r, [at |-> "wait", user |-> u, purpose |-> p, code |-> k])
            PROVE  \E next : Goto(r, next) /\ next.at # "session"
        <4>1. [at |-> "wait", user |-> u, purpose |-> p, code |-> k].at # "session"
          OBVIOUS
        <4> QED
          BY <3>2, <4>1
      <3> QED
        BY <2>1, <2>5, <3>1, <3>2 DEF AskCode
    <2> QED
      BY <2>1, <2>3, <2>4, <2>5 DEF Register, Submit
  <1> QED
    BY <1>1, <1>2, <1>3, <1>4, PlainSessions

LEMMA InsertSessions ==
    ASSUME Base, SessionInv, NEW r \in Requests, NEW c \in Codes, Insert(r, c)
    PROVE  SessionInv'
  <1>1. UNCHANGED <<password, banned, sessions>> /\ req[r].at = "insert"
    BY DEF Insert, users
  <1>2. ASSUME NEW q \in Requests
        PROVE  /\ req'[q].at = "session" => req'[q] = req[q]
               /\ req[q].at = "purge" => req'[q] = req[q]
    <2>1. req'[q] = IF q = r THEN Idle
                    ELSE IF req[q].at = "insert" /\ req[q].user = req[r].user
                            /\ req[q].purpose = req[r].purpose
                         THEN [req[q] EXCEPT !.overtaken = TRUE] ELSE req[q]
      BY DEF Insert
    <2>2. req[q].at = "insert" => [req[q] EXCEPT !.overtaken = TRUE].at = "insert"
      BY Shapes, MakingMoves DEF Base, Requested
    <2> QED
      BY <1>1, <2>1, <2>2 DEF Idle
  <1>3. \A q \in Requests : \A u : req[q] = [at |-> "purge", user |-> u] => req[q].at = "purge"
    OBVIOUS
  <1> QED
    BY <1>1, <1>2, <1>3, QuietSessions

LEMMA LoginSessions ==
    ASSUME Base, SessionInv, NEW r \in Requests, NEW u,
           (u \in Users /\ Login(r, u)) \/ Verify(r)
    PROVE  SessionInv'
  <1>1. PICK v \in Users, late \in BOOLEAN :
          /\ req' = [req EXCEPT ![r] =
                        [at |-> "session", user |-> v, password |-> password[v], late |-> late]]
          /\ banned[v] => late
    <2>1. CASE u \in Users /\ Login(r, u)
      BY <2>1 DEF Login, Goto
    <2>2. CASE Verify(r)
      <3>1. code[req[r].code].user \in Users
        BY <2>2, ConsumeStep DEF Verify, Rows
      <3> QED
        BY <2>2, <3>1 DEF Verify, Goto, Base, Columns
    <2> QED
      BY <2>1, <2>2
  <1> DEFINE next == [at |-> "session", user |-> v, password |-> password[v], late |-> late]
  <1>2. /\ next.at = "session" /\ next.user = v /\ next.password = password[v]
        /\ next.late = late
    OBVIOUS
  <1> HIDE DEF next
  <1>3. \A q \in Requests : req'[q] = IF q = r THEN next ELSE req[q]
    BY <1>1 DEF next, Base, Requested
  <1>4. UNCHANGED <<password, banned, sessions>> /\ req[r].at # "purge"
    BY DEF Login, Verify, users, Idle
  <1>5. \A q \in Requests : \A x : req[q] = [at |-> "purge", user |-> x] => req'[q] = req[q]
    BY <1>3, <1>4
  <1>6. LoginsKnow'
    BY <1>1, <1>2, <1>3, <1>4 DEF SessionInv, LoginsKnow
  <1>7. SessionsFollowPassword' /\ BanEndsSessions'
    BY <1>4, <1>5 DEF SessionInv, SessionsFollowPassword, BanEndsSessions
  <1> QED
    BY <1>6, <1>7 DEF SessionInv

LEMMA ResetSessions ==
    ASSUME Base, SessionInv, NEW r \in Requests, Reset(r)
    PROVE  SessionInv'
  <1> DEFINE u == code[req[r].code].user
  <1>1. /\ req[r].at = "apply"
        /\ password' = [password EXCEPT ![u] = @ + 1]
        /\ sessions' = {s \in sessions : s.user # u}
        /\ req' = [q \in Requests |-> IF q = r THEN Idle ELSE Outdated(u, q)]
        /\ banned' = banned
    BY DEF Reset
  <1>2. \A x : x # u => password'[x] = password[x]
    BY <1>1 DEF Base, Columns
  <1>3. SessionsFollowPassword'
    BY <1>1, <1>2 DEF SessionInv, SessionsFollowPassword
  <1>4. BanEndsSessions'
    <2> SUFFICES ASSUME NEW s \in sessions', banned'[s.user], ~s.late
                 PROVE  \E q \in Requests : req'[q] = [at |-> "purge", user |-> s.user]
      BY DEF BanEndsSessions
    <2>1. PICK q \in Requests : req[q] = [at |-> "purge", user |-> s.user]
      BY <1>1 DEF SessionInv, BanEndsSessions
    <2>2. req[q].at = "purge"
      BY <2>1
    <2>3. req'[q] = req[q]
      BY <1>1, <2>2, OutdatedMarks DEF Base
    <2> QED
      BY <2>1, <2>3
  <1>5. LoginsKnow'
    <2> SUFFICES ASSUME NEW q \in Requests, req'[q].at = "session"
                 PROVE  /\ req'[q].password = password'[req'[q].user] \/ req'[q].late
                        /\ banned'[req'[q].user] => req'[q].late
      BY DEF LoginsKnow
    <2>1. q # r /\ req'[q] = Outdated(u, q)
      BY <1>1 DEF Idle
    <2>2. req[q].at = "session"
      BY <2>1, OutdatedMarks DEF Base
    <2>3. /\ req'[q].user = req[q].user /\ req'[q].password = req[q].password
          /\ req[q].late \/ req[q].user = u => req'[q].late
      BY <2>1, <2>2, OutdatedMarks DEF Base
    <2> QED
      BY <1>1, <1>2, <2>2, <2>3 DEF SessionInv, LoginsKnow
  <1> QED
    BY <1>3, <1>4, <1>5 DEF SessionInv

LEMMA CreateSessions ==
    ASSUME Base, SessionInv, NEW r \in Requests, CreateSession(r)
    PROVE  SessionInv'
  <1> DEFINE new == [user |-> req[r].user, password |-> req[r].password, late |-> req[r].late]
  <1>1. /\ new.user = req[r].user /\ new.password = req[r].password /\ new.late = req[r].late
        /\ req[r].at = "session" /\ UNCHANGED <<password, banned>>
        /\ sessions' = sessions \cup {new}
        /\ req' = [req EXCEPT ![r] = Idle]
    BY DEF CreateSession, Goto, users
  <1> HIDE DEF new
  <1>2. \A q \in Requests : req'[q] = IF q = r THEN Idle ELSE req[q]
    BY <1>1 DEF Base, Requested
  <1>3. \A q \in Requests : \A x : req[q] = [at |-> "purge", user |-> x] => req'[q] = req[q]
    BY <1>1, <1>2
  <1>4. SessionsFollowPassword'
    BY <1>1 DEF SessionInv, SessionsFollowPassword, LoginsKnow
  <1>5. BanEndsSessions'
    <2> SUFFICES ASSUME NEW s \in sessions', banned'[s.user], ~s.late
                 PROVE  \E q \in Requests : req'[q] = [at |-> "purge", user |-> s.user]
      BY DEF BanEndsSessions
    <2>1. s \in sessions /\ banned[s.user]
      BY <1>1 DEF SessionInv, LoginsKnow
    <2> QED
      BY <1>3, <2>1 DEF SessionInv, BanEndsSessions
  <1>6. LoginsKnow'
    BY <1>1, <1>2 DEF SessionInv, LoginsKnow, Idle
  <1> QED
    BY <1>4, <1>5, <1>6 DEF SessionInv

LEMMA SaveSessions ==
    ASSUME Base, SessionInv, NEW r \in Requests, Save(r)
    PROVE  SessionInv'
  <1> DEFINE u == req[r].user
  <1>1. /\ req[r].at = "save" /\ UNCHANGED <<password, sessions>>
        /\ banned' = [banned EXCEPT ![u] = req[r].ban]
        /\ req' = [q \in Requests |->
              IF q = r THEN IF req[r].ban THEN [at |-> "purge", user |-> u] ELSE Idle
              ELSE IF req[r].ban /\ req[q].at = "session" THEN Outdated(u, q) ELSE Stale(q)]
    BY DEF Save
  <1>2. u \in Users /\ req[r].ban \in BOOLEAN
    BY <1>1, Shapes DEF Base, Requested, Saving
  <1>3. \A x \in Users : banned'[x] = IF x = u THEN req[r].ban ELSE banned[x]
    BY <1>1, <1>2 DEF Base, Columns
  <1>4. SessionsFollowPassword'
    BY <1>1 DEF SessionInv, SessionsFollowPassword
  <1>5. BanEndsSessions'
    <2> SUFFICES ASSUME NEW s \in sessions', banned'[s.user], ~s.late
                 PROVE  \E q \in Requests : req'[q] = [at |-> "purge", user |-> s.user]
      BY DEF BanEndsSessions
    <2>0. s \in sessions /\ s.user \in Users
      BY <1>1 DEF Base, Columns, Sessions
    <2>1. CASE s.user = u
      BY <1>1, <1>2, <1>3, <2>1
    <2>2. CASE s.user # u
      <3>1. PICK q \in Requests : req[q] = [at |-> "purge", user |-> s.user]
        BY <1>3, <2>0, <2>2 DEF SessionInv, BanEndsSessions
      <3>2. req[q].at = "purge"
        BY <3>1
      <3>3. req'[q] = req[q]
        BY <1>1, <3>2, StaleMarks DEF Base
      <3> QED
        BY <3>1, <3>3
    <2> QED
      BY <2>1, <2>2
  <1>6. LoginsKnow'
    <2> SUFFICES ASSUME NEW q \in Requests, req'[q].at = "session"
                 PROVE  /\ req'[q].password = password'[req'[q].user] \/ req'[q].late
                        /\ banned'[req'[q].user] => req'[q].late
      BY DEF LoginsKnow
    <2>1. q # r
      BY <1>1 DEF Idle
    <2>2. req[q].at = "session"
      BY <1>1, <2>1, OutdatedMarks, StaleMarks DEF Base
    <2>3. req[q].user \in Users
      BY <2>2, Shapes DEF Base, Requested, Entering
    <2>4. CASE req[r].ban
      <3>1. req'[q] = Outdated(u, q)
        BY <1>1, <2>1, <2>2, <2>4
      <3>2. /\ req'[q].user = req[q].user /\ req'[q].password = req[q].password
            /\ req[q].late \/ req[q].user = u => req'[q].late
        BY <2>2, <3>1, OutdatedMarks DEF Base
      <3> QED
        BY <1>1, <1>3, <2>2, <2>3, <3>2 DEF SessionInv, LoginsKnow
    <2>5. CASE ~req[r].ban
      <3>1. req'[q] = req[q]
        BY <1>1, <2>1, <2>2, <2>5, StaleMarks DEF Base
      <3> QED
        BY <1>1, <1>3, <2>2, <2>3, <2>5, <3>1 DEF SessionInv, LoginsKnow
    <2> QED
      BY <2>4, <2>5
  <1> QED
    BY <1>4, <1>5, <1>6 DEF SessionInv

LEMMA PurgeSessions ==
    ASSUME Base, SessionInv, NEW r \in Requests, Purge(r)
    PROVE  SessionInv'
  <1>1. /\ sessions' = {s \in sessions : s.user # req[r].user}
        /\ req' = [req EXCEPT ![r] = Idle] /\ UNCHANGED <<password, banned>>
    BY DEF Purge, Goto, users
  <1>2. \A q \in Requests : req'[q] = IF q = r THEN Idle ELSE req[q]
    BY <1>1 DEF Base, Requested
  <1>3. \A x : req[r] = [at |-> "purge", user |-> x] => req[r].user = x
    OBVIOUS
  <1> QED
    BY <1>1, <1>2, <1>3, QuietSessions DEF Idle

LEMMA DeleteSessions ==
    ASSUME Base, SessionInv, NEW r \in Requests, Delete(r)
    PROVE  SessionInv'
  <1> DEFINE u == req[r].user
  <1>1. /\ banned' = [banned EXCEPT ![u] = FALSE]
        /\ password' = [password EXCEPT ![u] = 0]
        /\ sessions' = {s \in sessions : s.user # u}
        /\ req' = [q \in Requests |->
              IF "user" \in DOMAIN req[q] /\ req[q].user = u THEN Idle ELSE Stale(q)]
    BY DEF Delete
  <1>2. \A x : x # u => password'[x] = password[x] /\ banned'[x] = banned[x]
    BY <1>1 DEF Base, Columns
  <1>3. ASSUME NEW q \in Requests, NEW x, x # u, req[q] = [at |-> "purge", user |-> x]
        PROVE  req'[q] = req[q]
    <2>1. req[q].at = "purge" /\ req[q].user = x
      BY <1>3
    <2> QED
      BY <1>1, <1>3, <2>1, StaleMarks DEF Base
  <1>4. ASSUME NEW q \in Requests, req'[q].at = "session"
        PROVE  req'[q] = req[q] /\ req[q].user # u
    <2>1. req'[q] = Stale(q) /\ ~("user" \in DOMAIN req[q] /\ req[q].user = u)
      BY <1>1, <1>4 DEF Idle
    <2>2. req[q].at = "session"
      BY <1>4, <2>1, StaleMarks DEF Base
    <2>3. "user" \in DOMAIN req[q]
      BY <2>2, Shapes DEF Base, Requested, Entering
    <2> QED
      BY <2>1, <2>2, <2>3, StaleMarks DEF Base
  <1> QED
    BY <1>1, <1>2, <1>3, <1>4, QuietSessions

LEMMA DieSessions ==
    ASSUME Base, SessionInv, NEW r \in Requests, Die(r)
    PROVE  SessionInv'
  <1> DEFINE u == req[r].user
             Marked(s) == [s EXCEPT !.late = s.late \/ s.user = u]
  <1>1. /\ sessions' = IF req[r].at = "purge" THEN {Marked(s) : s \in sessions} ELSE sessions
        /\ req' = [req EXCEPT ![r] = Idle] /\ UNCHANGED <<password, banned>>
    BY DEF Die, Goto, users
  <1>2. \A s \in sessions : /\ Marked(s).user = s.user /\ Marked(s).password = s.password
                            /\ s.late \/ s.user = u => Marked(s).late
    BY LateSessions
  <1> HIDE DEF Marked
  <1>3. \A q \in Requests : req'[q] = IF q = r THEN Idle ELSE req[q]
    BY <1>1 DEF Base, Requested
  <1>4. LoginsKnow'
    BY <1>1, <1>3 DEF SessionInv, LoginsKnow, Idle
  <1>5. ASSUME NEW s \in sessions'
        PROVE  \E old \in sessions :
                  /\ s.user = old.user /\ s.password = old.password
                  /\ old.late => s.late
                  /\ req[r] = [at |-> "purge", user |-> s.user] => s.late
    <2>1. CASE req[r].at = "purge"
      <3>1. PICK old \in sessions : s = Marked(old)
        BY <1>1, <2>1
      <3>2. req[r] = [at |-> "purge", user |-> s.user] => u = s.user
        OBVIOUS
      <3> QED
        BY <1>2, <3>1, <3>2
    <2>2. CASE req[r].at # "purge"
      BY <1>1, <2>2
    <2> QED
      BY <2>1, <2>2
  <1>6. SessionsFollowPassword'
    <2> SUFFICES ASSUME NEW s \in sessions'
                 PROVE  s.password = password'[s.user] \/ s.late
      BY DEF SessionsFollowPassword
    <2>1. PICK old \in sessions : /\ s.user = old.user /\ s.password = old.password
                                  /\ old.late => s.late
      BY <1>5
    <2> QED
      BY <1>1, <2>1 DEF SessionInv, SessionsFollowPassword
  <1>7. BanEndsSessions'
    <2> SUFFICES ASSUME NEW s \in sessions', banned'[s.user], ~s.late
                 PROVE  \E q \in Requests : req'[q] = [at |-> "purge", user |-> s.user]
      BY DEF BanEndsSessions
    <2>1. PICK old \in sessions :
            /\ s.user = old.user /\ ~old.late
            /\ req[r] # [at |-> "purge", user |-> s.user]
      BY <1>5
    <2>2. PICK q \in Requests : req[q] = [at |-> "purge", user |-> s.user]
      BY <1>1, <2>1 DEF SessionInv, BanEndsSessions
    <2> QED
      BY <1>3, <2>1, <2>2
  <1> QED
    BY <1>4, <1>6, <1>7 DEF SessionInv

LEMMA SessionsInductive == Base /\ SessionInv /\ [Next]_vars => SessionInv'
  <1> SUFFICES ASSUME Base, SessionInv, [Next]_vars PROVE SessionInv'
    OBVIOUS
  <1>1. ASSUME UNCHANGED <<password, banned, req>>, sessions' \subseteq sessions
        PROVE  SessionInv'
    BY <1>1, QuietSessions
  <1>2. CASE UNCHANGED vars
    BY <1>1, <1>2 DEF vars, users
  <1>3. ASSUME NEW c \in Codes, NEW r, Age(c) \/ Guess(r, c) PROVE SessionInv'
    BY <1>1, <1>3, CodeBase DEF users
  <1>4. ASSUME NEW r \in Requests, NEW a, NEW u \in Users, NEW newRole, NEW ban,
               Edit(r, a, u, newRole, ban) \/ AskDelete(r, a, u)
        PROVE  SessionInv'
    <2> DEFINE save == [at |-> "save", user |-> u, role |-> newRole, ban |-> ban, stale |-> FALSE]
               delete == [at |-> "delete", user |-> u, stale |-> FALSE]
    <2>1. save.at # "session" /\ delete.at # "session"
      OBVIOUS
    <2>2. Goto(r, save) \/ Goto(r, delete)
      BY <1>4 DEF Edit, AskDelete
    <2>3. UNCHANGED <<password, banned, sessions>> /\ req[r].at = "idle"
      BY <1>4 DEF Edit, AskDelete, users, Idle
    <2> HIDE DEF save, delete
    <2> QED
      BY <2>1, <2>2, <2>3, PlainSessions
  <1>5. ASSUME NEW r \in Requests, Begin(r) PROVE SessionInv'
    BY <1>3, <1>4, <1>5, CodeSessions, LoginSessions DEF Begin, Purposes
  <1>6. ASSUME NEW r \in Requests, Continue(r) PROVE SessionInv'
    BY <1>6, CodeSessions, LoginSessions, ResetSessions, CreateSessions, SaveSessions,
       PurgeSessions, DeleteSessions, DieSessions, InsertSessions DEF Continue
  <1>7. ASSUME NEW s \in sessions, Logout(s) PROVE SessionInv'
    BY <1>1, <1>7 DEF Logout, users
  <1> QED
    BY <1>2, <1>3, <1>5, <1>6, <1>7 DEF Next

LEMMA SessionsInitially == Init => SessionInv
  <1> SUFFICES ASSUME Init PROVE SessionInv
    OBVIOUS
  <1>1. \A s \in sessions : s.user \in Users /\ s.password = 0
    BY DEF Init
  <1> QED
    BY <1>1 DEF Init, SessionInv, SessionsFollowPassword, BanEndsSessions, LoginsKnow, Idle

LEMMA SessionInvariance == Spec => []SessionInv
  <1> HIDE DEF Base, SessionInv
  <1> QED
    BY SessionsInitially, SessionsInductive, Invariance, PTL DEF Spec

\* A password change ends every session made with the old password, except one
\* whose login had already checked it.
THEOREM PasswordsRule == Spec => []SessionsFollowPassword
  <1>1. SessionInv => SessionsFollowPassword
    BY DEF SessionInv
  <1> HIDE DEF SessionInv, SessionsFollowPassword
  <1> QED
    BY <1>1, SessionInvariance, PTL

\* A ban ends every session, except one that was being made, or whose end died.
THEOREM BansRule == Spec => []BanEndsSessions
  <1>1. SessionInv => BanEndsSessions
    BY DEF SessionInv
  <1> HIDE DEF SessionInv, BanEndsSessions
  <1> QED
    BY <1>1, SessionInvariance, PTL

-----------------------------------------------------------------------------
(* Administrators *)

\* What a staff request has counted is still so, unless it is marked stale.
Counted(r) ==
    /\ req[r].at \in {"save", "delete"} => req[r].user \in Users /\ account[req[r].user] # "none"
    /\ req[r].at = "save" /\ ~req[r].stale =>
          (req[r].role = "ADMIN" /\ ~req[r].ban) \/ NotTheLast(req[r].user)
    /\ req[r].at = "delete" /\ ~req[r].stale => NotTheLast(req[r].user)

\* An account that is not there has no role to lose.
AdminInv ==
    /\ AdminRemains
    /\ \A u \in Users : account[u] = "none" => role[u] = "USER"
    /\ \A r \in Requests : Counted(r)

\* A step that changes no role, no ban of an administrator, and deletes nobody.
LEMMA QuietAdmins ==
    ASSUME AdminInv, UNCHANGED <<role, raced>>, ActiveAdmins' = ActiveAdmins,
           \A u \in Users : account'[u] = "none" => account[u] = "none",
           \A r \in Requests :
               req'[r] = req[r] \/ req'[r].at \notin {"save", "delete"} \/ Counted(r)'
    PROVE  AdminInv'
  <1>1. AdminRemains' /\ \A u \in Users : account'[u] = "none" => role'[u] = "USER"
    BY DEF AdminInv, AdminRemains
  <1>2. ASSUME NEW r \in Requests
        PROVE  Counted(r)'
    <2>1. CASE req'[r] = req[r]
      BY <2>1 DEF AdminInv, Counted, NotTheLast
    <2>2. CASE req'[r].at \notin {"save", "delete"}
      BY <2>2 DEF Counted
    <2>3. CASE Counted(r)'
      BY <2>3
    <2> QED
      BY <2>1, <2>2, <2>3
  <1> QED
    BY <1>1, <1>2 DEF AdminInv

\* Requests of customers, and those that end sessions, leave the administrators alone.
LEMMA CustomerAdmins ==
    ASSUME Base, AdminInv, NEW r \in Requests,
           \/ \E u \in Users : Login(r, u) \/ \E p \in Purposes : AskCode(r, u, p)
           \/ \E c \in Codes : Submit(r, c) \/ Guess(r, c) \/ Insert(r, c)
           \/ Wake(r) \/ Replace(r) \/ CreateSession(r) \/ Purge(r) \/ Die(r)
    PROVE  AdminInv'
  <1>1. UNCHANGED users /\ UNCHANGED raced
    BY DEF Login, AskCode, Submit, Guess, Insert, Wake, Replace, CreateSession, Purge, Die
  <1>2. \A q \in Requests : req'[q] = req[q] \/ req'[q].at \notin {"save", "delete"}
    <2>1. CASE \E c \in Codes : Insert(r, c)
      BY <2>1 DEF Insert, Idle, Base, Requested
    <2>2. CASE Replace(r)
      BY <2>2 DEF Replace, Goto, Base, Requested
    <2>3. ASSUME NEW u \in Users, NEW p \in Purposes, AskCode(r, u, p)
          PROVE  \A q \in Requests : req'[q] = req[q] \/ req'[q].at \notin {"save", "delete"}
      <3>1. CASE Unconsumed(u, p) = {} /\ Goto(r, Replacing(u, p))
        BY <3>1 DEF Goto, Replacing, Base, Requested
      <3>2. ASSUME NEW c \in Codes, LockRecent(r, u, p, c)
            PROVE  \A q \in Requests : req'[q] = req[q] \/ req'[q].at \notin {"save", "delete"}
        BY <3>2 DEF LockRecent, Goto, Replacing, Idle, Base, Requested
      <3>3. ASSUME NEW c \in Codes,
                   Goto(r, [at |-> "wait", user |-> u, purpose |-> p, code |-> c])
            PROVE  \A q \in Requests : req'[q] = req[q] \/ req'[q].at \notin {"save", "delete"}
        BY <3>3 DEF Goto, Base, Requested
      <3> QED
        BY <2>3, <3>1, <3>2, <3>3 DEF AskCode, Unconsumed, Unused
    <2>4. CASE Wake(r)
      BY <2>4 DEF Wake, LockRecent, Goto, Replacing, Idle, Base, Requested
    <2>5. CASE \E u \in Users : Login(r, u)
      BY <2>5 DEF Login, Goto, Base, Requested
    <2>7. ASSUME NEW c \in Codes, Submit(r, c) \/ Guess(r, c)
          PROVE  \A q \in Requests : req'[q] = req[q] \/ req'[q].at \notin {"save", "delete"}
      <3>1. CASE Submit(r, c)
        BY <3>1 DEF Submit, Goto, Base, Requested
      <3>2. CASE Guess(r, c)
        BY <3>2 DEF Guess
      <3> QED
        BY <2>7, <3>1, <3>2
    <2>6. CASE CreateSession(r) \/ Purge(r) \/ Die(r)
      BY <2>6 DEF CreateSession, Purge, Die, Goto, Idle, Base, Requested
    <2> QED
      BY <2>1, <2>2, <2>3, <2>4, <2>5, <2>6, <2>7
  <1>3. ActiveAdmins' = ActiveAdmins /\ UNCHANGED <<role, account>>
    BY <1>1 DEF ActiveAdmins, users
  <1> QED
    BY <1>1, <1>2, <1>3, QuietAdmins

LEMMA EnrolAdmins ==
    ASSUME Base, AdminInv, NEW r \in Requests,
           (\E u \in Users : Register(r, u)) \/ Verify(r) \/ Reset(r)
    PROVE  AdminInv'
  <1>1. CASE \E u \in Users : Register(r, u)
    <2>1. PICK u \in Users : Register(r, u)
      BY <1>1
    <2>2. role' = role /\ raced' = raced
      BY <2>1 DEF Register, AdminInv, Base, Columns
    <2>3. ActiveAdmins' = ActiveAdmins
      BY <2>1, <2>2 DEF Register, ActiveAdmins, AdminInv, Base, Columns
    <2>4. \A v \in Users : account'[v] = "none" => account[v] = "none"
      BY <2>1 DEF Register, Base, Columns
    <2>5. \A q \in Requests : req'[q] = req[q] \/ req'[q].at \notin {"save", "delete"}
      BY <2>1 DEF Register, Goto, Replacing, Base, Requested
    <2> QED
      BY <2>2, <2>3, <2>4, <2>5, QuietAdmins
  <1>2. CASE Verify(r) \/ Reset(r)
    <2>1. /\ UNCHANGED <<role, banned, raced>>
          /\ account' = account \/ account' = [account EXCEPT ![code[req[r].code].user] = "verified"]
      <3>1. CASE Verify(r)
        BY <3>1 DEF Verify
      <3>2. CASE Reset(r)
        BY <3>2 DEF Reset
      <3> QED
        BY <1>2, <3>1, <3>2
    <2>2. ActiveAdmins' = ActiveAdmins
      BY <2>1 DEF ActiveAdmins
    <2>3. \A v \in Users : account'[v] = "none" => account[v] = "none"
      BY <2>1 DEF Base, Columns
    <2>4. \A q \in Requests : req'[q] = req[q] \/ req'[q].at \notin {"save", "delete"}
      <3>1. CASE Verify(r)
        BY <3>1 DEF Verify, Goto, Base, Requested
      <3>2. CASE Reset(r)
        BY <3>2, OutdatedMarks DEF Reset, Idle, Base
      <3> QED
        BY <1>2, <3>1, <3>2
    <2> QED
      BY <2>1, <2>2, <2>3, <2>4, QuietAdmins
  <1> QED
    BY <1>1, <1>2

\* What a staff request found out before it writes.
LEMMA StaffCounts ==
    ASSUME Base, AdminInv, NEW r \in Requests, NEW a \in Users, NEW u \in Users,
           NEW newRole \in {"ADMIN", "USER"}, NEW ban \in BOOLEAN,
           Edit(r, a, u, newRole, ban) \/ AskDelete(r, a, u)
    PROVE  AdminInv'
  <1>1. UNCHANGED users /\ UNCHANGED raced
    BY DEF Edit, AskDelete
  <1>2. ActiveAdmins' = ActiveAdmins /\ UNCHANGED <<role, account>>
    BY <1>1 DEF ActiveAdmins, users
  <1>3. \A q \in Requests \ {r} : req'[q] = req[q]
    BY DEF Edit, AskDelete, Goto, Base, Requested
  <1>4. Counted(r)'
    <2>1. CASE Edit(r, a, u, newRole, ban)
      <3> DEFINE next == [at |-> "save", user |-> u, role |-> newRole, ban |-> ban,
                          stale |-> FALSE]
      <3>1. req'[r] = next
        BY <2>1 DEF Edit, Goto, Base, Requested
      <3>2. /\ next.at = "save" /\ next.user = u
            /\ next.role = newRole /\ next.ban = ban
        OBVIOUS
      <3>3. account[u] # "none" /\ (newRole # "ADMIN" \/ ban => NotTheLast(u))
        BY <2>1 DEF Edit
      <3> HIDE DEF next
      <3> QED
        BY <1>2, <3>1, <3>2, <3>3 DEF Counted, NotTheLast
    <2>2. CASE AskDelete(r, a, u)
      <3> DEFINE next == [at |-> "delete", user |-> u, stale |-> FALSE]
      <3>1. req'[r] = next
        BY <2>2 DEF AskDelete, Goto, Base, Requested
      <3>2. next.at = "delete" /\ next.user = u
        OBVIOUS
      <3>3. account[u] # "none" /\ NotTheLast(u)
        BY <2>2 DEF AskDelete
      <3> HIDE DEF next
      <3> QED
        BY <1>2, <3>1, <3>2, <3>3 DEF Counted, NotTheLast
    <2> QED
      BY <2>1, <2>2
  <1> QED
    BY <1>1, <1>2, <1>3, <1>4, QuietAdmins

\* Of two active administrators one is not u.
LEMMA SomeoneElse ==
    ASSUME NEW u, NotTheLast(u), ActiveAdmins # {}
    PROVE  \E v \in ActiveAdmins : v # u
  <1>1. CASE role[u] = "ADMIN"
    BY <1>1 DEF NotTheLast
  <1>2. CASE role[u] # "ADMIN"
    BY <1>2 DEF ActiveAdmins
  <1> QED
    BY <1>1, <1>2

LEMMA SaveAdmins ==
    ASSUME Base, AdminInv, NEW r \in Requests, Save(r)
    PROVE  AdminInv'
  <1> DEFINE u == req[r].user
  <1>1. u \in Users /\ account[u] # "none"
    BY DEF Save, AdminInv, Counted
  <1>2. /\ account' = account /\ raced' = (raced \/ req[r].stale)
        /\ \A v \in Users : role'[v] = (IF v = u THEN req[r].role ELSE role[v])
        /\ \A v \in Users : banned'[v] = (IF v = u THEN req[r].ban ELSE banned[v])
    BY DEF Save, Base, Columns
  <1>3. AdminRemains'
    <2>1. CASE raced \/ req[r].stale
      BY <1>2, <2>1 DEF AdminRemains
    <2>2. CASE req[r].role = "ADMIN" /\ ~req[r].ban
      <3>1. u \in ActiveAdmins'
        BY <1>1, <1>2, <2>2 DEF ActiveAdmins
      <3> QED
        BY <3>1 DEF AdminRemains
    <2>3. CASE ~raced /\ NotTheLast(u)
      <3>1. PICK v \in ActiveAdmins : v # u
        BY <2>3, SomeoneElse DEF AdminInv, AdminRemains
      <3>2. v \in ActiveAdmins'
        BY <1>2, <3>1 DEF ActiveAdmins
      <3> QED
        BY <3>2 DEF AdminRemains
    <2>4. req[r].stale \/ (req[r].role = "ADMIN" /\ ~req[r].ban) \/ NotTheLast(u)
      BY DEF Save, AdminInv, Counted
    <2> QED
      BY <2>1, <2>2, <2>3, <2>4
  <1>4. \A v \in Users : account'[v] = "none" => role'[v] = "USER"
    BY <1>1, <1>2 DEF AdminInv
  <1>5. ASSUME NEW q \in Requests
        PROVE  Counted(q)'
    <2>1. CASE q = r
      BY <2>1 DEF Save, Idle, Counted
    <2>2. CASE q # r
      <3>1. \/ req'[q] = Stale(q)
            \/ req[q].at = "session" /\ req'[q] = Outdated(u, q)
        BY <2>2 DEF Save
      <3>2. req'[q].at = req[q].at
        BY <3>1, StaleMarks, OutdatedMarks DEF Base
      <3>3. req[q].at \in {"save", "delete"} => req'[q].stale /\ req'[q].user = req[q].user
        BY <3>1, StaleMarks DEF Base
      <3> QED
        BY <1>2, <3>2, <3>3 DEF Counted, AdminInv
    <2> QED
      BY <2>1, <2>2
  <1> QED
    BY <1>3, <1>4, <1>5 DEF AdminInv

LEMMA DeleteAdmins ==
    ASSUME Base, AdminInv, NEW r \in Requests, Delete(r)
    PROVE  AdminInv'
  <1> DEFINE u == req[r].user
  <1>1. u \in Users
    BY DEF Delete, AdminInv, Counted
  <1>2. /\ raced' = (raced \/ req[r].stale)
        /\ \A v \in Users : account'[v] = (IF v = u THEN "none" ELSE account[v])
        /\ \A v \in Users : role'[v] = (IF v = u THEN "USER" ELSE role[v])
        /\ \A v \in Users : banned'[v] = (IF v = u THEN FALSE ELSE banned[v])
    BY DEF Delete, Base, Columns
  <1>3. AdminRemains'
    <2>1. CASE raced \/ req[r].stale
      BY <1>2, <2>1 DEF AdminRemains
    <2>2. CASE ~raced /\ NotTheLast(u)
      <3>1. PICK v \in ActiveAdmins : v # u
        BY <2>2, SomeoneElse DEF AdminInv, AdminRemains
      <3>2. v \in ActiveAdmins'
        BY <1>2, <3>1 DEF ActiveAdmins
      <3> QED
        BY <3>2 DEF AdminRemains
    <2>3. req[r].stale \/ NotTheLast(u)
      BY DEF Delete, AdminInv, Counted
    <2> QED
      BY <2>1, <2>2, <2>3
  <1>4. \A v \in Users : account'[v] = "none" => role'[v] = "USER"
    BY <1>2 DEF AdminInv
  <1>5. ASSUME NEW q \in Requests
        PROVE  Counted(q)'
    <2>1. CASE req[q].at \notin {"save", "delete"}
      <3>1. req'[q].at \notin {"save", "delete"}
        BY <2>1, StaleMarks DEF Delete, Idle, Base
      <3> QED
        BY <3>1 DEF Counted
    <2>2. CASE req[q].at \in {"save", "delete"} /\ req[q].user = u
      <3>1. req[q] \in Saving \/ req[q] \in Deleting
        BY <2>2, Shapes DEF Base, Requested
      <3>2. "user" \in DOMAIN req[q]
        BY <3>1 DEF Saving, Deleting
      <3>3. req'[q] = Idle
        BY <2>2, <3>2 DEF Delete
      <3> QED
        BY <3>3 DEF Idle, Counted
    <2>3. CASE req[q].at \in {"save", "delete"} /\ req[q].user # u
      <3>1. req'[q] = Stale(q)
        BY <2>3 DEF Delete
      <3>2. req'[q].at = req[q].at /\ req'[q].stale /\ req'[q].user = req[q].user
        BY <2>3, <3>1, StaleMarks DEF Base
      <3> QED
        BY <1>2, <2>3, <3>2 DEF Counted, AdminInv
    <2> QED
      BY <2>1, <2>2, <2>3
  <1> QED
    BY <1>3, <1>4, <1>5 DEF AdminInv

LEMMA AdminsInductive == Base /\ AdminInv /\ [Next]_vars => AdminInv'
  <1> SUFFICES ASSUME Base, AdminInv, [Next]_vars PROVE AdminInv'
    OBVIOUS
  <1>1. CASE UNCHANGED vars \/ (\E c \in Codes : Age(c)) \/ (\E s \in sessions : Logout(s))
    <2>1. UNCHANGED users /\ UNCHANGED <<raced, req>>
      BY <1>1 DEF vars, Age, Logout
    <2>2. ActiveAdmins' = ActiveAdmins /\ UNCHANGED <<role, account>>
      BY <2>1 DEF ActiveAdmins, users
    <2> QED
      BY <2>1, <2>2, QuietAdmins
  <1>2. ASSUME NEW r \in Requests, Begin(r) \/ Continue(r)
        PROVE  AdminInv'
    <2>1. CASE Save(r)
      BY <2>1, SaveAdmins
    <2>2. CASE Delete(r)
      BY <2>2, DeleteAdmins
    <2>3. CASE (\E u \in Users : Register(r, u)) \/ Verify(r) \/ Reset(r)
      BY <2>3, EnrolAdmins
    <2>4. CASE \E a, u \in Users : AskDelete(r, a, u)
      BY <2>4, StaffCounts
    <2>5. CASE \E a, u \in Users, newRole \in {"ADMIN", "USER"}, ban \in BOOLEAN :
                    Edit(r, a, u, newRole, ban)
      BY <2>5, StaffCounts
    <2>6. CASE \/ \E u \in Users : Login(r, u) \/ \E p \in Purposes : AskCode(r, u, p)
               \/ \E c \in Codes : Submit(r, c) \/ Guess(r, c) \/ Insert(r, c)
               \/ Wake(r) \/ Replace(r) \/ CreateSession(r) \/ Purge(r) \/ Die(r)
      BY <2>6, CustomerAdmins
    <2> QED
      BY <1>2, <2>1, <2>2, <2>3, <2>4, <2>5, <2>6 DEF Begin, Continue
  <1> QED
    BY <1>1, <1>2 DEF Next

LEMMA AdminsInitially == Init => AdminInv
  BY DEF Init, AdminInv, AdminRemains, ActiveAdmins, Counted, Idle

\* As long as no staff write rested on a count that another one had outdated, an
\* administrator who is not banned remains, through demotion, ban and deletion.
THEOREM AdminsRemain == Spec => []AdminRemains
  <1>1. AdminInv => AdminRemains
    BY DEF AdminInv
  <1>2. Spec => []AdminInv
    <2> HIDE DEF Base, AdminInv
    <2> QED
      BY Invariance, AdminsInitially, AdminsInductive, PTL DEF Spec
  <1> HIDE DEF AdminInv, AdminRemains
  <1> QED
    BY <1>1, <1>2, PTL

-----------------------------------------------------------------------------
(* Replaced codes *)

\* Whoever has replaced the rows of a user, and was not overtaken since, holds those
\* that are left.
Covers ==
    \A r \in Requests : req[r].at = "insert" /\ ~req[r].overtaken =>
        \A c \in Unconsumed(req[r].user, req[r].purpose) : lock[c] = r

\* A step of r, or of nobody, that leaves the locks and the replacements of the others.
LEMMA CoversKept ==
    ASSUME Covers, NEW r,
           r \in Requests => req'[r].at # "insert",
           \A q \in Requests \ {r} :
               req'[q].at = "insert" /\ ~req'[q].overtaken => req'[q] = req[q],
           \A c \in Codes : lock[c] \in Requests \ {r} => lock'[c] = lock[c],
           \A c \in Codes : code'[c] # Consumed =>
               \/ /\ code[c] # Consumed
                  /\ code'[c].user = code[c].user /\ code'[c].purpose = code[c].purpose
               \/ \A q \in Requests \ {r} : req'[q].at = "insert" /\ ~req'[q].overtaken =>
                     ~(code'[c].user = req[q].user /\ code'[c].purpose = req[q].purpose)
    PROVE  Covers'
  <1> SUFFICES ASSUME NEW q \in Requests, req'[q].at = "insert", ~req'[q].overtaken,
                      NEW c \in Codes, code'[c] # Consumed, code'[c].user = req'[q].user,
                      code'[c].purpose = req'[q].purpose
               PROVE  lock'[c] = q
    BY DEF Covers, Unconsumed, Unused
  <1>1. q # r /\ req'[q] = req[q]
    OBVIOUS
  <1>2. c \in Unconsumed(req[q].user, req[q].purpose)
    BY <1>1 DEF Unconsumed, Unused
  <1>3. lock[c] = q
    BY <1>1, <1>2 DEF Covers
  <1> QED
    BY <1>1, <1>3

\* Asking for a code ends, waits or goes on to replace, with at most one free row locked.
LEMMA AskingMoves ==
    ASSUME Base, NEW r \in Requests,
           Wake(r) \/ \E u \in Users, p \in Purposes : AskCode(r, u, p)
    PROVE  /\ \A q \in Requests \ {r} : req'[q] = req[q]
           /\ req'[r].at # "insert"
           /\ \A c \in Codes : lock[c] \in Requests \ {r} => lock'[c] = lock[c]
           /\ UNCHANGED code
  <1>1. ASSUME NEW u, NEW p, NEW c \in Codes, lock[c] = None, LockRecent(r, u, p, c)
        PROVE  /\ \A q \in Requests \ {r} : req'[q] = req[q]
               /\ req'[r].at # "insert"
               /\ \A k \in Codes : lock[k] \in Requests \ {r} => lock'[k] = lock[k]
    BY <1>1, NullAssumption
       DEF LockRecent, Goto, Holds, Replacing, Idle, Base, Columns, Requested
  <1>2. ASSUME NEW u, NEW p, Goto(r, Replacing(u, p))
        PROVE  (\A q \in Requests \ {r} : req'[q] = req[q]) /\ req'[r].at # "insert"
    BY <1>2 DEF Goto, Replacing, Base, Requested
  <1>3. CASE Wake(r)
    <2> DEFINE u == req[r].user
               p == req[r].purpose
               c == req[r].code
    <2>1. c \in Codes /\ lock[c] = None
      BY <1>3, Shapes DEF Wake, Base, Requested, Waiting
    <2>2. LockRecent(r, u, p, c) \/ (Goto(r, Replacing(u, p)) /\ UNCHANGED lock)
      BY <1>3 DEF Wake
    <2>3. UNCHANGED code
      BY <1>3 DEF Wake, codes
    <2> HIDE DEF u, p, c
    <2> QED
      BY <1>1, <1>2, <2>1, <2>2, <2>3
  <1>4. ASSUME NEW u \in Users, NEW p \in Purposes, AskCode(r, u, p)
        PROVE  /\ \A q \in Requests \ {r} : req'[q] = req[q]
               /\ req'[r].at # "insert"
               /\ \A k \in Codes : lock[k] \in Requests \ {r} => lock'[k] = lock[k]
               /\ UNCHANGED code
    <2>1. UNCHANGED code
      BY <1>4 DEF AskCode, codes
    <2>2. CASE Goto(r, Replacing(u, p)) /\ UNCHANGED lock
      BY <1>2, <2>1, <2>2
    <2>3. ASSUME NEW c \in Unconsumed(u, p), lock[c] = None, LockRecent(r, u, p, c)
          PROVE  /\ \A q \in Requests \ {r} : req'[q] = req[q]
                 /\ req'[r].at # "insert"
                 /\ \A k \in Codes : lock[k] \in Requests \ {r} => lock'[k] = lock[k]
      BY <1>1, <2>3 DEF Unconsumed, Unused
    <2>4. ASSUME NEW c \in Codes, UNCHANGED lock,
                 Goto(r, [at |-> "wait", user |-> u, purpose |-> p, code |-> c])
          PROVE  (\A q \in Requests \ {r} : req'[q] = req[q]) /\ req'[r].at # "insert"
      BY <2>4 DEF Goto, Base, Requested
    <2> QED
      BY <1>4, <2>1, <2>2, <2>3, <2>4 DEF AskCode, Unconsumed, Unused
  <1> QED
    BY <1>3, <1>4

LEMMA AskCovers ==
    ASSUME Base, Covers, NEW r \in Requests,
           Wake(r) \/ \E u \in Users, p \in Purposes : AskCode(r, u, p)
    PROVE  Covers'
  <1>1. code' = code
    BY AskingMoves
  <1>2. /\ \A q \in Requests \ {r} : req'[q] = req[q]
        /\ req'[r].at # "insert"
        /\ \A c \in Codes : lock[c] \in Requests \ {r} => lock'[c] = lock[c]
    BY AskingMoves
  <1> QED
    BY <1>1, <1>2, CoversKept

LEMMA ReplaceCovers ==
    ASSUME Base, Covers, NEW r \in Requests, Replace(r)
    PROVE  Covers'
  <1> DEFINE old == Unconsumed(req[r].user, req[r].purpose)
             next == [req[r] EXCEPT !.at = "insert"]
  <1>1. /\ UNCHANGED code /\ Holds(r, old) /\ \A c \in old : lock[c] \in {r, None}
        /\ req' = [req EXCEPT ![r] = next]
    BY DEF Replace, codes, Goto
  <1>2. req[r] \in Making
    BY Shapes DEF Replace, Base, Requested
  <1>3. next.user = req[r].user /\ next.purpose = req[r].purpose
    BY <1>2, MakingMoves
  <1>4. \A q \in Requests : req'[q] = IF q = r THEN next ELSE req[q]
    BY <1>1 DEF Base, Requested
  <1>5. old \in SUBSET Codes
    BY DEF Unconsumed, Unused
  <1>6. /\ \A c \in Codes : lock'[c] = IF c \in old THEN r ELSE lock[c]
        /\ \A c \in Codes : lock[c] \in Requests \ {r} => lock'[c] = lock[c]
    BY <1>1, <1>5, HoldsLocks DEF Base
  <1>7. \A u, p : Unconsumed(u, p)' = Unconsumed(u, p)
    BY <1>1 DEF Unconsumed, Unused
  <1> HIDE DEF next
  <1>8. ASSUME NEW q \in Requests, req'[q].at = "insert", ~req'[q].overtaken,
               NEW c \in Unconsumed(req'[q].user, req'[q].purpose)
        PROVE  lock'[c] = q
    <2>1. CASE q = r
      BY <1>3, <1>4, <1>5, <1>6, <1>8, <2>1
    <2>2. CASE q # r
      BY <1>4, <1>6, <1>8, <2>2 DEF Covers, Unconsumed, Unused
    <2> QED
      BY <2>1, <2>2
  <1>9. \A q \in Requests : req'[q].at = "insert" /\ ~req'[q].overtaken =>
            \A c \in Codes : code'[c] # Consumed /\ code'[c].user = req'[q].user
                               /\ code'[c].purpose = req'[q].purpose => lock'[c] = q
    BY <1>1, <1>8 DEF Unconsumed, Unused
  <1> QED
    BY <1>9 DEF Covers, Unconsumed, Unused

LEMMA InsertCovers ==
    ASSUME Base, Covers, NEW r \in Requests, NEW c \in Codes, Insert(r, c)
    PROVE  /\ Covers'
           /\ ~req[r].overtaken =>
                {k \in Codes : code'[k] # Consumed /\ code'[k].user = req[r].user
                                 /\ code'[k].purpose = req[r].purpose} = {c}
  <1> DEFINE u == req[r].user
             p == req[r].purpose
             old == {k \in Codes : lock[k] = r}
  <1>1. PICK sent \in BOOLEAN :
          code' = [k \in Codes |->
                    IF k = c THEN [age |-> "fresh", user |-> u, purpose |-> p,
                                   attempts |-> 0, sent |-> sent]
                    ELSE IF k \in old THEN Consumed ELSE code[k]]
    BY DEF Insert
  <1> DEFINE new == [age |-> "fresh", user |-> u, purpose |-> p, attempts |-> 0, sent |-> sent]
  <1>2. req[r] \in Making /\ u \in Users /\ p \in Purposes /\ req[r].at = "insert"
    BY Shapes DEF Insert, Base, Requested, Making
  <1>3. new # Consumed /\ new.user = u /\ new.purpose = p
    <2>1. new \in Rows
      BY <1>2, LimitAssumption DEF Rows
    <2> QED
      BY <2>1, RowMoves
  <1> HIDE DEF new
  <1>4. \A k \in Codes :
          code'[k] = IF k = c THEN new ELSE IF lock[k] = r THEN Consumed ELSE code[k]
    BY <1>1 DEF new
  <1>5. \A k \in Codes : lock'[k] = IF lock[k] = r THEN None ELSE lock[k]
    BY UnlockedLocks DEF Insert, Base
  <1>6. /\ req'[r] = Idle
        /\ \A q \in Requests \ {r} :
              req'[q] = IF req[q].at = "insert" /\ req[q].user = u /\ req[q].purpose = p
                        THEN [req[q] EXCEPT !.overtaken = TRUE] ELSE req[q]
    BY DEF Insert
  <1>7. ASSUME NEW q \in Requests \ {r}, req'[q].at = "insert", ~req'[q].overtaken
        PROVE  req'[q] = req[q] /\ ~(req[q].user = u /\ req[q].purpose = p)
    <2>1. CASE req[q].at = "insert" /\ req[q].user = u /\ req[q].purpose = p
      <3>1. req[q] \in Making
        BY <2>1, Shapes DEF Base, Requested
      <3>2. req'[q].overtaken = TRUE
        BY <1>6, <2>1, <3>1, MakingMoves
      <3> QED
        BY <1>7, <3>2
    <2>2. CASE ~(req[q].at = "insert" /\ req[q].user = u /\ req[q].purpose = p)
      BY <1>6, <1>7, <2>2
    <2> QED
      BY <2>1, <2>2
  <1>8. \A k \in Codes : code'[k] # Consumed =>
               \/ /\ code[k] # Consumed
                  /\ code'[k].user = code[k].user /\ code'[k].purpose = code[k].purpose
               \/ \A q \in Requests \ {r} : req'[q].at = "insert" /\ ~req'[q].overtaken =>
                     ~(code'[k].user = req[q].user /\ code'[k].purpose = req[q].purpose)
    BY <1>3, <1>4, <1>7
  <1>9. Covers'
    <2>1. \A k \in Codes : lock[k] \in Requests \ {r} => lock'[k] = lock[k]
      BY <1>5
    <2>2. req'[r].at # "insert"
      BY <1>6 DEF Idle
    <2> QED
      BY <1>7, <1>8, <2>1, <2>2, CoversKept
  <1>10. ASSUME ~req[r].overtaken, NEW k \in Codes
         PROVE  (code'[k] # Consumed /\ code'[k].user = u /\ code'[k].purpose = p) <=> k = c
    <2>1. CASE k = c
      BY <1>3, <1>4, <2>1
    <2>2. CASE k # c /\ lock[k] = r
      BY <1>4, <2>2
    <2>3. CASE k # c /\ lock[k] # r
      <3>1. code'[k] = code[k]
        BY <1>4, <2>3
      <3>2. k \notin Unconsumed(u, p)
        BY <1>2, <1>10, <2>3 DEF Covers
      <3> QED
        BY <2>3, <3>1, <3>2 DEF Unconsumed, Unused
    <2> QED
      BY <2>1, <2>2, <2>3
  <1> QED
    BY <1>9, <1>10

LEMMA ConsumeCovers ==
    ASSUME Base, Covers, NEW r \in Requests, Verify(r) \/ Reset(r)
    PROVE  Covers'
  <1>1. req[r].at = "apply" /\ Consume(r, req[r].code)
    <2>1. CASE Verify(r)
      BY <2>1 DEF Verify
    <2>2. CASE Reset(r)
      BY <2>2 DEF Reset
    <2> QED
      BY <2>1, <2>2
  <1>2. /\ \A k \in Codes : code'[k] = IF k = req[r].code THEN Consumed ELSE code[k]
        /\ \A k \in Codes : lock'[k] = IF lock[k] = r THEN None ELSE lock[k]
    BY <1>1, ConsumeStep
  <1>3. /\ req'[r].at # "insert"
        /\ \A q \in Requests \ {r} : req'[q].at = "insert" => req'[q] = req[q]
    <2>1. CASE Verify(r)
      BY <2>1 DEF Verify, Goto, Base, Requested
    <2>2. CASE Reset(r)
      BY <2>2, OutdatedMarks DEF Reset, Idle, Base
    <2> QED
      BY <2>1, <2>2
  <1> QED
    BY <1>2, <1>3, CoversKept

\* A step that moves neither a row nor a lock.
LEMMA QuietCovers ==
    ASSUME Base, Covers, NEW r \in Requests,
           \/ \E u \in Users : Register(r, u) \/ Login(r, u) \/ \E a \in Users :
                \/ AskDelete(r, a, u)
                \/ \E newRole \in {"ADMIN", "USER"}, ban \in BOOLEAN : Edit(r, a, u, newRole, ban)
           \/ CreateSession(r) \/ Save(r) \/ Purge(r)
    PROVE  Covers'
  <1>1. UNCHANGED <<code, lock>>
    BY DEF Register, Login, AskDelete, Edit, CreateSession, Save, Purge, codes
  <1>2. /\ req'[r].at # "insert"
        /\ \A q \in Requests \ {r} : req'[q].at = "insert" => req'[q] = req[q]
    <2>1. CASE \E u \in Users : Register(r, u)
      BY <2>1 DEF Register, Goto, Replacing, Base, Requested
    <2>2. CASE \E u \in Users : Login(r, u)
      BY <2>2 DEF Login, Goto, Base, Requested
    <2>3. CASE \E u, a \in Users : AskDelete(r, a, u)
      BY <2>3 DEF AskDelete, Goto, Base, Requested
    <2>4. CASE \E u, a \in Users, newRole \in {"ADMIN", "USER"}, ban \in BOOLEAN :
                    Edit(r, a, u, newRole, ban)
      BY <2>4 DEF Edit, Goto, Base, Requested
    <2>5. CASE CreateSession(r) \/ Purge(r)
      BY <2>5 DEF CreateSession, Purge, Goto, Idle, Base, Requested
    <2>6. CASE Save(r)
      <3>1. req'[r].at # "insert"
        BY <2>6 DEF Save, Idle
      <3>2. ASSUME NEW q \in Requests \ {r}, req'[q].at = "insert"
            PROVE  req'[q] = req[q]
        <4>1. req'[q] = Stale(q) \/ (req[q].at = "session" /\ req'[q] = Outdated(req[r].user, q))
          BY <2>6 DEF Save
        <4> QED
          BY <3>2, <4>1, StaleMarks, OutdatedMarks DEF Base
      <3> QED
        BY <3>1, <3>2
    <2> QED
      BY <2>1, <2>2, <2>3, <2>4, <2>5, <2>6
  <1> QED
    BY <1>1, <1>2, CoversKept

\* Submitting takes a free row; a request that ends leaves only its own locks.
LEMMA LockCovers ==
    ASSUME Base, Covers, NEW r \in Requests,
           (\E c \in Codes : Submit(r, c)) \/ Die(r) \/ Delete(r)
    PROVE  Covers'
  <1>1. CASE \E c \in Codes : Submit(r, c)
    <2>1. PICK c \in Codes : Submit(r, c)
      BY <1>1
    <2>2. /\ \A q \in Requests \ {r} : req'[q] = req[q]
          /\ req'[r].at # "insert" /\ code' = code
      BY <2>1 DEF Submit, Goto, Base, Requested, codes
    <2>3. \A k \in Codes : lock[k] \in Requests \ {r} => lock'[k] = lock[k]
      BY <2>1, HoldsLocks DEF Submit, Base
    <2> QED
      BY <2>2, <2>3, CoversKept
  <1>2. CASE Die(r)
    <2>1. /\ \A q \in Requests \ {r} : req'[q] = req[q]
          /\ req'[r].at # "insert" /\ code' = code
      BY <1>2 DEF Die, Goto, Idle, Base, Requested, codes
    <2>2. \A k \in Codes : lock[k] \in Requests \ {r} => lock'[k] = lock[k]
      BY <1>2, UnlockedLocks DEF Die, Base
    <2> QED
      BY <2>1, <2>2, CoversKept
  <1>3. CASE Delete(r)
    <2>1. \A q \in Requests : req'[q].at = "insert" => req'[q] = req[q]
      BY <1>3, StaleMarks DEF Delete, Idle, Base
    <2>2. req'[r].at # "insert"
      BY <1>3, StaleMarks DEF Delete, Idle, Base
    <2>3. lock' = lock /\ \A k \in Codes : code'[k] # Consumed => code'[k] = code[k]
      BY <1>3 DEF Delete
    <2> QED
      BY <2>1, <2>2, <2>3, CoversKept
  <1> QED
    BY <1>1, <1>2, <1>3

LEMMA CoversInductive == Base /\ Covers /\ [Next]_vars => Covers'
  <1> SUFFICES ASSUME Base, Covers, [Next]_vars PROVE Covers'
    OBVIOUS
  <1>1. CASE UNCHANGED vars \/ \E s \in sessions : Logout(s)
    BY <1>1 DEF vars, codes, Logout, Covers, Unconsumed, Unused
  <1>2. ASSUME NEW c \in Codes, NEW r, Age(c) \/ Guess(r, c)
        PROVE  Covers'
    BY <1>2, CodeBase DEF Covers, Unconsumed, Unused
  <1>3. ASSUME NEW r \in Requests, Begin(r) \/ Continue(r)
        PROVE  Covers'
    BY <1>2, <1>3, AskCovers, ReplaceCovers, InsertCovers, ConsumeCovers, QuietCovers,
       LockCovers DEF Begin, Continue
  <1> QED
    BY <1>1, <1>2, <1>3 DEF Next

LEMMA CoversInitially == Init => Covers
  BY DEF Init, Covers, Idle

\* A code request that no other overtook leaves its code as the only one that works.
THEOREM NewestRule == Spec => NewestReplaces
  <1>1. Base /\ Covers =>
          [\A r \in Requests, c \in Codes :
             Insert(r, c) /\ ~req[r].overtaken =>
                 {k \in Codes : code'[k] # Consumed /\ code'[k].user = req[r].user
                                  /\ code'[k].purpose = req[r].purpose} = {c}]_vars
    BY InsertCovers
  <1>2. Spec => []Covers
    <2> HIDE DEF Base, Covers
    <2> QED
      BY Invariance, CoversInitially, CoversInductive, PTL DEF Spec
  <1> HIDE DEF Base, Covers
  <1> QED
    BY <1>1, <1>2, Invariance, PTL DEF Spec, NewestReplaces

-----------------------------------------------------------------------------
(* The order of the codes, and with it the types *)

Ordered == IsStrictTotalOrder(older, Unused)
Budgeted == budget \in [codes : Nat, edits : Nat]

\* What is left of an order is an order of what is left.
LEMMA FewerOrdered ==
    ASSUME Ordered, NEW cs
    PROVE  IsStrictTotalOrder(Without(cs), Unused \ cs)
  BY DEF Ordered, IsStrictTotalOrder, Without

\* An element put after, or before, all others.
LEMMA OneMoreOrdered ==
    ASSUME NEW S, NEW pairs, IsStrictTotalOrder(pairs, S), NEW c, c \notin S
    PROVE  /\ IsStrictTotalOrder(pairs \cup S \X {c}, S \cup {c})
           /\ IsStrictTotalOrder(pairs \cup {c} \X S, S \cup {c})
  <1>1. \A d, e : <<d, e>> \in pairs => d \in S /\ e \in S
    BY DEF IsStrictTotalOrder
  <1>2. \A d \in S : <<d, d>> \notin pairs
    BY DEF IsStrictTotalOrder
  <1> DEFINE last == pairs \cup S \X {c}
             first == pairs \cup {c} \X S
  <1>3. \A d, e : <<d, e>> \in last <=> <<d, e>> \in pairs \/ (d \in S /\ e = c)
    OBVIOUS
  <1>4. \A d, e : <<d, e>> \in first <=> <<d, e>> \in pairs \/ (d = c /\ e \in S)
    OBVIOUS
  <1>5. last \subseteq (S \cup {c}) \X (S \cup {c}) /\ first \subseteq (S \cup {c}) \X (S \cup {c})
    BY DEF IsStrictTotalOrder
  <1> HIDE DEF last, first
  <1>6. IsStrictTotalOrder(last, S \cup {c})
    BY <1>1, <1>2, <1>3, <1>5 DEF IsStrictTotalOrder
  <1>7. IsStrictTotalOrder(first, S \cup {c})
    BY <1>1, <1>2, <1>4, <1>5 DEF IsStrictTotalOrder
  <1> QED
    BY <1>6, <1>7 DEF last, first

LEMMA InsertOrdered ==
    ASSUME Base, Ordered, NEW r \in Requests, NEW c \in Codes, Insert(r, c)
    PROVE  Ordered'
  <1> DEFINE old == {k \in Codes : lock[k] = r}
             others == Unused \ (old \cup {c})
  <1>1. IsStrictTotalOrder(Without(old \cup {c}), others)
    BY FewerOrdered
  <1>2. \/ older' = Without(old \cup {c}) \cup others \X {c}
        \/ older' = Without(old \cup {c}) \cup {c} \X others
    BY DEF Insert
  <1>3. PICK sent \in BOOLEAN :
          code' = [k \in Codes |->
                    IF k = c THEN [age |-> "fresh", user |-> req[r].user,
                                   purpose |-> req[r].purpose,
                                   attempts |-> 0, sent |-> sent]
                    ELSE IF k \in old THEN Consumed ELSE code[k]]
    BY DEF Insert
  <1> DEFINE new == [age |-> "fresh", user |-> req[r].user, purpose |-> req[r].purpose,
                     attempts |-> 0, sent |-> sent]
  <1>4. new # Consumed
    <2>1. req[r] \in Making
      BY Shapes DEF Insert, Base, Requested
    <2>2. new \in Rows
      BY <2>1, LimitAssumption DEF Making, Rows
    <2> QED
      BY <2>2, RowMoves
  <1> HIDE DEF new
  <1>5. \A k \in Codes :
          code'[k] = IF k = c THEN new ELSE IF k \in old THEN Consumed ELSE code[k]
    BY <1>3 DEF new
  <1>6. Unused' = others \cup {c}
    BY <1>4, <1>5 DEF Unused
  <1> HIDE DEF others, old
  <1>7. c \notin others
    BY DEF others
  <1> DEFINE rest == Without(old \cup {c})
  <1>8. IsStrictTotalOrder(older', others \cup {c})
    <2>1. IsStrictTotalOrder(rest, others) /\ (older' = rest \cup others \X {c} \/ older' = rest \cup {c} \X others)
      BY <1>1, <1>2
    <2> HIDE DEF rest
    <2>2. /\ IsStrictTotalOrder(rest \cup others \X {c}, others \cup {c})
          /\ IsStrictTotalOrder(rest \cup {c} \X others, others \cup {c})
      BY <1>7, <2>1, OneMoreOrdered
    <2> QED
      BY <2>1, <2>2
  <1> QED
    BY <1>6, <1>8 DEF Ordered

\* A step that takes codes away.
LEMMA FewerStep ==
    ASSUME Ordered, NEW cs, older' = Without(cs), Unused' = Unused \ cs
    PROVE  Ordered'
  <1>1. IsStrictTotalOrder(older', Unused \ cs)
    BY FewerOrdered
  <1> QED
    BY <1>1 DEF Ordered

LEMMA SameStep ==
    ASSUME Ordered, older' = older, Unused' = Unused
    PROVE  Ordered'
  BY DEF Ordered

LEMMA OrderedInductive == Base /\ Ordered /\ [Next]_vars => Ordered'
  <1> SUFFICES ASSUME Base, Ordered, [Next]_vars PROVE Ordered'
    OBVIOUS
  <1>1. CASE UNCHANGED codes
    BY <1>1, SameStep DEF codes, Unused
  <1>2. ASSUME NEW c \in Codes, NEW r, Age(c) \/ Guess(r, c)
        PROVE  Ordered'
    <2>1. older' = older
      BY <1>2 DEF Age, Guess
    <2>2. code[c] \in Rows
      BY <1>2 DEF Age, Guess, Live, Consumed, Base, Columns
    <2>3. \A k \in Codes : code'[k] = Consumed <=> code[k] = Consumed
      <3>1. ASSUME NEW k \in Codes, k # c PROVE code'[k] = code[k]
        BY <1>2, <3>1 DEF Age, Guess, Base, Columns
      <3>2. code'[c] # Consumed
        <4>1. CASE Age(c)
          <5>1. PICK age \in {"old", "expired"} : code' = [code EXCEPT ![c].age = age]
            BY <4>1 DEF Age
          <5>2. code'[c] = [code[c] EXCEPT !.age = age]
            BY <5>1 DEF Base, Columns
          <5>3. [code[c] EXCEPT !.age = age] \in Rows
            BY <2>2, RowMoves
          <5> QED
            BY <5>2, <5>3, RowMoves
        <4>2. CASE Guess(r, c)
          <5>1. code'[c] = [code[c] EXCEPT !.attempts = code[c].attempts + 1]
            BY <4>2 DEF Guess, Base, Columns
          <5>2. [code[c] EXCEPT !.attempts = code[c].attempts + 1] \in Rows
            BY <4>2, <2>2, RowMoves DEF Guess
          <5> QED
            BY <5>1, <5>2, RowMoves
        <4> QED
          BY <1>2, <4>1, <4>2
      <3>3. code[c] # Consumed
        BY <2>2, RowMoves
      <3> QED
        BY <3>1, <3>2, <3>3
    <2> QED
      BY <2>1, <2>3, SameStep DEF Unused
  <1>3. ASSUME NEW r \in Requests, Verify(r) \/ Reset(r)
        PROVE  Ordered'
    <2>1. Consume(r, req[r].code)
      BY <1>3 DEF Verify, Reset
    <2>2. \A k \in Codes : code'[k] = IF k = req[r].code THEN Consumed ELSE code[k]
      BY <1>3, <2>1, ConsumeStep DEF Verify, Reset
    <2>3. older' = Without({req[r].code})
      BY <2>1 DEF Consume
    <2>4. Unused' = Unused \ {req[r].code}
      BY <2>2 DEF Unused
    <2> QED
      BY <2>3, <2>4, FewerStep
  <1>4. ASSUME NEW r \in Requests, Delete(r)
        PROVE  Ordered'
    <2> DEFINE gone == UNION {Unconsumed(req[r].user, p) : p \in Purposes}
    <2>1. older' = Without(gone) /\ code' = [c \in Codes |-> IF c \in gone THEN Consumed ELSE code[c]]
      BY <1>4 DEF Delete
    <2> HIDE DEF gone
    <2>2. Unused' = Unused \ gone
      BY <2>1 DEF Unused
    <2> QED
      BY <2>1, <2>2, FewerStep
  <1>5. ASSUME NEW r \in Requests, Begin(r) \/ Continue(r)
        PROVE  Ordered'
    <2>1. \/ UNCHANGED codes \/ Verify(r) \/ Reset(r) \/ Delete(r)
          \/ \E c \in Codes : Guess(r, c) \/ Insert(r, c)
      <3>1. CASE Begin(r)
        BY <3>1 DEF Begin, Register, Login, AskCode, AskDelete, Edit, Submit
      <3>2. CASE Continue(r)
        BY <3>2 DEF Continue, Wake, Replace, CreateSession, Save, Purge, Die
      <3> QED
        BY <1>5, <3>1, <3>2
    <2> QED
      BY <1>1, <1>2, <1>3, <1>4, <2>1, InsertOrdered
  <1> QED
    BY <1>1, <1>2, <1>5 DEF Next, Logout, vars

LEMMA BudgetedInductive == Budgeted /\ [Next]_vars => Budgeted'
  <1> SUFFICES ASSUME Budgeted, [Next]_vars PROVE Budgeted'
    OBVIOUS
  <1>1. CASE UNCHANGED budget
    BY <1>1 DEF Budgeted
  <1>2. CASE Spend("codes") \/ Spend("edits")
    BY <1>2 DEF Spend, Budgeted
  <1>3. ASSUME NEW r \in Requests, Begin(r)
        PROVE  UNCHANGED budget \/ Spend("codes") \/ Spend("edits")
    BY <1>3 DEF Begin, Register, Login, AskCode, AskDelete, Edit, Submit, Guess
  <1>4. ASSUME NEW r \in Requests, Continue(r)
        PROVE  UNCHANGED budget
    BY <1>4 DEF Continue, Wake, Replace, Verify, Reset, CreateSession, Save, Purge, Delete,
                Die, Insert
  <1> QED
    BY <1>1, <1>2, <1>3, <1>4 DEF Next, Age, Logout, vars

\* Every column, lock, request and budget keeps its type, and created_at goes on
\* ordering the codes that are unconsumed, and no others.
THEOREM TypeCorrect == Spec => []TypeOK
  <1>1. Init => Ordered /\ Budgeted
    <2> SUFFICES ASSUME Init PROVE Ordered /\ Budgeted
      OBVIOUS
    <2>1. Unused = {} /\ older = {}
      BY DEF Init, Unused
    <2>2. Ordered
      BY <2>1 DEF Ordered, IsStrictTotalOrder
    <2> QED
      BY <2>2, BudgetAssumption DEF Init, Budgeted
  <1>2. Base /\ Ordered /\ Budgeted => TypeOK
    BY DEF Base, Columns, Requested, Ordered, Budgeted, TypeOK, Sessions, Rows, Consumed
  <1>3. Spec => [](Ordered /\ Budgeted)
    <2> HIDE DEF Base, Ordered, Budgeted
    <2> QED
      BY <1>1, Invariance, OrderedInductive, BudgetedInductive, PTL DEF Spec
  <1> HIDE DEF Base, Ordered, Budgeted, TypeOK
  <1> QED
    BY <1>2, <1>3, Invariance, PTL
=============================================================================
