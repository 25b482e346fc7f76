-------------------------- MODULE AutoRecoveryProofs --------------------------
(***************************************************************************)
(* Proofs about AutoRecovery, for any number of overlapping recovery runs  *)
(* and requests, and any durations and limits.  What carries them is the   *)
(* advisory lock: only its holder raises the cooldown, so that no other    *)
(* run can be past the fresh read when the cooldown begins, or between the *)
(* count of a failure and its pause.                                       *)
(***************************************************************************)
EXTENDS AutoRecovery, TLAPS

Columns ==
    /\ desired \in {"running", "stopped"}
    /\ suspended \in BOOLEAN /\ enabled \in BOOLEAN
    /\ cooldown \in Nat /\ owed \in Nat /\ owed <= Cooldown
    /\ desk \in [Requests -> {"idle", "start", "stop", "suspend", "unsuspend"}]

Runs ==
    /\ pc \in [Workers -> {"idle", "picked"} \cup Past]
    /\ owner \in Workers \cup {None}
    /\ revoked \subseteq Workers

\* A run is past its fresh read exactly while it holds the lock.
Exclusive == \A w \in Workers : pc[w] \in Past <=> owner = w

\* A pause that was earned is running, or is about to be written by the run that holds
\* the lock.
Paused == owed <= cooldown \/ \E w \in Workers : pc[w] = "pause"

IInv == Columns /\ Runs /\ Exclusive /\ ActsOnFreshWish /\ CooldownIsKept /\ Paused

LEMMA CooldownLasts == Cooldown \in Nat /\ Cooldown > 0
  BY DurationAssumption

LEMMA Initially == Init => IInv
  <1> SUFFICES ASSUME Init PROVE IInv
    OBVIOUS
  <1>1. Columns
    <2>1. cooldown \in Nat /\ owed \in Nat /\ owed <= Cooldown
      BY CooldownLasts DEF Init
    <2> QED
      BY <2>1 DEF Init, Columns
  <1>2. Runs /\ Paused
    <2>1. Runs
      BY DEF Init, Runs
    <2>2. owed = 0 /\ cooldown = 0
      BY DEF Init
    <2> QED
      BY <2>1, <2>2 DEF Paused
  <1>3. \A w \in Workers : pc[w] \notin Past /\ owner # w
    BY NullAssumption DEF Init, Past
  <1> QED
    BY <1>1, <1>2, <1>3 DEF IInv, Exclusive, ActsOnFreshWish, CooldownIsKept

\* While a run is past its fresh read, no pause is running; while it has none to write,
\* no other run has.
LEMMA NothingOwed ==
    ASSUME IInv, NEW w \in Workers, pc[w] \in Past \ {"pause"}
    PROVE  owed = 0
  <1>1. cooldown = 0 /\ owner = w
    BY DEF IInv, CooldownIsKept, Exclusive
  <1>2. \A v \in Workers : pc[v] # "pause"
    BY <1>1 DEF IInv, Exclusive, Past
  <1> QED
    BY <1>1, <1>2 DEF IInv, Paused, Columns

\* A step that ends the run which holds the lock may change the cooldown, and leaves
\* no pause unwritten.
LEMMA FinishStep ==
    ASSUME IInv, NEW w \in Workers, pc[w] \in Past, Finish(w),
           UNCHANGED <<row, desk>>, cooldown' \in Nat, owed' \in Nat, owed' <= cooldown', owed' <= Cooldown
    PROVE  IInv'
  <1>1. \A v \in Workers : pc'[v] \notin Past
    BY DEF IInv, Runs, Exclusive, Finish, Past
  <1>2. Columns' /\ Runs'
    BY DEF IInv, Columns, Runs, Finish, row
  <1>3. Exclusive'
    BY <1>1, NullAssumption DEF Exclusive, Finish
  <1> QED
    BY <1>1, <1>2, <1>3 DEF IInv, ActsOnFreshWish, CooldownIsKept, Paused

\* A step of the run that holds the lock to its next call, perhaps with a pause to write.
LEMMA ProceedStep ==
    ASSUME IInv, NEW w \in Workers, pc[w] \in Past, NEW step \in Past,
           pc' = [pc EXCEPT ![w] = step],
           UNCHANGED <<row, desk, cooldown, owner, revoked>>,
           owed' = 0 \/ (step = "pause" /\ owed' = Cooldown)
    PROVE  IInv'
  <1>1. \A v \in Workers : pc'[v] \in Past <=> pc[v] \in Past
    BY DEF IInv, Runs
  <1>2. Paused'
    BY DEF IInv, Runs, Columns, Paused
  <1>3. Columns'
    BY CooldownLasts DEF IInv, Columns, row
  <1> QED
    BY <1>1, <1>2, <1>3
    DEF IInv, Runs, Exclusive, ActsOnFreshWish, CooldownIsKept, Wanted, row

\* A step that moves no run, takes nothing back and leaves the pause or ends it.
LEMMA OutsideStep ==
    ASSUME IInv, UNCHANGED <<pc, owner, revoked>>, Columns', Wanted => Wanted',
           UNCHANGED <<cooldown, owed>> \/ (cooldown' = 0 /\ owed' = 0)
    PROVE  IInv'
  BY DEF IInv, Runs, Exclusive, ActsOnFreshWish, CooldownIsKept, Paused

\* A step that withdraws the permission of every run past its fresh read.
LEMMA WithdrawStep ==
    ASSUME IInv, UNCHANGED <<pc, owner>>, Withdraw, Columns',
           UNCHANGED <<cooldown, owed>> \/ (cooldown' = 0 /\ owed' = 0)
    PROVE  IInv'
  BY DEF IInv, Runs, Exclusive, ActsOnFreshWish, CooldownIsKept, Paused, Withdraw

LEMMA FailStep ==
    ASSUME IInv, NEW w \in Workers, pc[w] \in Past \ {"pause"}, Fail(w),
           UNCHANGED <<row, desk, cooldown>>
    PROVE  IInv'
  <1>1. owed = 0 /\ cooldown \in Nat
    BY NothingOwed DEF IInv, Columns
  <1>2. CASE Finish(w) /\ UNCHANGED owed
    BY <1>1, <1>2, FinishStep, CooldownLasts
  <1>3. CASE pc' = [pc EXCEPT ![w] = "pause"] /\ owed' = Cooldown /\ UNCHANGED <<owner, revoked>>
    BY <1>1, <1>3, ProceedStep, CooldownLasts DEF Past
  <1> QED
    BY <1>2, <1>3 DEF Fail

LEMMA SelectStep ==
    ASSUME IInv, NEW w \in Workers, Select(w)
    PROVE  IInv'
  <1>1. \A v \in Workers : pc'[v] \in Past <=> pc[v] \in Past
    BY DEF Select, IInv, Runs, Past
  <1>2. Columns' /\ Runs'
    BY DEF Select, IInv, Columns, Runs, row, limits
  <1>3. Paused'
    BY DEF Select, IInv, Runs, Paused, limits
  <1> QED
    BY <1>1, <1>2, <1>3
    DEF Select, IInv, Exclusive, ActsOnFreshWish, CooldownIsKept, Wanted, row, limits

LEMMA ConfirmStep ==
    ASSUME IInv, NEW w \in Workers, Confirm(w)
    PROVE  IInv'
  <1>1. Columns' /\ Runs' /\ UNCHANGED <<row, cooldown, revoked>>
    BY DEF Confirm, IInv, Columns, Runs, Past, row, limits
  <1>2. Paused'
    BY DEF Confirm, IInv, Runs, Paused, limits
  <1>3. CASE owner = None /\ Wanted /\ cooldown = 0
    <2>1. pc' = [pc EXCEPT ![w] = "probe"] /\ owner' = w
      BY <1>3 DEF Confirm
    <2>2. \A v \in Workers : pc[v] \notin Past
      BY <1>3, NullAssumption DEF IInv, Exclusive
    <2>3. \A v \in Workers : pc'[v] \in Past <=> v = w
      BY <2>1, <2>2 DEF IInv, Runs, Past
    <2> QED
      BY <1>1, <1>2, <1>3, <2>1, <2>3
      DEF IInv, Exclusive, ActsOnFreshWish, CooldownIsKept, Wanted, row
  <1>4. CASE ~(owner = None /\ Wanted /\ cooldown = 0)
    <2>1. pc' = [pc EXCEPT ![w] = "idle"] /\ owner' = owner
      BY <1>4 DEF Confirm
    <2>2. \A v \in Workers : pc'[v] \in Past <=> pc[v] \in Past
      BY <2>1 DEF Confirm, IInv, Runs, Past
    <2> QED
      BY <1>1, <1>2, <2>1, <2>2
      DEF IInv, Exclusive, ActsOnFreshWish, CooldownIsKept, Wanted, row
  <1> QED
    BY <1>3, <1>4

LEMMA AbortStep ==
    ASSUME IInv, NEW w \in Workers, Abort(w)
    PROVE  IInv'
  <1>1. \A v \in Workers : pc'[v] \in Past <=> pc[v] \in Past /\ v # w
    BY DEF Abort, IInv, Runs, Past
  <1>2. Columns' /\ Runs' /\ UNCHANGED <<row, cooldown>>
    BY CooldownLasts DEF Abort, IInv, Columns, Runs, row, limits
  <1>3. Exclusive'
    BY <1>1, NullAssumption DEF Abort, IInv, Exclusive
  <1>4. Paused'
    BY DEF Abort, IInv, Columns, Runs, Paused, limits
  <1>5. ActsOnFreshWish' /\ CooldownIsKept'
    BY <1>1, <1>2 DEF Abort, IInv, ActsOnFreshWish, CooldownIsKept, Wanted, row
  <1> QED
    BY <1>2, <1>3, <1>4, <1>5 DEF IInv

LEMMA RecoverStep ==
    ASSUME IInv, NEW w \in Workers, Recover(w)
    PROVE  IInv'
  <1>1. CASE Select(w) \/ Confirm(w)
    BY <1>1, SelectStep, ConfirmStep
  <1>2. CASE Probe(w)
    <2>1. pc[w] \in Past \ {"pause"} /\ "attempt" \in Past /\ UNCHANGED <<row, desk, owed>>
      BY <1>2 DEF Probe, Past
    <2>2. owed = 0 /\ owed' = 0
      BY <2>1, NothingOwed
    <2>3. CASE Finish(w) /\ cooldown' \in {0, Cooldown}
      BY <2>1, <2>2, <2>3, FinishStep, CooldownLasts
    <2>4. CASE pc' = [pc EXCEPT ![w] = "attempt"] /\ UNCHANGED <<cooldown, owner, revoked>>
      BY <2>1, <2>2, <2>4, ProceedStep
    <2> QED
      BY <1>2, <2>3, <2>4 DEF Probe
  <1>3. CASE ProbeFails(w)
    <2>1. pc[w] \in Past \ {"pause"} /\ Finish(w) /\ UNCHANGED <<row, desk, cooldown, owed>>
      BY <1>3 DEF ProbeFails, Past, limits
    <2> QED
      BY <2>1, NothingOwed, FinishStep DEF IInv, Columns
  <1>4. CASE Attempt(w)
    <2>1. pc[w] \in Past \ {"pause"} /\ "record" \in Past /\ UNCHANGED <<row, desk, owed>>
      BY <1>4 DEF Attempt, Past
    <2>2. owed = 0 /\ owed' = 0
      BY <2>1, NothingOwed
    <2>3. CASE Finish(w) /\ cooldown' \in {cooldown, Cooldown}
      BY <2>1, <2>2, <2>3, FinishStep, CooldownLasts DEF IInv, Columns
    <2>4. CASE pc' = [pc EXCEPT ![w] = "record"] /\ UNCHANGED <<cooldown, owner, revoked>>
      BY <2>1, <2>2, <2>4, ProceedStep
    <2> QED
      BY <1>4, <2>3, <2>4 DEF Attempt
  <1>5. CASE Record(w) \/ Mark(w)
    <2>1. /\ pc[w] \in Past \ {"pause"} /\ UNCHANGED <<row, desk, owed, cooldown, owner, revoked>>
          /\ \E step \in Past : pc' = [pc EXCEPT ![w] = step]
      BY <1>5 DEF Record, Mark, Past
    <2>2. owed' = 0
      BY <2>1, NothingOwed
    <2> QED
      BY <2>1, <2>2, ProceedStep
  <1>6. CASE Act(w)
    <2>1. pc[w] \in Past \ {"pause"} /\ "verify" \in Past /\ UNCHANGED <<row, desk, cooldown>>
      BY <1>6 DEF Act, Past
    <2>2. CASE Fail(w)
      BY <2>1, <2>2, FailStep
    <2>3. CASE pc' = [pc EXCEPT ![w] = "verify"] /\ UNCHANGED <<owner, revoked, owed>>
      BY <2>1, <2>3, NothingOwed, ProceedStep
    <2> QED
      BY <1>6, <2>2, <2>3 DEF Act
  <1>7. CASE Verify(w)
    <2>1. pc[w] \in Past \ {"pause"} /\ UNCHANGED <<row, desk>>
      BY <1>7 DEF Verify, Past
    <2>2. CASE Fail(w) /\ UNCHANGED cooldown
      BY <2>1, <2>2, FailStep
    <2>3. CASE Finish(w) /\ cooldown' = 0 /\ owed' = 0
      BY <2>1, <2>3, FinishStep, CooldownLasts
    <2> QED
      BY <1>7, <2>2, <2>3 DEF Verify
  <1>8. CASE Suppress(w)
    <2>1. pc[w] \in Past /\ Finish(w) /\ cooldown' = Cooldown /\ UNCHANGED <<row, desk, owed>>
      BY <1>8 DEF Suppress, Past
    <2>2. owed <= Cooldown /\ owed \in Nat
      BY DEF IInv, Columns
    <2> QED
      BY <2>1, <2>2, FinishStep, CooldownLasts
  <1> QED
    BY <1>1, <1>2, <1>3, <1>4, <1>5, <1>6, <1>7, <1>8 DEF Recover

LEMMA KeepStep ==
    ASSUME IInv, NEW r \in Requests, Keep(r)
    PROVE  IInv'
  <1>1. /\ UNCHANGED <<pc, owner, enabled>>
        /\ UNCHANGED <<cooldown, owed>> \/ (cooldown' = 0 /\ owed' = 0)
    BY DEF Keep, runs
  <1>2. Columns'
    <2>1. cooldown' \in Nat /\ owed' \in Nat /\ owed' <= Cooldown
      BY <1>1, CooldownLasts DEF IInv, Columns
    <2> QED
      BY <1>1, <2>1 DEF Keep, IInv, Columns
  <1>3. CASE desired' = "stopped"
    BY <1>1, <1>2, <1>3, WithdrawStep DEF Keep
  <1>4. CASE desired' # "stopped"
    <2>1. UNCHANGED revoked /\ desk[r] \in {"start", "unsuspend"} /\ desired' = "running"
      BY <1>4 DEF Keep, IInv, Columns
    <2>2. Wanted => Wanted'
      BY <1>1, <2>1 DEF Keep, Wanted
    <2> QED
      BY <1>1, <1>2, <2>1, <2>2, OutsideStep
  <1> QED
    BY <1>3, <1>4

LEMMA SettingsStep ==
    ASSUME IInv, NEW on \in BOOLEAN, SaveSettings(on)
    PROVE  IInv'
  <1>1. /\ UNCHANGED <<pc, owner>> /\ Columns'
        /\ UNCHANGED <<cooldown, owed>> \/ (cooldown' = 0 /\ owed' = 0)
    BY CooldownLasts DEF SaveSettings, runs, IInv, Columns
  <1>2. CASE on
    BY <1>1, <1>2, OutsideStep DEF SaveSettings, Wanted
  <1>3. CASE ~on
    BY <1>1, <1>3, WithdrawStep DEF SaveSettings
  <1> QED
    BY <1>2, <1>3

LEMMA BillingStep ==
    ASSUME IInv, BillingSaves
    PROVE  IInv'
  <1>1. UNCHANGED <<pc, owner, cooldown, owed>> /\ Columns'
    BY DEF BillingSaves, limits, runs, IInv, Columns
  <1>2. CASE suspended'
    BY <1>1, <1>2, WithdrawStep DEF BillingSaves
  <1>3. CASE ~suspended'
    BY <1>1, <1>3, OutsideStep DEF BillingSaves, Wanted
  <1> QED
    BY <1>2, <1>3

LEMMA DieStep ==
    ASSUME IInv, Die
    PROVE  IInv'
  <1>1. Columns' /\ Runs'
    BY CooldownLasts DEF IInv, Die, Columns, Runs, row, limits
  <1>2. \A w \in Workers : pc'[w] \notin Past /\ owner' # w
    BY NullAssumption DEF Die, Past
  <1>3. Paused'
    BY DEF IInv, Die, Columns, Paused, limits
  <1> QED
    BY <1>1, <1>2, <1>3 DEF IInv, Exclusive, ActsOnFreshWish, CooldownIsKept

LEMMA TickStep ==
    ASSUME IInv, Tick
    PROVE  IInv'
  <1>1. cooldown' \in Nat /\ (cooldown = 0 => cooldown' = 0) /\ owed' \in Nat
    BY DEF Tick, IInv, Columns
  <1>2. UNCHANGED <<row, runs, desk, revoked>>
    BY DEF Tick
  <1>3. Paused'
    BY <1>2 DEF Tick, IInv, Columns, Paused, runs
  <1>4. Columns'
    BY <1>2, CooldownLasts DEF Tick, IInv, Columns, row
  <1> QED
    BY <1>1, <1>2, <1>3, <1>4
    DEF IInv, Runs, Exclusive, ActsOnFreshWish, CooldownIsKept, Wanted, row, runs

LEMMA Inductive == IInv /\ [Next]_vars => IInv'
  <1> SUFFICES ASSUME IInv, [Next]_vars PROVE IInv'
    OBVIOUS
  <1>1. ASSUME UNCHANGED <<row, runs, desk, revoked, cooldown, owed>> PROVE IInv'
    BY <1>1
    DEF IInv, Columns, Runs, Exclusive, ActsOnFreshWish, CooldownIsKept, Paused, Wanted, row, runs
  <1>2. CASE UNCHANGED vars
    BY <1>1, <1>2 DEF vars, limits
  <1>3. ASSUME NEW r \in Requests, NEW wish \in Wishes, Ask(r, wish) PROVE IInv'
    <2>1. Columns'
      BY <1>3 DEF Ask, Wishes, IInv, Columns, row, limits
    <2> QED
      BY <1>3, <2>1, OutsideStep DEF Ask, Wanted, row, limits, runs
  <1>4. CASE AutomatedPower \/ Falter
    BY <1>1, <1>4 DEF AutomatedPower, Falter, limits
  <1>5. ASSUME NEW w \in Workers, Recover(w) \/ Abort(w) PROVE IInv'
    BY <1>5, RecoverStep, AbortStep
  <1>6. ASSUME NEW r \in Requests, Keep(r) PROVE IInv'
    BY <1>6, KeepStep
  <1>7. ASSUME NEW on \in BOOLEAN, SaveSettings(on) PROVE IInv'
    BY <1>7, SettingsStep
  <1> QED
    BY <1>2, <1>3, <1>4, <1>5, <1>6, <1>7, BillingStep, DieStep, TickStep DEF Next

\* The invariant, for every behaviour of the sweeps, owners, staff and the node.
THEOREM Invariance == Spec => []IInv
  <1> HIDE DEF IInv
  <1> QED
    BY Initially, Inductive, PTL DEF Spec

\* Automation acts for a wish that stood when it was read under the lock, or was
\* withdrawn after that read, however many runs, requests and crashes there are.
THEOREM FreshWish == Spec => []ActsOnFreshWish
  <1>1. IInv => ActsOnFreshWish
    BY DEF IInv
  <1> HIDE DEF IInv, ActsOnFreshWish
  <1> QED
    BY <1>1, Invariance, PTL

\* No run gets past its fresh read while a pause lasts.
THEOREM CooldownKept == Spec => []CooldownIsKept
  <1>1. IInv => CooldownIsKept
    BY DEF IInv
  <1> HIDE DEF IInv, CooldownIsKept
  <1> QED
    BY <1>1, Invariance, PTL

\* A pause earned by failures in a row is served before any run is past its fresh
\* read again, although it is written by a later statement than the one that counts:
\* the lock is held from one to the other.
THEOREM PauseServed == Spec => []PauseIsServed
  <1>1. IInv => PauseIsServed
    BY NothingOwed DEF PauseIsServed
  <1> HIDE DEF IInv, PauseIsServed
  <1> QED
    BY <1>1, Invariance, PTL

-----------------------------------------------------------------------------
(* What is counted: attempts, failures and the durations *)

Counters ==
    /\ container \in {"running", "unhealthy", "exited", "dead"}
    /\ cooldown \in 0..Cooldown
    /\ failures \in 0..MaxAttempts
    /\ last \in 0..Guard
    /\ boot \in {0, 1}

\* The ages of the events a window holds, the newest first, and never too many.
Ordered(ages) == \A i, j \in DOMAIN ages : i < j => ages[i] <= ages[j]
Events == attempts \in Seq(0..Window - 1) /\ Ordered(attempts) /\ Recent <= MaxAttempts

\* A run that has counted and not yet inserted has room for its event.
Room == \A w \in Workers : pc[w] = "record" => Recent < MaxAttempts

Tallies == Counters /\ Events /\ Room

LEMMA InitialTallies == Init => Tallies
  BY DurationAssumption, LimitAssumption
  DEF Init, Tallies, Counters, Events, Ordered, Recent, Room

\* Each event has an age of the window.
LEMMA EventAge ==
    ASSUME NEW S, NEW ages \in Seq(S), NEW i \in 1..Len(ages)
    PROVE  ages[i] \in S
  OBVIOUS

\* An event inserted now is the youngest.
LEMMA RecordedEvents ==
    ASSUME Events, Recent < MaxAttempts, attempts' = Recorded
    PROVE  Events'
  <1>1. attempts \in Seq(0..Window - 1) /\ Len(attempts) < MaxAttempts
    BY DEF Events, Recent
  <1>2. <<0>> \in Seq(0..Window - 1) /\ Len(<<0>>) = 1 /\ <<0>>[1] = 0
    BY DurationAssumption
  <1>3. attempts' \in Seq(0..Window - 1) /\ Len(attempts') = Len(attempts) + 1
    BY <1>1, <1>2 DEF Recorded
  <1>4. \A i \in DOMAIN attempts' :
            attempts'[i] = IF i = 1 THEN 0 ELSE attempts[i - 1]
    BY <1>1, <1>2, <1>3 DEF Recorded
  <1>5. \A i \in 1..Len(attempts) : attempts[i] \in Nat
    <2> TAKE i \in 1..Len(attempts)
    <2>1. attempts[i] \in 0..Window - 1
      BY <1>1, EventAge
    <2> QED
      BY <2>1, DurationAssumption
  <1>6. Ordered(attempts')
    <2> SUFFICES ASSUME NEW i \in DOMAIN attempts', NEW j \in DOMAIN attempts', i < j
                 PROVE  attempts'[i] <= attempts'[j]
      BY DEF Ordered
    <2>1. i \in 1..Len(attempts) + 1 /\ j \in 2..Len(attempts) + 1 /\ Len(attempts) \in Nat
      BY <1>1, <1>3
    <2>2. attempts'[j] = attempts[j - 1] /\ j - 1 \in 1..Len(attempts)
      BY <1>4, <2>1
    <2>3. CASE i = 1
      BY <1>4, <1>5, <2>2, <2>3
    <2>4. CASE i # 1
      <3>1. attempts'[i] = attempts[i - 1] /\ i - 1 \in 1..Len(attempts) /\ i - 1 < j - 1
        BY <1>4, <2>1, <2>4
      <3>2. DOMAIN attempts = 1..Len(attempts)
        BY <1>1
      <3> QED
        BY <2>2, <3>1, <3>2 DEF Events, Ordered
    <2> QED
      BY <2>3, <2>4
  <1> QED
    BY <1>1, <1>3, <1>6, LimitAssumption DEF Events, Recent, Ordered

\* A tick ages every event and drops those that leave the window.
LEMMA AgedEvents ==
    ASSUME Events, Tick
    PROVE  Events'
  <1>1. attempts \in Seq(0..Window - 1) /\ Len(attempts) \in Nat
    BY DEF Events
  <1>2. PICK kept \in 0..Len(attempts) :
            /\ \A i \in 1..Len(attempts) : i <= kept <=> attempts[i] + 1 < Window
            /\ attempts' = [i \in 1..kept |-> attempts[i] + 1]
    BY DEF Tick, Recent
  <1>3. \A i \in 1..kept : attempts[i] \in Nat /\ attempts[i] + 1 \in 0..Window - 1
    <2> TAKE i \in 1..kept
    <2>1. i \in 1..Len(attempts) /\ attempts[i] + 1 < Window
      BY <1>1, <1>2
    <2>2. attempts[i] \in 0..Window - 1
      BY <1>1, <2>1, EventAge
    <2> QED
      BY <2>1, <2>2, DurationAssumption
  <1>4. attempts' \in Seq(0..Window - 1) /\ Len(attempts') = kept
    BY <1>1, <1>2, <1>3
  <1>5. Ordered(attempts')
    <2>1. DOMAIN attempts' = 1..kept /\ DOMAIN attempts = 1..Len(attempts) /\ kept <= Len(attempts)
      BY <1>1, <1>2
    <2>2. \A i, j \in 1..kept : i < j => attempts[i] <= attempts[j]
      BY <2>1, <1>1 DEF Events, Ordered
    <2> QED
      BY <1>2, <1>3, <2>1, <2>2 DEF Ordered
  <1> QED
    BY <1>1, <1>2, <1>4, <1>5, LimitAssumption DEF Events, Recent, Ordered

LEMMA AgedLength ==
    ASSUME Events, Tick
    PROVE  Len(attempts') \in Nat /\ Len(attempts') <= Len(attempts)
  <1>1. Len(attempts) \in Nat
    BY DEF Events
  <1>2. PICK kept \in 0..Len(attempts) : attempts' = [i \in 1..kept |-> attempts[i] + 1]
    BY DEF Tick, Recent
  <1>3. attempts' \in Seq({attempts[i] + 1 : i \in 1..kept}) /\ Len(attempts') = kept
    BY <1>1, <1>2
  <1> QED
    BY <1>1, <1>3

LEMMA FailTallies ==
    ASSUME Counters, NEW w \in Workers, Fail(w)
    PROVE  failures' \in 0..MaxAttempts /\ last' = 0
  BY LimitAssumption DEF Counters, Fail

LEMMA RecoverTallies ==
    ASSUME Tallies, NEW w \in Workers, Recover(w) \/ Abort(w)
    PROVE  Counters' /\ Events'
  <1> USE DurationAssumption, LimitAssumption
  <1>1. CASE Record(w)
    <2>1. Events'
      BY <1>1, RecordedEvents DEF Record, Tallies, Events, Recent, Room
    <2>2. Counters'
      BY <1>1 DEF Record, Tallies, Counters
    <2> QED
      BY <2>1, <2>2
  <1>2. CASE ~Record(w)
    <2>1. UNCHANGED attempts
      BY <1>2
      DEF Recover, Abort, Select, Confirm, Probe, ProbeFails, Attempt, Mark, Act, Verify,
          Suppress, limits
    <2>2. Events'
      BY <2>1 DEF Tallies, Events, Recent
    <2>3. CASE Select(w) \/ Confirm(w) \/ ProbeFails(w) \/ Probe(w) \/ Mark(w)
      BY <2>3, <2>2 DEF Select, Confirm, ProbeFails, Probe, Mark, limits, Tallies, Counters
    <2>4. CASE Attempt(w) \/ Suppress(w) \/ Abort(w)
      BY <2>4, <2>2 DEF Attempt, Suppress, Abort, limits, Tallies, Counters
    <2>5. CASE Act(w) \/ Verify(w)
      <3>1. /\ container' \in {"running", "unhealthy", "exited", "dead"}
            /\ cooldown' \in {0, cooldown} /\ boot' = boot
        BY <2>5 DEF Act, Verify, NodeStarts, Tallies, Counters
      <3>2. failures' \in 0..MaxAttempts /\ last' \in {0, last}
        BY <2>5, FailTallies DEF Act, Verify, Tallies, Counters
      <3> QED
        BY <3>1, <3>2, <2>2 DEF Tallies, Counters
    <2> QED
      BY <1>2, <2>2, <2>3, <2>4, <2>5 DEF Recover
  <1> QED
    BY <1>1, <1>2

\* Between the count and its event only the holder of the lock could insert another.
LEMMA RoomStep ==
    ASSUME IInv, Tallies, [Next]_vars
    PROVE  Room'
  <1> SUFFICES ASSUME NEW w \in Workers, pc'[w] = "record"
               PROVE  Len(attempts') < MaxAttempts
    BY DEF Room, Recent
  <1>1. ASSUME UNCHANGED <<pc, attempts>> PROVE Len(attempts') < MaxAttempts
    BY <1>1 DEF Tallies, Room, Recent
  <1>2. ASSUME NEW v \in Workers, Recover(v) \/ Abort(v)
        PROVE  Len(attempts') < MaxAttempts
    <2>1. CASE v = w
      BY <1>2, <2>1
      DEF Recover, Abort, Select, Confirm, Probe, ProbeFails, Attempt, Record, Mark, Act, Verify,
          Fail, Suppress, Finish, IInv, Runs, Recent
    <2>2. CASE v # w
      <3>1. pc[w] = "record"
        BY <1>2, <2>2
        DEF Recover, Abort, Select, Confirm, Probe, ProbeFails, Attempt, Record, Mark, Act,
            Verify, Fail, Suppress, Finish, IInv, Runs
      <3>2. pc[v] # "record"
        BY <2>2, <3>1 DEF IInv, Exclusive, Past
      <3>3. UNCHANGED attempts
        BY <1>2, <3>2
        DEF Recover, Abort, Select, Confirm, Probe, ProbeFails, Attempt, Record, Mark, Act,
            Verify, Suppress, limits
      <3> QED
        BY <3>1, <3>3 DEF Tallies, Room, Recent
    <2> QED
      BY <2>1, <2>2
  <1>3. CASE Tick
    <2>1. pc' = pc /\ Len(attempts') \in Nat /\ Len(attempts') <= Len(attempts)
      BY <1>3, AgedLength DEF Tick, runs, Tallies
    <2> QED
      BY <2>1, LimitAssumption DEF Tallies, Events, Room, Recent
  <1>4. CASE Die
    BY <1>4 DEF Die
  <1>5. CASE UNCHANGED vars
    BY <1>1, <1>5 DEF vars, limits, runs
  <1>6. CASE \E r \in Requests : Keep(r) \/ \E wish \in Wishes : Ask(r, wish)
    BY <1>1, <1>6 DEF Keep, Ask, limits, runs
  <1>7. CASE AutomatedPower \/ BillingSaves \/ Falter \/ \E on \in BOOLEAN : SaveSettings(on)
    BY <1>1, <1>7 DEF AutomatedPower, BillingSaves, Falter, SaveSettings, limits, runs
  <1> QED
    BY <1>2, <1>3, <1>4, <1>5, <1>6, <1>7 DEF Next

LEMMA TalliesInductive == IInv /\ Tallies /\ [Next]_vars => Tallies'
  <1> SUFFICES ASSUME IInv, Tallies, [Next]_vars PROVE Counters' /\ Events'
    BY RoomStep DEF Tallies
  <1> USE DurationAssumption, LimitAssumption
  <1>1. CASE UNCHANGED vars
    BY <1>1 DEF vars, limits, Tallies, Counters, Events, Recent
  <1>2. ASSUME NEW r \in Requests, NEW wish \in Wishes, Ask(r, wish) PROVE Counters' /\ Events'
    BY <1>2 DEF Ask, NodeStarts, NodeStops, limits, Tallies, Counters, Events, Recent
  <1>3. ASSUME NEW r \in Requests, Keep(r) PROVE Counters' /\ Events'
    BY <1>3 DEF Keep, Tallies, Counters, Events, Recent
  <1>4. ASSUME NEW on \in BOOLEAN, SaveSettings(on) PROVE Counters' /\ Events'
    BY <1>4 DEF SaveSettings, Tallies, Counters, Events, Recent
  <1>5. CASE AutomatedPower \/ BillingSaves \/ Falter
    BY <1>5 DEF AutomatedPower, BillingSaves, Falter, NodeStarts, NodeStops, limits,
                Tallies, Counters, Events, Recent
  <1>6. CASE Die
    BY <1>6 DEF Die, limits, Tallies, Counters, Events, Recent
  <1>7. CASE Tick
    <2>1. Counters'
      BY <1>7 DEF Tick, Tallies, Counters
    <2> QED
      BY <1>7, <2>1, AgedEvents DEF Tallies
  <1> QED
    BY <1>1, <1>2, <1>3, <1>4, <1>5, <1>6, <1>7, RecoverTallies DEF Next

LEMMA TalliesInvariance == Spec => []Tallies
  <1> HIDE DEF IInv, Tallies
  <1> QED
    BY InitialTallies, TalliesInductive, Invariance, PTL DEF Spec

\* Of the attempts that were recorded, no window holds more than the limit, however
\* many runs overlap, however often they die, and for any window and limit.
THEOREM AttemptsAreLimited == Spec => []RateLimit
  <1>1. Tallies => RateLimit
    BY DEF Tallies, Events, RateLimit
  <1> HIDE DEF Tallies, RateLimit
  <1> QED
    BY <1>1, TalliesInvariance, PTL

\* Every column, count and lock keeps its type; the events of the window stay in order.
THEOREM TypeCorrect == Spec => []TypeOK
  <1>1. IInv /\ Tallies => TypeOK
    BY DEF IInv, Columns, Runs, Exclusive, Tallies, Counters, Events, Ordered, TypeOK
  <1> HIDE DEF IInv, Tallies, TypeOK
  <1> QED
    BY <1>1, Invariance, TalliesInvariance, PTL
=============================================================================
