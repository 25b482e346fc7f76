-------------------------- MODULE UpdaterAgentProofs --------------------------
(***************************************************************************)
(* Proofs about UpdaterAgent, for any number of jobs, service restarts,    *)
(* crashes and failed writes, and about HostHealth, for any readings.  The *)
(* argument follows a job: while it runs either its handler has LOCK, or   *)
(* the record names it, or its record could not be written; no verdict     *)
(* names a job that may still run, and what any list of entries says of a  *)
(* job was added under LOCK by the one watcher that saw it end.            *)
(***************************************************************************)
EXTENDS HostHealth, TLAPS

Types ==
    /\ up \in BOOLEAN
    /\ record \in States /\ page \in States
    /\ start \in [Jobs -> {"unsent", "sent", "launched", "recorded", "unrecorded", "refused"}]
    /\ process \in [Jobs -> {"none", "running", "zombie", "gone"}]
    /\ outcome \in [Jobs -> {"success", "failed", "none"}]
    /\ watcher \in [Jobs -> {"none", "waiting", "reaped", "noting", "ended"}]
    /\ lock \in Jobs \cup {None}
    /\ waiting \in Jobs \cup {None}

\* Where a job is, as its handler, its process and its watcher know it.
Stage(j) ==
    /\ start[j] \in {"unsent", "sent", "refused"} <=> process[j] = "none"
    /\ start[j] # "recorded" => watcher[j] = "none"
    /\ start[j] = "launched" => process[j] \in {"running", "zombie"}
    /\ watcher[j] = "waiting" => process[j] \in {"running", "zombie"}
    /\ watcher[j] \in {"reaped", "noting"} =>
          process[j] = "gone" /\ outcome[j] \in {"success", "failed"}
    /\ process[j] = "zombie" => outcome[j] \in {"success", "failed"}

\* Who may write the record, and whose it is.
Held(j) ==
    /\ start[j] = "launched" => lock = j /\ record.status # "running"
    /\ watcher[j] = "noting" => lock = j
    /\ process[j] = "running" /\ start[j] = "recorded" =>
          record.status = "running" /\ record.job = j

\* What the record or the page may say.
Truthful(state) ==
    state.job # None =>
        /\ process[state.job] # "none"
        /\ state.status \in Settled =>
              /\ process[state.job] # "running"
              /\ state.status # "interrupted" => outcome[state.job] = state.status

IInv ==
    /\ Types
    /\ ~up => lock = None
    /\ \A j \in Jobs : Stage(j) /\ Held(j)
    /\ Truthful(record) /\ Truthful(page)

LEMMA Initially == Init => IInv
  <1> SUFFICES ASSUME Init PROVE IInv
    OBVIOUS
  <1>1. Types
    BY DEF Init, Types, States
  <1>2. record.job = None /\ page.job = None
    BY DEF Init
  <1>3. \A j \in Jobs : Stage(j) /\ Held(j)
    BY DEF Init, Stage, Held
  <1> QED
    BY <1>1, <1>2, <1>3 DEF Init, IInv, Truthful

-----------------------------------------------------------------------------
(* Reading the state *)

\* A correction names the same job, and changes the word only of a dead one.
LEMMA Correction ==
    ASSUME IInv
    PROVE  /\ Normalized \in States /\ Normalized.job = record.job
           /\ Normalized.status \in {record.status, "interrupted"}
           /\ Normalized.status # record.status =>
                 record.status = "running" /\ ~PidAlive(record.job)
           /\ Truthful(Normalized)
           /\ \A j \in Jobs : process[j] = "running" /\ start[j] = "recorded" =>
                 Normalized = record
  <1>1. CASE record.status = "running" /\ ~PidAlive(record.job)
    <2>1. Normalized = [record EXCEPT !.status = "interrupted"]
      BY <1>1 DEF Normalized
    <2>2. Normalized \in States /\ Normalized.job = record.job /\ Normalized.status = "interrupted"
      BY <2>1 DEF IInv, Types, States, Settled
    <2>3. Truthful(Normalized)
      BY <1>1, <2>2 DEF IInv, Truthful, PidAlive, Settled
    <2> QED
      BY <1>1, <2>2, <2>3 DEF IInv, Held, PidAlive
  <1>2. CASE ~(record.status = "running" /\ ~PidAlive(record.job))
    <2>1. Normalized = record
      BY <1>2 DEF Normalized
    <2> QED
      BY <2>1 DEF IInv, Types
  <1> QED
    BY <1>1, <1>2

\* A step of a reader: the record may be corrected, and the page may show it.
LEMMA ReadStep ==
    ASSUME IInv, record' \in {record, Normalized}, Truthful(page)', page' \in States,
           up' \in BOOLEAN, ~up' => lock' = None, waiting' \in Jobs \cup {None},
           UNCHANGED <<start, jobs, lock>>
    PROVE  IInv'
  <1>1. /\ record' \in States /\ record'.job = record.job
        /\ record'.status \in {record.status, "interrupted"}
    BY Correction DEF IInv, Types
  <1>2. Types'
    BY <1>1 DEF IInv, Types, jobs
  <1>3. ASSUME NEW j \in Jobs PROVE Stage(j)' /\ Held(j)'
    BY <1>1, Correction DEF IInv, Stage, Held, jobs
  <1>4. Truthful(record)'
    BY Correction DEF IInv, Truthful, jobs
  <1> QED
    BY <1>2, <1>3, <1>4 DEF IInv

-----------------------------------------------------------------------------
(* Steps of the agent *)

\* What a reply may put on the page.
LEMMA Shown ==
    ASSUME IInv, NEW j \in Jobs, NEW state \in States, Answer(j, state)
    PROVE  page' \in {page, state} /\ waiting' \in Jobs \cup {None} /\ page' \in States
  BY DEF Answer, browser, IInv, Types

LEMMA FailedShown == Failed \in States /\ Failed.job = None
  BY DEF Failed, States, Settled

LEMMA StartStep ==
    ASSUME IInv, NEW j \in Jobs, SendStart(j) \/ Refuse(j) \/ LaunchFails(j)
    PROVE  IInv'
  <1>1. /\ record' \in {record, Normalized} /\ page' \in {page, Failed}
        /\ waiting' \in Jobs \cup {None} /\ page' \in States
        /\ UNCHANGED <<up, jobs, lock>>
    <2>1. CASE SendStart(j)
      BY <2>1 DEF SendStart, files, IInv, Types
    <2>2. CASE Refuse(j) \/ LaunchFails(j)
      BY <2>2, Shown, FailedShown DEF Refuse, LaunchFails, files
    <2> QED
      BY <2>1, <2>2
  <1>2. \E next \in {"sent", "refused"} :
          start' = [start EXCEPT ![j] = next] /\ start[j] \in {"unsent", "sent"}
    BY DEF SendStart, Refuse, LaunchFails
  <1>3. /\ record' \in States /\ record'.job = record.job
        /\ record'.status \in {record.status, "interrupted"}
    BY <1>1, Correction DEF IInv, Types
  <1>4. Types'
    BY <1>1, <1>2, <1>3 DEF IInv, Types, jobs
  <1>5. ASSUME NEW i \in Jobs PROVE Stage(i)' /\ Held(i)'
    <2>1. CASE i = j
      BY <1>1, <1>2, <1>3, <2>1 DEF IInv, Types, Stage, Held, jobs
    <2>2. CASE i # j
      BY <1>1, <1>2, <1>3, <2>2, Correction DEF IInv, Types, Stage, Held, jobs
    <2> QED
      BY <2>1, <2>2
  <1>6. Truthful(record)' /\ Truthful(page)'
    BY <1>1, Correction, FailedShown DEF IInv, Truthful, jobs
  <1> QED
    BY <1>1, <1>4, <1>5, <1>6 DEF IInv

LEMMA LaunchStep ==
    ASSUME IInv, NEW j \in Jobs, Launch(j)
    PROVE  IInv'
  <1>1. /\ record' = Normalized /\ record'.status # "running"
        /\ start' = [start EXCEPT ![j] = "launched"]
        /\ process' = [process EXCEPT ![j] = "running"]
        /\ lock = None /\ lock' = j /\ up /\ up' = up
        /\ UNCHANGED <<outcome, watcher, page, waiting>>
    BY DEF Launch, Free, browser
  <1>2. Stage(j) /\ process[j] = "none" /\ watcher[j] = "none"
    BY DEF Launch, IInv, Stage
  <1>3. Types'
    BY <1>1, Correction DEF IInv, Types
  <1>4. ASSUME NEW i \in Jobs PROVE Stage(i)' /\ Held(i)'
    <2>1. CASE i = j
      BY <1>1, <1>2, <2>1 DEF IInv, Types, Stage, Held
    <2>2. CASE i # j
      <3>1. start[i] # "launched" /\ watcher[i] # "noting"
        BY <1>1, NullAssumption DEF IInv, Held
      <3>2. ~(process[i] = "running" /\ start[i] = "recorded")
        BY <1>1, Correction DEF IInv, Held
      <3> QED
        BY <1>1, <2>2, <3>1, <3>2 DEF IInv, Types, Stage, Held
    <2> QED
      BY <2>1, <2>2
  <1>5. record'.job # j /\ page'.job # j
    BY <1>1, <1>2, Correction, NullAssumption DEF IInv, Truthful
  <1>6. record'.job \in Jobs \cup {None} /\ page'.job \in Jobs \cup {None}
    BY <1>3 DEF Types, States
  <1>7. Truthful(record)' /\ Truthful(page)'
    BY <1>1, <1>5, <1>6, Correction DEF IInv, Types, Truthful
  <1> QED
    BY <1>1, <1>3, <1>4, <1>7 DEF IInv

LEMMA RecordStep ==
    ASSUME IInv, NEW j \in Jobs, Record(j)
    PROVE  IInv'
  <1>1. /\ record' = [status |-> "running", job |-> j]
        /\ start[j] = "launched" /\ start' = [start EXCEPT ![j] = "recorded"]
        /\ watcher' = [watcher EXCEPT ![j] = "waiting"]
        /\ lock' = None /\ UNCHANGED <<up, process, outcome>>
    BY DEF Record
  <1>2. record' \in States /\ record'.job = j /\ record'.status = "running"
    BY <1>1 DEF States
  <1>3. page' \in {page, record'} /\ page' \in States /\ waiting' \in Jobs \cup {None}
    BY <1>2, Shown DEF Record
  <1>4. lock = j /\ record.status # "running" /\ process[j] # "none"
    BY <1>1 DEF IInv, Held, Stage
  <1>5. Types'
    BY <1>1, <1>2, <1>3 DEF IInv, Types
  <1>6. ASSUME NEW i \in Jobs PROVE Stage(i)' /\ Held(i)'
    <2>1. CASE i = j
      BY <1>1, <1>2, <1>4, <2>1 DEF IInv, Types, Stage, Held
    <2>2. CASE i # j
      <3>1. start[i] # "launched" /\ watcher[i] # "noting"
        BY <1>4, <2>2 DEF IInv, Held
      <3>2. ~(process[i] = "running" /\ start[i] = "recorded")
        BY <1>4 DEF IInv, Held
      <3> QED
        BY <1>1, <2>2, <3>1, <3>2 DEF IInv, Types, Stage, Held
    <2> QED
      BY <2>1, <2>2
  <1>7. Truthful(record)' /\ Truthful(page)'
    BY <1>1, <1>2, <1>3, <1>4 DEF IInv, Truthful, Settled
  <1> QED
    BY <1>1, <1>5, <1>6, <1>7 DEF IInv

LEMMA RecordFailsStep ==
    ASSUME IInv, NEW j \in Jobs, RecordFails(j)
    PROVE  IInv'
  <1>1. /\ start[j] = "launched" /\ start' = [start EXCEPT ![j] = "unrecorded"]
        /\ lock' = None /\ UNCHANGED <<up, record, process, outcome, watcher>>
    BY DEF RecordFails, files, jobs
  <1>2. page' \in {page, Failed} /\ page' \in States /\ waiting' \in Jobs \cup {None}
    BY Shown, FailedShown DEF RecordFails
  <1>3. Types'
    BY <1>1, <1>2 DEF IInv, Types
  <1>4. ASSUME NEW i \in Jobs PROVE Stage(i)' /\ Held(i)'
    <2>1. CASE i = j
      BY <1>1, <2>1 DEF IInv, Types, Stage, Held
    <2>2. CASE i # j
      <3>1. start[i] # "launched" /\ watcher[i] # "noting"
        BY <1>1, <2>2 DEF IInv, Held
      <3> QED
        BY <1>1, <2>2, <3>1 DEF IInv, Types, Stage, Held
    <2> QED
      BY <2>1, <2>2
  <1>5. Truthful(record)' /\ Truthful(page)'
    BY <1>1, <1>2, FailedShown DEF IInv, Truthful
  <1> QED
    BY <1>1, <1>3, <1>4, <1>5 DEF IInv

LEMMA ExitStep ==
    ASSUME IInv, NEW j \in Jobs, NEW result \in {"success", "failed"}, Exit(j, result)
    PROVE  IInv'
  <1>1. /\ process[j] = "running" /\ process' = [process EXCEPT ![j] = "zombie"]
        /\ outcome' = [outcome EXCEPT ![j] = result]
        /\ UNCHANGED <<up, record, start, watcher, lock, page, waiting>>
    BY DEF Exit, files, browser
  <1>2. Types'
    BY <1>1 DEF IInv, Types
  <1>3. ASSUME NEW i \in Jobs PROVE Stage(i)' /\ Held(i)'
    BY <1>1 DEF IInv, Types, Stage, Held
  <1>4. ASSUME NEW state \in {record, page}
        PROVE  state.job # None =>
                 /\ process'[state.job] # "none"
                 /\ state.status \in Settled =>
                       /\ process'[state.job] # "running"
                       /\ state.status # "interrupted" => outcome'[state.job] = state.status
    <2>1. state \in States /\ Truthful(state)
      BY DEF IInv, Types
    <2>2. CASE state.job = j
      BY <1>1, <2>1, <2>2 DEF Truthful, IInv, Types
    <2>3. CASE state.job # j
      BY <1>1, <2>1, <2>3 DEF Truthful, IInv, Types
    <2> QED
      BY <2>2, <2>3
  <1> QED
    BY <1>1, <1>2, <1>3, <1>4 DEF IInv, Truthful

\* A step of a watcher that leaves the record alone.
LEMMA WatchStep ==
    ASSUME IInv, NEW j \in Jobs, NoteJob(j) \/ LeaveUnsettled(j) \/ Reap(j)
    PROVE  IInv'
  <1>1. UNCHANGED <<up, record, start, outcome, page, waiting>>
    BY DEF NoteJob, LeaveUnsettled, Reap, files, browser
  <1>2. CASE Reap(j)
    <2>1. /\ watcher[j] = "waiting" /\ process[j] = "zombie" /\ UNCHANGED lock
          /\ process' = [process EXCEPT ![j] = "gone"]
          /\ watcher' = [watcher EXCEPT ![j] = "reaped"]
      BY <1>2 DEF Reap
    <2>2. Types'
      BY <1>1, <2>1 DEF IInv, Types
    <2>3. ASSUME NEW i \in Jobs PROVE Stage(i)' /\ Held(i)'
      BY <1>1, <2>1 DEF IInv, Types, Stage, Held
    <2>4. Truthful(record)' /\ Truthful(page)'
      BY <1>1, <2>1 DEF IInv, Types, Truthful
    <2> QED
      BY <1>1, <2>1, <2>2, <2>3, <2>4 DEF IInv
  <1>3. CASE NoteJob(j) \/ LeaveUnsettled(j)
    <2>1. /\ watcher[j] \in {"noting", "reaped"} /\ UNCHANGED process
          /\ watcher' = [watcher EXCEPT ![j] = "ended"]
          /\ lock' = lock \/ (watcher[j] = "noting" /\ lock' = None)
      BY <1>3 DEF NoteJob, LeaveUnsettled
    <2>2. Types'
      BY <1>1, <2>1 DEF IInv, Types
    <2>3. ASSUME NEW i \in Jobs PROVE Stage(i)' /\ Held(i)'
      <3>1. CASE i = j
        BY <1>1, <2>1, <3>1 DEF IInv, Types, Stage, Held
      <3>2. CASE i # j
        BY <1>1, <2>1, <3>2 DEF IInv, Types, Stage, Held
      <3> QED
        BY <3>1, <3>2
    <2>4. Truthful(record)' /\ Truthful(page)'
      BY <1>1, <2>1 DEF IInv, Truthful
    <2> QED
      BY <1>1, <2>1, <2>2, <2>3, <2>4 DEF IInv
  <1> QED
    BY <1>2, <1>3

LEMMA SettleStep ==
    ASSUME IInv, NEW j \in Jobs, Settle(j)
    PROVE  IInv'
  <1>1. /\ up /\ lock = None /\ lock' = j /\ watcher[j] = "reaped" /\ record.job = j
        /\ record' = [record EXCEPT !.status = outcome[j]]
        /\ watcher' = [watcher EXCEPT ![j] = "noting"]
        /\ UNCHANGED <<up, start, process, outcome, page, waiting>>
    BY DEF Settle, Free, browser
  <1>2. process[j] = "gone" /\ outcome[j] \in {"success", "failed"} /\ start[j] = "recorded"
    BY <1>1 DEF IInv, Types, Stage
  <1>3. record' \in States /\ record'.job = j /\ record'.status = outcome[j]
    BY <1>1, <1>2 DEF IInv, Types, States, Settled
  <1>4. Types'
    BY <1>1, <1>3 DEF IInv, Types
  <1>5. ASSUME NEW i \in Jobs PROVE Stage(i)' /\ Held(i)'
    <2>1. CASE i = j
      BY <1>1, <1>2, <2>1 DEF IInv, Types, Stage, Held
    <2>2. CASE i # j
      <3>1. start[i] # "launched" /\ watcher[i] # "noting"
        BY <1>1, NullAssumption DEF IInv, Held
      <3>2. ~(process[i] = "running" /\ start[i] = "recorded")
        BY <1>1, <2>2 DEF IInv, Held
      <3> QED
        BY <1>1, <2>2, <3>1, <3>2 DEF IInv, Types, Stage, Held
    <2> QED
      BY <2>1, <2>2
  <1>6. Truthful(record)' /\ Truthful(page)'
    BY <1>1, <1>2, <1>3 DEF IInv, Truthful, Settled
  <1> QED
    BY <1>1, <1>4, <1>5, <1>6 DEF IInv

LEMMA CrashStep ==
    ASSUME IInv, Crash
    PROVE  IInv'
  <1>1. page' \in {page, Failed} /\ page' \in States
    BY FailedShown DEF Crash, IInv, Types
  <1>2. start' \in [Jobs -> {"unsent", "sent", "launched", "recorded", "unrecorded", "refused"}]
    BY DEF Crash, IInv, Types
  <1>3. Types'
    BY <1>1, <1>2 DEF Crash, files, IInv, Types
  <1>4. ASSUME NEW i \in Jobs PROVE Stage(i)' /\ Held(i)'
    <2>1. /\ start'[i] = CASE start[i] = "sent" -> "refused"
                           [] start[i] = "launched" -> "unrecorded"
                           [] OTHER -> start[i]
          /\ process'[i] = (IF process[i] = "none" THEN "none" ELSE "gone")
          /\ watcher'[i] = (IF watcher[i] = "none" THEN "none" ELSE "ended")
      BY DEF Crash
    <2> QED
      BY <2>1 DEF IInv, Types, Stage, Held
  <1>5. Truthful(record)' /\ Truthful(page)'
    <2>1. record' = record /\ outcome' = outcome
      BY DEF Crash, files
    <2>2. \A i \in Jobs : /\ process[i] # "none" => process'[i] = "gone"
                          /\ process[i] = "none" => process'[i] = "none"
      BY DEF Crash
    <2>3. record.job \in Jobs \cup {None} /\ page.job \in Jobs \cup {None}
      BY DEF IInv, Types, States
    <2>4. Truthful(record)'
      BY <2>1, <2>2, <2>3 DEF IInv, Truthful
    <2>5. Truthful(page)'
      BY <1>1, <2>1, <2>2, <2>3, FailedShown DEF IInv, Truthful
    <2> QED
      BY <2>4, <2>5
  <1> QED
    BY <1>3, <1>4, <1>5 DEF IInv, Crash

LEMMA Inductive == IInv /\ [Next]_vars => IInv'
  <1> SUFFICES ASSUME IInv, [Next]_vars PROVE IInv'
    OBVIOUS
  <1>0. ASSUME UNCHANGED <<up, record, start, jobs, lock, browser>> PROVE IInv'
    BY <1>0 DEF IInv, Types, Stage, Held, Truthful, jobs, browser
  <1>1. CASE UNCHANGED vars
    BY <1>0, <1>1 DEF vars, files
  <1>2. ASSUME NEW r \in Restarts, RestartService(r) \/ NoteRestart(r) PROVE IInv'
    BY <1>0, <1>2 DEF RestartService, NoteRestart, files
  <1>3. CASE ReusePid \/ FreePid
    BY <1>0, <1>3 DEF ReusePid, FreePid, files
  <1>4. ASSUME NEW r \in Restarts, AllowRestart(r) PROVE IInv'
    BY <1>4, ReadStep DEF AllowRestart, browser, IInv, Types, Truthful, jobs
  <1>5. CASE ReadStatus \/ RestartAgent
    BY <1>5, ReadStep DEF ReadStatus, RestartAgent, Free, browser, IInv, Types, Truthful, jobs
  <1>6. ASSUME NEW j \in Jobs, GiveUp(j) PROVE IInv'
    <2>1. page'.job = None /\ page' \in States
      BY <1>6, FailedShown DEF GiveUp
    <2>2. Truthful(page)'
      BY <2>1 DEF Truthful
    <2> QED
      BY <1>6, <2>1, <2>2, ReadStep DEF GiveUp, files, IInv, Types
  <1>7. CASE Poll \/ Load
    <2>1. CASE page' = Normalized
      <3>1. page' \in States /\ Truthful(page)'
        BY <1>7, <2>1, Correction DEF Poll, Load, Truthful, jobs
      <3> QED
        BY <1>7, <3>1, ReadStep DEF Poll, Load, IInv, Types
    <2>2. CASE page' = [status |-> "unavailable", job |-> None]
      <3>1. page' \in States /\ page'.job = None
        BY <2>2 DEF States
      <3>2. Truthful(page)'
        BY <3>1 DEF Truthful
      <3> QED
        BY <1>7, <3>1, <3>2, ReadStep DEF Poll, Load, IInv, Types
    <2> QED
      BY <1>7, <2>1, <2>2 DEF Poll, Load
  <1>8. ASSUME NEW j \in Jobs, SendStart(j) \/ Start(j) PROVE IInv'
    BY <1>8, StartStep, LaunchStep, RecordStep, RecordFailsStep DEF Start
  <1>9. ASSUME NEW j \in Jobs, Ends(j) \/ Watch(j) PROVE IInv'
    BY <1>9, ExitStep, WatchStep, SettleStep DEF Ends, Watch
  <1> QED
    BY <1>1, <1>2, <1>3, <1>4, <1>5, <1>6, <1>7, <1>8, <1>9, CrashStep DEF Next, Restart

\* The invariant, for every behaviour of handlers, watchers, readers and crashes.
THEOREM Invariance == Spec => []IInv
  <1> HIDE DEF IInv
  <1> QED
    BY Initially, Inductive, PTL DEF Spec

\* Two jobs run together only when the record of one could not be written.
THEOREM JobsExclude == Spec => []OneJob
  <1>1. IInv => OneJob
    <2> SUFFICES ASSUME IInv, NEW i \in Jobs, NEW j \in Jobs, Running(i), Running(j), i # j,
                        "unrecorded" \notin {start[i], start[j]}
                 PROVE  FALSE
      BY DEF OneJob
    <2>1. start[i] \in {"launched", "recorded"} /\ start[j] \in {"launched", "recorded"}
      BY DEF Running, IInv, Types, Stage
    <2> QED
      BY <2>1 DEF Running, IInv, Held
  <1> HIDE DEF IInv, OneJob
  <1> QED
    BY <1>1, Invariance, PTL

\* No verdict, in the state file or on the page, is about a job that may still
\* run, and each one is what the job's exit code gave.
THEOREM VerdictsTrue == Spec => []VerdictIsTrue
  <1>1. IInv => VerdictIsTrue
    BY DEF IInv, Truthful, VerdictIsTrue
  <1> HIDE DEF IInv, VerdictIsTrue
  <1> QED
    BY <1>1, Invariance, PTL

-----------------------------------------------------------------------------
(* The history *)

Entries == (Jobs \cup Restarts) \X {"success", "failed"}

\* A job whose watcher is through with it; that it stays.
Over(j) == watcher[j] = "ended" /\ process[j] = "gone"

\* What a list of entries says of a job is said once, after its watcher is through.
Told(list) ==
    \A k \in 1..Len(list) : list[k][1] \in Jobs =>
        /\ outcome[list[k][1]] = list[k][2] /\ Over(list[k][1])
        /\ \A l \in 1..Len(list) : list[l][1] = list[k][1] => l = k

\* What is on the disk, what writers hold in memory, and what a watcher is to note.
Ledger ==
    /\ history \in Seq(Entries) /\ Len(history) <= HistoryLength /\ Told(history)
    /\ read \in [Jobs \cup Restarts -> Seq(Entries)]
    /\ \A w \in Jobs \cup Restarts : Told(read[w])
    /\ \A j \in Jobs : watcher[j] = "noting" => record.job = j /\ record.status = outcome[j]

LEMMA NobodyNotes ==
    ASSUME IInv, lock = None, NEW j \in Jobs
    PROVE  watcher[j] # "noting"
  BY NullAssumption DEF IInv, Held

LEMMA InitialLedger == Init => Ledger
  <1> SUFFICES ASSUME Init PROVE Ledger
    OBVIOUS
  <1>1. <<>> \in Seq(Entries) /\ Len(<<>>) = 0 /\ Told(<<>>)
    BY DEF Told
  <1>2. history = <<>> /\ \A w \in Jobs \cup Restarts : read[w] = <<>>
    BY DEF Init
  <1>3. read \in [Jobs \cup Restarts -> Seq(Entries)]
    BY <1>1 DEF Init
  <1>4. \A j \in Jobs : watcher[j] # "noting"
    BY DEF Init
  <1> QED
    BY <1>1, <1>2, <1>3, <1>4, HistoryAssumption DEF Ledger

\* No step takes back what a list has told.
LEMMA StillTold ==
    ASSUME \A j \in Jobs : Over(j) => Over(j)' /\ outcome'[j] = outcome[j],
           NEW list, Told(list)
    PROVE  \A k \in 1..Len(list) : list[k][1] \in Jobs =>
              /\ outcome'[list[k][1]] = list[k][2] /\ Over(list[k][1])'
              /\ \A l \in 1..Len(list) : list[l][1] = list[k][1] => l = k
  BY DEF Told, Over

\* A step that writes no list.
LEMMA QuietLedger ==
    ASSUME Ledger, UNCHANGED <<history, read>>,
           \A j \in Jobs : Over(j) => Over(j)' /\ outcome'[j] = outcome[j],
           \A j \in Jobs : watcher'[j] = "noting" =>
               record'.job = j /\ record'.status = outcome'[j]
    PROVE  Ledger'
  <1>1. Told(history)'
    BY StillTold DEF Ledger, Told
  <1>2. ASSUME NEW w \in Jobs \cup Restarts PROVE Told(read[w])'
    BY StillTold DEF Ledger, Told
  <1> QED
    BY <1>1, <1>2 DEF Ledger

\* A writer that reads the history holds what the history tells.
LEMMA ReadLedger ==
    ASSUME Ledger, NEW w \in Jobs \cup Restarts, read' = [read EXCEPT ![w] = history],
           UNCHANGED <<history, process, outcome>>,
           \A j \in Jobs : Over(j) => Over(j)',
           \A j \in Jobs : watcher'[j] = "noting" =>
               record'.job = j /\ record'.status = outcome[j]
    PROVE  Ledger'
  <1>1. Told(history)'
    BY StillTold DEF Ledger, Told
  <1>2. ASSUME NEW v \in Jobs \cup Restarts PROVE Told(read[v])'
    <2>1. read'[v] = history \/ read'[v] = read[v]
      BY DEF Ledger
    <2>2. Told(read'[v])
      BY <2>1 DEF Ledger
    <2> QED
      BY <2>2, StillTold DEF Told
  <1>3. read' \in [Jobs \cup Restarts -> Seq(Entries)]
    BY DEF Ledger
  <1> QED
    BY <1>1, <1>2, <1>3 DEF Ledger

LEMMA MinOfTwo ==
    ASSUME NEW a \in Int, NEW b \in Int
    PROVE  Min({a, b}) \in {a, b} /\ Min({a, b}) <= a /\ Min({a, b}) <= b
  BY DEF Min

\* The new entry and what follows it of the list, and nothing else.
LEMMA CutEntries ==
    ASSUME NEW list \in Seq(Entries), NEW entry \in Entries,
           NEW cut \in 0..Len(list) + 1
    PROVE  /\ SubSeq(<<entry>> \o list, 1, cut) \in Seq(Entries)
           /\ Len(SubSeq(<<entry>> \o list, 1, cut)) = cut
           /\ \A k \in 1..cut : SubSeq(<<entry>> \o list, 1, cut)[k] =
                                  IF k = 1 THEN entry ELSE list[k - 1]
  <1> DEFINE all == <<entry>> \o list
  <1>1. <<entry>> \in Seq(Entries) /\ Len(<<entry>>) = 1 /\ <<entry>>[1] = entry
    OBVIOUS
  <1>2. all \in Seq(Entries) /\ Len(all) = Len(list) + 1
    BY <1>1
  <1>3. \A k \in 1..Len(list) + 1 : all[k] = IF k = 1 THEN entry ELSE list[k - 1]
    BY <1>1
  <1> HIDE DEF all
  <1>4. Len(SubSeq(all, 1, cut)) = cut /\ \A k \in 1..cut : SubSeq(all, 1, cut)[k] = all[k]
    BY <1>2
  <1>5. SubSeq(all, 1, cut) \in Seq(Entries)
    BY <1>2
  <1> QED
    BY <1>3, <1>4, <1>5 DEF all

\* A writer adds an entry: about a restart, or about the job it has seen the end of.
LEMMA NoteLedger ==
    ASSUME Ledger, NEW w \in Jobs \cup Restarts, NEW subject \in Jobs \cup Restarts,
           NEW status \in {"success", "failed"}, Note(w, subject, status),
           UNCHANGED <<process, outcome>>,
           \A j \in Jobs : Over(j) => Over(j)',
           \A j \in Jobs : watcher'[j] = "noting" =>
               record'.job = j /\ record'.status = outcome[j],
           subject \in Jobs =>
               ~Over(subject) /\ Over(subject)' /\ outcome[subject] = status
    PROVE  Ledger'
  <1>0. PICK list : list = read[w]
    OBVIOUS
  <1> DEFINE entry == <<subject, status>>
             entries == <<entry>> \o list
             cut == Min({Len(entries), HistoryLength})
  <1>1. entry \in Entries /\ entry[1] = subject /\ entry[2] = status
    BY DEF Entries
  <1>2. list \in Seq(Entries) /\ Told(list)
    BY <1>0 DEF Ledger
  <1>3. history' = SubSeq(entries, 1, cut) /\ read' = [read EXCEPT ![w] = <<>>]
    BY <1>0 DEF Note
  <1>4. Len(entries) = Len(list) + 1 /\ Len(list) \in Nat
    BY <1>1, <1>2
  <1> HIDE DEF entry, entries
  <1>5. cut \in 1..Len(list) + 1 /\ cut <= HistoryLength
    <2>1. PICK length \in Int : length = Len(entries)
      BY <1>4
    <2> HistoryLength \in Int
      BY HistoryAssumption
    <2>2. /\ Min({length, HistoryLength}) \in {length, HistoryLength}
          /\ Min({length, HistoryLength}) <= length
          /\ Min({length, HistoryLength}) <= HistoryLength
      BY MinOfTwo
    <2>3. cut = Min({length, HistoryLength})
      BY <2>1
    <2> HIDE DEF cut
    <2> QED
      BY <1>4, <2>1, <2>2, <2>3, HistoryAssumption
  <1> HIDE DEF cut
  <1>6. /\ history' \in Seq(Entries) /\ Len(history') = cut
        /\ \A k \in 1..cut : history'[k] = IF k = 1 THEN entry ELSE list[k - 1]
    BY <1>1, <1>2, <1>3, <1>5, CutEntries DEF entries
  <1>7. \A k \in 1..Len(list) : list[k][1] \in Jobs =>
              /\ outcome'[list[k][1]] = list[k][2]
              /\ watcher'[list[k][1]] = "ended" /\ process'[list[k][1]] = "gone"
              /\ \A l \in 1..Len(list) : list[l][1] = list[k][1] => l = k
    BY <1>2 DEF Told, Over
  <1>8. \A k \in 1..Len(list) : list[k][1] = subject => subject \notin Jobs
    BY <1>2 DEF Told
  <1>9. Told(history)'
    <2> SUFFICES ASSUME NEW k \in 1..cut, history'[k][1] \in Jobs
                 PROVE  /\ outcome'[history'[k][1]] = history'[k][2]
                        /\ watcher'[history'[k][1]] = "ended" /\ process'[history'[k][1]] = "gone"
                        /\ \A l \in 1..cut : history'[l][1] = history'[k][1] => l = k
      BY <1>6 DEF Told, Over
    <2>1. CASE k = 1
      <3>1. history'[k] = entry /\ subject \in Jobs
        BY <1>1, <1>6, <2>1
      <3>2. ASSUME NEW l \in 1..cut, history'[l][1] = subject, l # 1 PROVE FALSE
        <4>1. history'[l] = list[l - 1] /\ l - 1 \in 1..Len(list)
          BY <1>4, <1>5, <1>6, <3>2
        <4> QED
          BY <1>8, <3>1, <3>2, <4>1
      <3> QED
        BY <1>1, <2>1, <3>1, <3>2 DEF Over
    <2>2. CASE k # 1
      <3>1. history'[k] = list[k - 1] /\ k - 1 \in 1..Len(list)
        BY <1>4, <1>5, <1>6, <2>2
      <3>2. ASSUME NEW l \in 1..cut, history'[l][1] = history'[k][1] PROVE l = k
        <4>1. CASE l = 1
          BY <1>1, <1>6, <1>8, <2>2, <3>1, <3>2, <4>1
        <4>2. CASE l # 1
          <5>1. history'[l] = list[l - 1] /\ l - 1 \in 1..Len(list)
            BY <1>4, <1>5, <1>6, <4>2
          <5>2. l - 1 = k - 1
            BY <1>7, <3>1, <3>2, <5>1
          <5> QED
            BY <5>2
        <4> QED
          BY <4>1, <4>2
      <3> QED
        BY <1>7, <3>1, <3>2
    <2> QED
      BY <2>1, <2>2
  <1>10. read' \in [Jobs \cup Restarts -> Seq(Entries)]
    BY <1>3 DEF Ledger
  <1>11. ASSUME NEW v \in Jobs \cup Restarts PROVE Told(read[v])'
    <2>1. CASE v = w
      BY <1>3, <2>1 DEF Ledger, Told
    <2>2. CASE v # w
      <3>1. read'[v] = read[v] /\ Told(read'[v])
        BY <1>3, <2>2 DEF Ledger
      <3> QED
        BY <3>1, StillTold DEF Told
    <2> QED
      BY <2>1, <2>2
  <1> QED
    BY <1>5, <1>6, <1>9, <1>10, <1>11 DEF Ledger

-----------------------------------------------------------------------------
(* Each step keeps the ledger *)

LEMMA StartLedger ==
    ASSUME IInv, Ledger, NEW j \in Jobs, SendStart(j) \/ GiveUp(j) \/ Start(j)
    PROVE  Ledger'
  <1>1. CASE SendStart(j) \/ GiveUp(j) \/ Refuse(j) \/ RecordFails(j)
    BY <1>1, QuietLedger
    DEF SendStart, GiveUp, Refuse, RecordFails, files, jobs, Ledger, Over
  <1>2. CASE LaunchFails(j)
    <2>1. UNCHANGED <<history, read, watcher, process, outcome>> /\ lock = None
      BY <1>2 DEF LaunchFails, Free, jobs
    <2> QED
      BY <2>1, NobodyNotes, QuietLedger DEF Over
  <1>3. CASE Launch(j)
    <2>1. /\ UNCHANGED <<history, read, watcher, outcome>> /\ lock = None
          /\ process' = [process EXCEPT ![j] = "running"]
      BY <1>3 DEF Launch, Free
    <2>2. process[j] = "none"
      BY <1>3 DEF Launch, IInv, Stage
    <2>3. \A i \in Jobs : Over(i) => Over(i)'
      BY <2>1, <2>2 DEF Over, IInv, Types
    <2> QED
      BY <2>1, <2>3, NobodyNotes, QuietLedger
  <1>4. CASE Record(j)
    <2>1. /\ UNCHANGED <<history, read, process, outcome>>
          /\ watcher' = [watcher EXCEPT ![j] = "waiting"]
      BY <1>4 DEF Record
    <2>2. watcher[j] = "none" /\ lock = j
      BY <1>4 DEF Record, IInv, Stage, Held
    <2>3. \A i \in Jobs : watcher'[i] # "noting"
      BY <2>1, <2>2 DEF IInv, Types, Held
    <2>4. \A i \in Jobs : Over(i) => Over(i)'
      BY <2>1, <2>2 DEF Over, IInv, Types
    <2> QED
      BY <2>1, <2>3, <2>4, QuietLedger
  <1> QED
    BY <1>1, <1>2, <1>3, <1>4 DEF Start

LEMMA WatchLedger ==
    ASSUME IInv, Ledger, NEW j \in Jobs, Ends(j) \/ Watch(j)
    PROVE  Ledger'
  <1>1. CASE Ends(j)
    <2>1. PICK result \in {"success", "failed"} : Exit(j, result)
      BY <1>1 DEF Ends
    <2>2. /\ UNCHANGED <<history, read, record, watcher>> /\ process[j] = "running"
          /\ process' = [process EXCEPT ![j] = "zombie"]
          /\ outcome' = [outcome EXCEPT ![j] = result]
      BY <2>1 DEF Exit, files
    <2>3. \A i \in Jobs : Over(i) => Over(i)' /\ outcome'[i] = outcome[i]
      BY <2>2 DEF Over, IInv, Types
    <2>4. \A i \in Jobs : watcher[i] = "noting" => i # j
      BY <2>2 DEF IInv, Stage
    <2> QED
      BY <2>2, <2>3, <2>4, QuietLedger DEF Ledger, IInv, Types
  <1>2. CASE Reap(j)
    <2>1. /\ UNCHANGED <<history, read, record, outcome>> /\ watcher[j] = "waiting"
          /\ process' = [process EXCEPT ![j] = "gone"]
          /\ watcher' = [watcher EXCEPT ![j] = "reaped"]
      BY <1>2 DEF Reap, files
    <2> QED
      BY <2>1, QuietLedger DEF Ledger, Over, IInv, Types
  <1>3. CASE LeaveUnsettled(j)
    <2>1. /\ UNCHANGED <<history, read, record, outcome, process>>
          /\ watcher' = [watcher EXCEPT ![j] = "ended"]
      BY <1>3 DEF LeaveUnsettled, files
    <2> QED
      BY <2>1, QuietLedger DEF Ledger, Over, IInv, Types
  <1>4. CASE Settle(j)
    <2>1. /\ UNCHANGED <<history, outcome, process>> /\ lock = None
          /\ watcher[j] = "reaped" /\ record.job = j
          /\ watcher' = [watcher EXCEPT ![j] = "noting"]
          /\ record' = [record EXCEPT !.status = outcome[j]]
          /\ read' = [read EXCEPT ![j] = history]
      BY <1>4 DEF Settle, Free
    <2>2. record'.job = j /\ record'.status = outcome[j]
      BY <2>1 DEF IInv, Types, States
    <2>3. \A i \in Jobs : watcher'[i] = "noting" => i = j
      BY <2>1, NobodyNotes DEF IInv, Types
    <2>4. \A i \in Jobs : Over(i) => Over(i)'
      BY <2>1 DEF Over, IInv, Types
    <2> QED
      BY <2>1, <2>2, <2>3, <2>4, ReadLedger
  <1>5. CASE NoteJob(j)
    <2>1. /\ UNCHANGED <<record, outcome, process>> /\ watcher[j] = "noting"
          /\ watcher' = [watcher EXCEPT ![j] = "ended"]
          /\ Note(j, record.job, record.status)
      BY <1>5 DEF NoteJob
    <2>2. record.job = j /\ record.status = outcome[j]
      BY <2>1 DEF Ledger
    <2>3. process[j] = "gone" /\ outcome[j] \in {"success", "failed"}
      BY <2>1 DEF IInv, Stage
    <2>4. ~Over(j) /\ Over(j)' /\ \A i \in Jobs : Over(i) => Over(i)'
      BY <2>1, <2>3 DEF Over, IInv, Types
    <2>5. \A i \in Jobs : watcher'[i] = "noting" => watcher[i] = "noting"
      BY <2>1 DEF IInv, Types
    <2>6. Note(j, j, outcome[j])
      BY <2>1, <2>2
    <2> QED
      BY <2>1, <2>3, <2>4, <2>5, <2>6, NoteLedger DEF Ledger
  <1> QED
    BY <1>1, <1>2, <1>3, <1>4, <1>5 DEF Watch

LEMMA RestartLedger ==
    ASSUME IInv, Ledger, NEW r \in Restarts, Restart(r)
    PROVE  Ledger'
  <1>1. CASE AllowRestart(r)
    <2>1. UNCHANGED <<history, read, watcher, process, outcome>> /\ lock = None
      BY <1>1 DEF AllowRestart, Free, jobs
    <2> QED
      BY <2>1, NobodyNotes, QuietLedger DEF Over
  <1>2. CASE RestartService(r)
    <2>1. UNCHANGED <<history, record, watcher, process, outcome>>
      BY <1>2 DEF RestartService, files, jobs
    <2>2. CASE UNCHANGED read
      BY <2>1, <2>2, QuietLedger DEF Ledger, Over
    <2>3. CASE read' = [read EXCEPT ![r] = history]
      BY <2>1, <2>3, ReadLedger DEF Ledger, Over
    <2> QED
      BY <1>2, <2>2, <2>3 DEF RestartService
  <1>3. CASE NoteRestart(r)
    <2>1. UNCHANGED <<record, watcher, process, outcome>>
      BY <1>3 DEF NoteRestart, jobs
    <2>2. PICK status \in {"success", "failed"} : Note(r, r, status)
      BY <1>3 DEF NoteRestart
    <2>3. r \notin Jobs
      BY NullAssumption
    <2> QED
      BY <2>1, <2>2, <2>3, NoteLedger DEF Ledger, Over
  <1> QED
    BY <1>1, <1>2, <1>3 DEF Restart

\* Jobs that die with the agent are over; what their watchers held in memory is lost.
LEMMA CrashLedger ==
    ASSUME IInv, Ledger, Crash
    PROVE  Ledger'
  <1>1. /\ UNCHANGED <<history, record, outcome>>
        /\ read' = [w \in Jobs \cup Restarts |-> <<>>]
        /\ process' = [j \in Jobs |-> IF process[j] = "none" THEN "none" ELSE "gone"]
        /\ watcher' = [j \in Jobs |-> IF watcher[j] = "none" THEN "none" ELSE "ended"]
    BY DEF Crash, files
  <1>2. \A j \in Jobs : Over(j) => Over(j)' /\ outcome'[j] = outcome[j]
    BY <1>1 DEF Over
  <1>3. Told(history)'
    BY <1>1, <1>2, StillTold DEF Ledger, Told
  <1>4. read' \in [Jobs \cup Restarts -> Seq(Entries)]
    BY <1>1
  <1>5. \A w \in Jobs \cup Restarts : Told(read[w])'
    BY <1>1 DEF Told
  <1>6. \A j \in Jobs : watcher'[j] # "noting"
    BY <1>1
  <1> QED
    BY <1>1, <1>3, <1>4, <1>5, <1>6 DEF Ledger

LEMMA LedgerInductive == IInv /\ Ledger /\ [Next]_vars => Ledger'
  <1> SUFFICES ASSUME IInv, Ledger, [Next]_vars PROVE Ledger'
    OBVIOUS
  <1>1. CASE UNCHANGED <<history, read, record, jobs>>
    BY <1>1, QuietLedger DEF jobs, Ledger, Over
  <1>2. CASE ReadStatus \/ RestartAgent \/ Poll \/ Load
    <2>1. CASE UNCHANGED record
      BY <1>1, <1>2, <2>1 DEF ReadStatus, RestartAgent, Poll, Load
    <2>2. CASE lock = None
      <3>1. UNCHANGED <<history, read, watcher, process, outcome>>
        BY <1>2 DEF ReadStatus, RestartAgent, Poll, Load, jobs
      <3> QED
        BY <2>2, <3>1, NobodyNotes, QuietLedger DEF Over
    <2> QED
      BY <1>2, <2>1, <2>2 DEF ReadStatus, RestartAgent, Poll, Load, Free, IInv
  <1>3. CASE ReusePid \/ FreePid \/ UNCHANGED vars
    BY <1>1, <1>3 DEF ReusePid, FreePid, vars, files
  <1> QED
    BY <1>2, <1>3, StartLedger, WatchLedger, RestartLedger, CrashLedger DEF Next

LEMMA LedgerInvariance == Spec => []Ledger
  <1> HIDE DEF IInv, Ledger
  <1> QED
    BY InitialLedger, LedgerInductive, Invariance, PTL DEF Spec

\* What the history says of a job is what its exit code gave, and is said once,
\* however watchers, restarts of services and of the agent write it.
THEOREM HistoryTrue == Spec => []HistoryIsTrue
  <1>1. Ledger => HistoryIsTrue
    BY DEF Ledger, Told, HistoryIsTrue
  <1> HIDE DEF Ledger, HistoryIsTrue
  <1> QED
    BY <1>1, LedgerInvariance, PTL

\* The rest of the variables, which no other invariant is about.
Others ==
    /\ squatter \in BOOLEAN
    /\ desk \in [Restarts -> {"idle", "acting", "noting", "done"}]
    /\ crashes \in 0..MaxCrashes /\ faults \in 0..MaxFaults

LEMMA OthersInductive == Others /\ [Next]_vars => Others'
  <1> SUFFICES ASSUME Others, [Next]_vars PROVE Others'
    OBVIOUS
  <1>1. CASE UNCHANGED <<squatter, desk, crashes, faults>>
    BY <1>1 DEF Others
  <1>2. ASSUME NEW j \in Jobs, SendStart(j) \/ GiveUp(j) \/ Start(j) PROVE Others'
    <2>1. CASE RecordFails(j)
      BY <2>1, BoundAssumption DEF RecordFails, Others
    <2> QED
      BY <1>1, <1>2, <2>1 DEF Start, SendStart, GiveUp, Refuse, Launch, LaunchFails, Record
  <1>3. ASSUME NEW j \in Jobs, Ends(j) \/ Watch(j) PROVE Others'
    <2>1. CASE Settle(j)
      BY <2>1 DEF Settle, Others
    <2>2. CASE LeaveUnsettled(j)
      BY <2>2, BoundAssumption DEF LeaveUnsettled, Others
    <2> QED
      BY <1>1, <1>3, <2>1, <2>2 DEF Ends, Exit, Watch, Reap, NoteJob
  <1>4. ASSUME NEW r \in Restarts, Restart(r) PROVE Others'
    BY <1>4 DEF Restart, AllowRestart, RestartService, NoteRestart, Others
  <1>5. CASE Crash
    BY <1>5, BoundAssumption DEF Crash, Others
  <1>6. CASE ReusePid \/ FreePid
    BY <1>6 DEF ReusePid, FreePid, Others
  <1> QED
    BY <1>1, <1>2, <1>3, <1>4, <1>5, <1>6
    DEF Next, vars, ReadStatus, Poll, Load, RestartAgent

\* The files, the threads, the page and the bounds keep their types, and the history
\* file never holds more entries than it is cut to.
THEOREM TypeCorrect == Spec => []TypeOK
  <1>1. Init => Others
    <2> SUFFICES ASSUME Init PROVE Others
      OBVIOUS
    <2>1. crashes \in 0..MaxCrashes /\ faults \in 0..MaxFaults
      BY BoundAssumption DEF Init
    <2>2. squatter \in BOOLEAN /\ desk \in [Restarts -> {"idle", "acting", "noting", "done"}]
      BY DEF Init
    <2> QED
      BY <2>1, <2>2 DEF Others
  <1>2. IInv /\ Ledger /\ Others => TypeOK
    BY DEF IInv, Types, Ledger, Entries, Others, TypeOK
  <1>3. Spec => []Others
    <2> HIDE DEF Others
    <2> QED
      BY <1>1, OthersInductive, PTL DEF Spec
  <1> HIDE DEF IInv, Ledger, Others, TypeOK
  <1> QED
    BY <1>2, <1>3, Invariance, LedgerInvariance, PTL

-----------------------------------------------------------------------------
(* The host *)

LEMMA MaxOfTwo ==
    ASSUME NEW a \in Int, NEW b \in Int
    PROVE  Max({a, b}) \in {a, b} /\ Max({a, b}) >= a /\ Max({a, b}) >= b
  BY DEF Max

\* A percentage below a threshold, rounded as it is, says that the part is less.
LEMMA TenthsBelow ==
    ASSUME NEW part \in Nat, NEW whole \in Nat \ {0}, NEW limit \in Nat,
           Tenths(part, whole) < limit
    PROVE  2000 * part + whole < 2 * whole * limit
  <1>1. (2000 * part + whole) \div (2 * whole) < limit
    BY DEF Tenths
  <1>2. ASSUME NEW a \in Int, NEW b \in Nat \ {0}, a \div b < limit PROVE a < b * limit
    BY <1>2
  <1> QED
    BY <1>1, <1>2

LEMMA TenthsInt ==
    ASSUME NEW part \in Nat, NEW whole \in Nat
    PROVE  Tenths(part, whole) \in Int
  BY DEF Tenths, Unmeasured

LEMMA MemoryInt ==
    ASSUME NEW info, \A key \in DOMAIN info : info[key] \in Nat
    PROVE  MemoryPercent(info) \in Int
  <1> DEFINE field(key, default) == IF key \in DOMAIN info THEN info[key] ELSE default
             total == field("MemTotal", 0)
             left == field("MemAvailable", field("MemFree", 0))
             used == Max({0, total - left})
  <1>1. total \in Nat /\ left \in Nat
    OBVIOUS
  <1>2. MemoryPercent(info) = Tenths(used, total)
    BY DEF MemoryPercent
  <1> HIDE DEF total, left
  <1>3. PICK rest \in Int : rest = total - left
    BY <1>1
  <1>4. Max({0, rest}) \in Nat
    BY MaxOfTwo
  <1> QED
    BY <1>1, <1>2, <1>3, <1>4, TenthsInt

\* What a healthy host has, however few of the readings came.
LEMMA HealthyWorks ==
    ASSUME NEW host \in Hosts
    PROVE  HealthyHostWorks(host)
  <1> SUFFICES ASSUME HealthStatus(host) = "healthy"
               PROVE  /\ 5 * host.disk.used < 4 * host.disk.total /\ host.disk.free >= 8 * GiB
                      /\ host.lost \cap {"df", "services"} = {}
                      /\ \A s \in host.services :
                            \/ s.raw \notin {"dead", "exited (1)", "exited (0)", "up, unhealthy"}
                            \/ s = [service |-> "migrate", raw |-> "exited (0)"]
    BY DEF HealthyHostWorks
  <1>1. ~Critical(host) /\ ~Warned(host)
    BY DEF HealthStatus
  <1> DEFINE used == host.disk.used
             free == host.disk.free
             total == host.disk.total
             percent == DiskPercent(host)
  <1>2. used \in Nat /\ free \in Nat /\ total \in Nat /\ used + free <= total
    BY HostAssumption
  <1>3. percent \in Int /\ percent = Tenths(used, total)
    BY <1>2, TenthsInt DEF DiskPercent
  <1>4. ~(percent >= 800) /\ ~(free < 8 * GiB)
    BY <1>1 DEF Critical, Warned
  <1>5. host.lost \cap {"df", "services"} = {} /\ ~Broken(host)
    BY <1>1 DEF Critical, Warned
  <1> HIDE DEF used, free, total, percent
  <1>6. free >= 8 * GiB /\ total # 0
    BY <1>2, <1>4 DEF GiB
  <1>7. 5 * used < 4 * total
    <2>1. 2000 * used + total < 2 * total * 800
      BY <1>2, <1>3, <1>4, <1>6, TenthsBelow
    <2> QED
      BY <1>2, <2>1
  <1>8. ASSUME NEW s \in host.services
        PROVE  \/ s.raw \notin {"dead", "exited (1)", "exited (0)", "up, unhealthy"}
               \/ s = [service |-> "migrate", raw |-> "exited (0)"]
    <2>1. ClassifyService(s.service, s.raw) # "error"
      BY <1>5 DEF Broken
    <2>2. s.raw \notin {"dead", "exited (1)", "up, unhealthy"}
      BY <2>1 DEF ClassifyService
    <2>3. s.raw = "exited (0)" => s.service = "migrate"
      BY <2>1 DEF ClassifyService, OneShotServices
    <2>4. s = [service |-> s.service, raw |-> s.raw]
      BY HostAssumption
    <2> QED
      BY <2>2, <2>3, <2>4
  <1> QED
    BY <1>5, <1>6, <1>7, <1>8 DEF used, free, total

\* The panel's thresholds, as long as nobody has saved others.
LEMMA DefaultThresholds ==
    /\ Thresholds(Default).diskWarning = 800 /\ Thresholds(Default).diskCritical = 900
    /\ Thresholds(Default).memoryWarning = 800 /\ Thresholds(Default).memoryCritical = 900
    /\ Thresholds(Default).cpuCritical = 950
  BY DEF Thresholds, Default, Bounded

LEMMA AlertLevels ==
    ASSUME NEW kind, NEW value \in Int, NEW warning \in Nat \ {0}, NEW critical \in Nat,
           warning <= critical
    PROVE  /\ Alert(kind, Max({0, value}), warning, critical) # {} => value >= warning
           /\ <<kind, "critical">> \in Alert(kind, Max({0, value}), warning, critical) =>
                 value >= critical
  <1> DEFINE shown == Max({0, value})
  <1>1. shown \in {0, value}
    BY MaxOfTwo
  <1> HIDE DEF shown
  <1>2. Alert(kind, shown, warning, critical) # {} => value >= warning
    BY <1>1 DEF Alert
  <1>3. <<kind, "critical">> \in Alert(kind, shown, warning, critical) => value >= critical
    BY <1>1 DEF Alert
  <1> QED
    BY <1>2, <1>3 DEF shown

LEMMA AlertsFollow ==
    ASSUME NEW host \in Hosts, Answers(host)
    PROVE  AlertsFollowHealth(host)
  <1> DEFINE settings == Thresholds(Default)
             seen == [m \in {"disk", "memory", "cpu"} |-> Max({0, Metrics(host)[m]})]
             disk == Alert("disk", seen["disk"], settings.diskWarning, settings.diskCritical)
             memory == Alert("memory", seen["memory"], settings.memoryWarning, settings.memoryCritical)
             cpu == Alert("cpu", seen["cpu"], settings.cpuCritical, settings.cpuCritical)
             alerts == HostAlerts(host, settings)
  <1>1. alerts = disk \cup memory \cup cpu
    BY DEF HostAlerts
  <1>2. /\ disk = Alert("disk", Max({0, DiskPercent(host)}), 800, 900)
        /\ memory = Alert("memory", Max({0, MemoryPercent(host.memory)}), 800, 900)
        /\ cpu = Alert("cpu", Max({0, Metrics(host).cpu}), 950, 950)
    BY DefaultThresholds DEF Metrics
  <1> HIDE DEF alerts, disk, memory, cpu, seen, settings
  <1>3. DiskPercent(host) \in Int /\ MemoryPercent(host.memory) \in Int
    BY HostAssumption, TenthsInt, MemoryInt DEF DiskPercent
  <1>4. \A a \in disk : a[1] = "disk"
    BY <1>2 DEF Alert
  <1>5. \A a \in memory : a[1] = "memory"
    BY <1>2 DEF Alert
  <1>6. \A a \in cpu : a[1] = "cpu"
    BY <1>2 DEF Alert
  <1>7. /\ disk # {} => DiskPercent(host) >= 800
        /\ <<"disk", "critical">> \in disk => DiskPercent(host) >= 900
    <2>1. PICK percent \in Int : percent = DiskPercent(host)
      BY <1>3
    <2>2. /\ Alert("disk", Max({0, percent}), 800, 900) # {} => percent >= 800
          /\ <<"disk", "critical">> \in Alert("disk", Max({0, percent}), 800, 900) =>
                percent >= 900
      BY AlertLevels
    <2> QED
      BY <1>2, <2>1, <2>2
  <1>8. <<"memory", "critical">> \in memory => MemoryPercent(host.memory) >= 900
    BY <1>2, <1>3, AlertLevels
  <1>9. "stat" \in host.lost => cpu = {}
    <2>1. "stat" \in host.lost => Metrics(host).cpu = -1
      BY DEF Metrics, Unmeasured
    <2>2. Max({0, -1}) = 0
      BY MaxOfTwo
    <2> QED
      BY <1>2, <2>1, <2>2 DEF Alert
  <1>10. HealthStatus(host) = "healthy" => ~Critical(host) /\ ~Warned(host)
    BY DEF HealthStatus
  <1>11. HealthStatus(host) = "healthy" => disk = {} /\ <<"memory", "critical">> \notin memory
    BY <1>3, <1>7, <1>8, <1>10 DEF Critical, Warned
  <1>12. <<"disk", "critical">> \in alerts => HealthStatus(host) = "critical"
    BY <1>1, <1>5, <1>6, <1>7 DEF HealthStatus, Critical
  <1>13. <<"cpu", "critical">> \in alerts => "stat" \notin host.lost
    BY <1>1, <1>4, <1>5, <1>9
  <1>14. HealthStatus(host) = "healthy" =>
            \A a \in alerts : a[1] # "disk" /\ a # <<"memory", "critical">>
    BY <1>1, <1>5, <1>6, <1>11
  <1> QED
    BY <1>12, <1>13, <1>14 DEF AlertsFollowHealth, alerts, settings

\* For any readings of any host, whichever of them failed: a host that the agent
\* calls healthy has the disk and the services the panel's alerts look for.
THEOREM HealthyHosts == Spec => []HealthyMeansWorking
  <1>1. HealthyMeansWorking
    BY HealthyWorks, AlertsFollow DEF HealthyMeansWorking, HostsAreJudgedAlike
  <1> HIDE DEF HealthyMeansWorking
  <1> QED
    BY <1>1, PTL
=============================================================================
