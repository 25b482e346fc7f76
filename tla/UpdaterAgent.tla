----------------------------- MODULE UpdaterAgent -----------------------------
(***************************************************************************)
(* The privileged updater agent and the page that watches it.  The agent   *)
(* runs one update or cleanup job at a time: handler threads start jobs,   *)
(* a watcher thread waits for each job's process, every reader of the      *)
(* state file corrects it when the recorded process is dead.  LOCK guards  *)
(* the state file; the history file is also written without it.  The agent *)
(* may die with all its jobs (systemd stops the whole control group) and   *)
(* is restarted; a write of the state file may fail.                       *)
(***************************************************************************)
EXTENDS Naturals, Sequences, FiniteSetsExt

CONSTANTS
    Jobs,          \* requests to start a job; a request that is accepted is a job
    Restarts,      \* requests to restart a service
    HistoryLength, \* entries the history file keeps
    MaxCrashes,    \* agent crashes (bound)
    MaxFaults,     \* failed writes of the state file (bound)
    None           \* no job

ASSUME HistoryAssumption == HistoryLength \in Nat \ {0}
ASSUME BoundAssumption == MaxCrashes \in Nat /\ MaxFaults \in Nat
ASSUME NullAssumption == None \notin Jobs \cup Restarts /\ Jobs \cap Restarts = {}

VARIABLES
    up,        \* the agent process is there
    record,    \* state.json
    history,   \* history.json, newest first
    start,     \* handler of a start request
    process,   \* process of a job
    outcome,   \* its exit code, once it exits by itself
    watcher,   \* watcher thread of a job
    lock,      \* holder of LOCK from one step to the next
    squatter,  \* an unrelated process has the recorded pid
    desk,      \* handler of a service restart
    read,      \* history a writer has read and not yet written back
    page,      \* what the Deployment page shows
    waiting,   \* start request the page waits for
    crashes, faults

files == <<record, history>>
jobs == <<process, outcome, watcher>>
browser == <<page, waiting>>
vars == <<up, files, start, jobs, lock, squatter, desk, read, browser, crashes, faults>>

Settled == {"success", "failed", "interrupted"}
States == [status : {"idle", "running", "unavailable"} \cup Settled, job : Jobs \cup {None}]

TypeOK ==
    /\ up \in BOOLEAN
    /\ record \in States /\ page \in States
    /\ history \in Seq((Jobs \cup Restarts) \X {"success", "failed"})
    /\ Len(history) <= HistoryLength
    /\ start \in [Jobs -> {"unsent", "sent", "launched", "recorded", "unrecorded", "refused"}]
    /\ process \in [Jobs -> {"none", "running", "zombie", "gone"}]
    /\ outcome \in [Jobs -> {"success", "failed", "none"}]
    /\ watcher \in [Jobs -> {"none", "waiting", "reaped", "noting", "ended"}]
    /\ lock \in Jobs \cup {None}
    /\ squatter \in BOOLEAN
    /\ desk \in [Restarts -> {"idle", "acting", "noting", "done"}]
    /\ DOMAIN read = Jobs \cup Restarts
    /\ waiting \in Jobs \cup {None}
    /\ crashes \in 0..MaxCrashes /\ faults \in 0..MaxFaults

Init ==
    /\ up = TRUE
    /\ record = [status |-> "idle", job |-> None]
    /\ history = <<>>
    /\ start = [j \in Jobs |-> "unsent"]
    /\ process = [j \in Jobs |-> "none"]
    /\ outcome = [j \in Jobs |-> "none"]
    /\ watcher = [j \in Jobs |-> "none"]
    /\ lock = None
    /\ squatter = FALSE
    /\ desk = [r \in Restarts |-> "idle"]
    /\ read = [w \in Jobs \cup Restarts |-> <<>>]
    /\ page = record
    /\ waiting = None
    /\ crashes = 0 /\ faults = 0

-----------------------------------------------------------------------------
(* Reading the state *)

\* os.kill(pid, 0) finds a zombie, and any other process that got the pid.
PidAlive(j) == process[j] \in {"running", "zombie"} \/ squatter

\* Mutant: the file is believed.
NormalizedAsStored == record

Normalized ==
    IF record.status = "running" /\ ~PidAlive(record.job)
    THEN [record EXCEPT !.status = "interrupted"]
    ELSE record

Free == up /\ lock = None

\* Any reader of /health or /status other than the page.
ReadStatus ==
    /\ Free
    /\ record' = Normalized
    /\ UNCHANGED <<up, history, start, jobs, lock, squatter, desk, read, browser, crashes, faults>>

-----------------------------------------------------------------------------
(* The page: a reply to the request it waits for replaces what it shows *)

Failed == [status |-> "failed", job |-> None]

Answer(j, state) ==
    IF waiting = j THEN page' = state /\ waiting' = None ELSE UNCHANGED browser

\* From this page when it does not show a running job, or from anybody else.
SendStart(j) ==
    /\ start[j] = "unsent"
    /\ start' = [start EXCEPT ![j] = "sent"]
    /\ \/ page.status \notin {"running", "unavailable"} /\ waiting = None /\ waiting' = j
       \/ UNCHANGED waiting
    /\ UNCHANGED <<up, files, jobs, lock, squatter, desk, read, page, crashes, faults>>

\* Ten seconds without a reply, or the panel restarts: the agent goes on.
GiveUp(j) ==
    /\ waiting = j
    /\ page' = Failed /\ waiting' = None
    /\ UNCHANGED <<up, files, start, jobs, lock, squatter, desk, read, crashes, faults>>

\* Only a page that shows a running job asks again.
Poll ==
    /\ Free
    /\ page.status = "running" /\ waiting = None
    /\ record' = Normalized /\ page' = Normalized
    /\ UNCHANGED <<up, history, start, jobs, lock, squatter, desk, read, waiting, crashes, faults>>

Load ==
    /\ waiting = None
    /\ \/ Free /\ record' = Normalized /\ page' = Normalized
       \/ ~up /\ UNCHANGED record /\ page' = [status |-> "unavailable", job |-> None]
    /\ UNCHANGED <<up, history, start, jobs, lock, squatter, desk, read, waiting, crashes, faults>>

-----------------------------------------------------------------------------
(* Starting a job *)

Refuse(j) ==
    /\ Free /\ start[j] = "sent"
    /\ Normalized.status = "running"
    /\ start' = [start EXCEPT ![j] = "refused"]
    /\ Answer(j, Failed)
    /\ UNCHANGED <<up, files, jobs, lock, squatter, desk, read, crashes, faults>>

\* Mutant: the state is checked before LOCK is taken, so not at the launch.
LaunchUnchecked(j) ==
    /\ Free /\ start[j] = "sent"
    /\ record' = Normalized
    /\ start' = [start EXCEPT ![j] = "launched"]
    /\ process' = [process EXCEPT ![j] = "running"]
    /\ lock' = j
    /\ UNCHANGED <<up, history, outcome, watcher, squatter, desk, read, browser, crashes, faults>>

\* Popen, with LOCK held; the storage snapshot of a cleanup follows.
Launch(j) ==
    /\ Free /\ start[j] = "sent"
    /\ Normalized.status # "running"
    /\ record' = Normalized
    /\ start' = [start EXCEPT ![j] = "launched"]
    /\ process' = [process EXCEPT ![j] = "running"]
    /\ lock' = j
    /\ UNCHANGED <<up, history, outcome, watcher, squatter, desk, read, browser, crashes, faults>>

\* The script is missing, or Popen raises.
LaunchFails(j) ==
    /\ Free /\ start[j] = "sent"
    /\ Normalized.status # "running"
    /\ record' = Normalized
    /\ start' = [start EXCEPT ![j] = "refused"]
    /\ Answer(j, Failed)
    /\ UNCHANGED <<up, history, jobs, lock, squatter, desk, read, crashes, faults>>

Record(j) ==
    /\ start[j] = "launched"
    /\ record' = [status |-> "running", job |-> j]
    /\ start' = [start EXCEPT ![j] = "recorded"]
    /\ watcher' = [watcher EXCEPT ![j] = "waiting"]
    /\ lock' = None
    /\ Answer(j, record')
    /\ UNCHANGED <<up, history, process, outcome, squatter, desk, read, crashes, faults>>

\* save_state raises: the job runs on with no record and no watcher.
RecordFails(j) ==
    /\ start[j] = "launched"
    /\ faults < MaxFaults /\ faults' = faults + 1
    /\ start' = [start EXCEPT ![j] = "unrecorded"]
    /\ lock' = None
    /\ Answer(j, Failed)
    /\ UNCHANGED <<up, files, jobs, squatter, desk, read, crashes>>

-----------------------------------------------------------------------------
(* The end of a job *)

Exit(j, result) ==
    /\ process[j] = "running"
    /\ process' = [process EXCEPT ![j] = "zombie"]
    /\ outcome' = [outcome EXCEPT ![j] = result]
    /\ UNCHANGED <<up, files, start, watcher, lock, squatter, desk, read, browser, crashes, faults>>

\* proc.wait returns before the watcher asks for LOCK.
Reap(j) ==
    /\ watcher[j] = "waiting" /\ process[j] = "zombie"
    /\ process' = [process EXCEPT ![j] = "gone"]
    /\ watcher' = [watcher EXCEPT ![j] = "reaped"]
    /\ UNCHANGED <<up, files, start, outcome, lock, squatter, desk, read, browser, crashes, faults>>

\* Mutant: the watcher does not look whose record it is.
SettleAnyJob(j) ==
    /\ Free /\ watcher[j] = "reaped"
    /\ record' = [record EXCEPT !.status = outcome[j]]
    /\ squatter' = FALSE
    /\ read' = [read EXCEPT ![j] = history]
    /\ lock' = j
    /\ watcher' = [watcher EXCEPT ![j] = "noting"]
    /\ UNCHANGED <<up, history, start, process, outcome, desk, browser, crashes, faults>>

\* The verdict is saved, then the history is read; LOCK is kept.
Settle(j) ==
    /\ Free /\ watcher[j] = "reaped"
    /\ record.job = j
    /\ record' = [record EXCEPT !.status = outcome[j]]
    /\ squatter' = FALSE
    /\ read' = [read EXCEPT ![j] = history]
    /\ lock' = j
    /\ watcher' = [watcher EXCEPT ![j] = "noting"]
    /\ UNCHANGED <<up, history, start, process, outcome, desk, browser, crashes, faults>>

\* A newer job has the record, or save_state raises.
LeaveUnsettled(j) ==
    /\ Free /\ watcher[j] = "reaped"
    /\ \/ record.job # j /\ UNCHANGED faults
       \/ record.job = j /\ faults < MaxFaults /\ faults' = faults + 1
    /\ watcher' = [watcher EXCEPT ![j] = "ended"]
    /\ UNCHANGED <<up, files, start, process, outcome, lock, squatter, desk, read, browser, crashes>>

\* append_history: the new entry, then what the writer w has read.
Note(w, subject, status) ==
    LET entries == <<<<subject, status>>>> \o read[w]
    IN  /\ history' = SubSeq(entries, 1, Min({Len(entries), HistoryLength}))
        /\ read' = [read EXCEPT ![w] = <<>>]

NoteJob(j) ==
    /\ watcher[j] = "noting"
    /\ Note(j, record.job, record.status)
    /\ watcher' = [watcher EXCEPT ![j] = "ended"]
    /\ lock' = None
    /\ UNCHANGED <<up, record, start, process, outcome, squatter, desk, browser, crashes, faults>>

-----------------------------------------------------------------------------
(* Restarting a service: LOCK is held for the check only *)

AllowRestart(r) ==
    /\ Free /\ desk[r] = "idle"
    /\ record' = Normalized
    /\ desk' = [desk EXCEPT ![r] = IF Normalized.status = "running" THEN "done" ELSE "acting"]
    /\ UNCHANGED <<up, history, start, jobs, lock, squatter, read, browser, crashes, faults>>

\* docker restart is over, well or not, or the service has no container.
RestartService(r) ==
    /\ desk[r] = "acting"
    /\ \/ desk' = [desk EXCEPT ![r] = "noting"] /\ read' = [read EXCEPT ![r] = history]
       \/ desk' = [desk EXCEPT ![r] = "done"] /\ UNCHANGED read
    /\ UNCHANGED <<up, files, start, jobs, lock, squatter, browser, crashes, faults>>

NoteRestart(r) ==
    /\ desk[r] = "noting"
    /\ \E status \in {"success", "failed"} : Note(r, r, status)
    /\ desk' = [desk EXCEPT ![r] = "done"]
    /\ UNCHANGED <<up, record, start, jobs, lock, squatter, browser, crashes, faults>>

-----------------------------------------------------------------------------
(* Crash and restart *)

\* The unit's control group dies with the agent: jobs, threads, docker commands.
Crash ==
    /\ up /\ crashes < MaxCrashes
    /\ up' = FALSE
    /\ crashes' = crashes + 1
    /\ process' = [j \in Jobs |-> IF process[j] = "none" THEN "none" ELSE "gone"]
    /\ watcher' = [j \in Jobs |-> IF watcher[j] = "none" THEN "none" ELSE "ended"]
    /\ start' = [j \in Jobs |->
                  CASE start[j] = "sent" -> "refused"
                    [] start[j] = "launched" -> "unrecorded"
                    [] OTHER -> start[j]]
    /\ desk' = [r \in Restarts |-> IF desk[r] = "idle" THEN "idle" ELSE "done"]
    /\ lock' = None
    /\ read' = [w \in Jobs \cup Restarts |-> <<>>]
    /\ page' = IF waiting # None /\ start[waiting] \in {"sent", "launched"} THEN Failed ELSE page
    /\ waiting' = None
    /\ UNCHANGED <<files, outcome, squatter, faults>>

\* Mutant: main listens without looking at the state it left.
RestartAgentUnchecked ==
    /\ ~up /\ up' = TRUE
    /\ UNCHANGED <<files, start, jobs, lock, squatter, desk, read, browser, crashes, faults>>

\* main calls normalized_state before it listens.
RestartAgent ==
    /\ ~up /\ up' = TRUE
    /\ record' = Normalized
    /\ UNCHANGED <<history, start, jobs, lock, squatter, desk, read, browser, crashes, faults>>

\* The system hands the recorded pid, free again, to another process.
ReusePid ==
    /\ record.status = "running" /\ process[record.job] = "gone" /\ ~squatter
    /\ squatter' = TRUE
    /\ UNCHANGED <<up, files, start, jobs, lock, desk, read, browser, crashes, faults>>

FreePid ==
    /\ squatter
    /\ squatter' = FALSE
    /\ UNCHANGED <<up, files, start, jobs, lock, desk, read, browser, crashes, faults>>

-----------------------------------------------------------------------------

Start(j) == Refuse(j) \/ Launch(j) \/ LaunchFails(j) \/ Record(j) \/ RecordFails(j)
Watch(j) == Reap(j) \/ Settle(j) \/ LeaveUnsettled(j) \/ NoteJob(j)
Ends(j) == \E result \in {"success", "failed"} : Exit(j, result)
Restart(r) == AllowRestart(r) \/ RestartService(r) \/ NoteRestart(r)

Next ==
    \/ \E j \in Jobs : SendStart(j) \/ GiveUp(j) \/ Start(j) \/ Ends(j) \/ Watch(j)
    \/ \E r \in Restarts : Restart(r)
    \/ ReadStatus \/ Poll \/ Load
    \/ Crash \/ RestartAgent \/ ReusePid \/ FreePid

\* A job's script ends, the threads of the agent run, systemd restarts it, and
\* the page that shows a running job asks every two seconds.
Fairness ==
    /\ \A j \in Jobs : WF_vars(Ends(j)) /\ WF_vars(Watch(j)) /\ WF_vars(Record(j) \/ RecordFails(j))
    /\ WF_vars(RestartAgent)
    /\ SF_vars(Poll)

Spec == Init /\ [][Next]_vars /\ Fairness

-----------------------------------------------------------------------------
(* Properties *)

Running(j) == process[j] = "running"

\* "Concurrent update jobs are rejected": two jobs run together only when the
\* record of one could not be written.
OneJob ==
    \A i, j \in Jobs :
        Running(i) /\ Running(j) /\ i # j => "unrecorded" \in {start[i], start[j]}

\* A verdict is about a job that is over, and is the one its exit code gives,
\* whatever watcher, reader or restart of the agent wrote it.
VerdictIsTrue ==
    \A state \in {record, page} :
        state.status \in Settled /\ state.job # None =>
            /\ process[state.job] # "running"
            /\ state.status # "interrupted" => outcome[state.job] = state.status

\* The history tells the truth about each job, once.
HistoryIsTrue ==
    \A k \in 1..Len(history) : history[k][1] \in Jobs =>
        /\ outcome[history[k][1]] = history[k][2]
        /\ \A l \in 1..Len(history) : history[l][1] = history[k][1] => l = k

\* A recorded job does not stay "running" for ever: its watcher or the agent's
\* restart settles it, unless another process got its pid or a write failed.
JobSettles ==
    []~squatter => (record.status = "running" ~> (record.status # "running" \/ faults > 0))

\* "job monitoring will reconnect automatically": a page that shows a running job
\* comes to show its end, through lost polls and crashes of the agent.
PageFollows ==
    page.status = "running" ~> (page.status # "running" \/ squatter)
=============================================================================
