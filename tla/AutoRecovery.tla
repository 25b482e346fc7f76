----------------------------- MODULE AutoRecovery -----------------------------
(***************************************************************************)
(* Bounded automatic recovery of one server, beside everything else that   *)
(* starts and stops it.  Recovery runs overlap (the cron container stops   *)
(* waiting after 45 seconds, the panel goes on), each works from a list    *)
(* selected earlier; owners and staff call the node first and record their *)
(* wish afterwards; schedules and the billing worker call the node without *)
(* recording any.  Ages are in ticks: Guard stands for 90 seconds, Window  *)
(* for 10 minutes, Cooldown for 15.                                        *)
(***************************************************************************)
EXTENDS Naturals, Sequences

CONSTANTS
    Workers,       \* recovery runs at work together
    Requests,      \* power and lifecycle requests at work together
    Guard, Window, Cooldown,
    MaxAttempts,   \* attempts in a window, and failures in a row, that suppress
    None           \* no worker

ASSUME DurationAssumption ==
    /\ Guard \in Nat \ {0} /\ Window \in Nat /\ Cooldown \in Nat
    /\ Guard < Window /\ Window < Cooldown
ASSUME LimitAssumption == MaxAttempts \in Nat \ {0}
ASSUME NullAssumption == None \notin Workers

VARIABLES
    container, \* what CrakNode reports
    desired,   \* servers.desired_state
    suspended, \* servers.suspended; billing_status follows it
    enabled,   \* servers.recovery_enabled
    cooldown,  \* ticks until recovery_suppressed_until
    failures,  \* servers.recovery_failures
    last,      \* ticks since last_recovery_at, at most Guard
    attempts,  \* ages of the recovery.attempt events of the window, the newest first
    pc,        \* next step of a recovery run on the server
    owner,     \* holder of its advisory lock
    desk,      \* wish a request has carried to the node and not yet recorded
    revoked,   \* history: runs whose permission was withdrawn after they read it
    owed,      \* history: what is left of the pause that failures in a row have earned
    boot       \* history: tells one failure of panel or database from the next

row == <<desired, suspended, enabled>>
limits == <<cooldown, failures, last, attempts>>
runs == <<pc, owner>>
vars == <<container, row, limits, runs, desk, revoked, owed, boot>>

Past == {"probe", "attempt", "record", "mark", "act", "verify", "pause"}

TypeOK ==
    /\ container \in {"running", "unhealthy", "exited", "dead"}
    /\ desired \in {"running", "stopped"}
    /\ suspended \in BOOLEAN /\ enabled \in BOOLEAN
    /\ cooldown \in 0..Cooldown
    /\ failures \in 0..MaxAttempts
    /\ last \in 0..Guard
    /\ attempts \in Seq(0..Window - 1)
    /\ \A i, j \in DOMAIN attempts : i < j => attempts[i] <= attempts[j]
    /\ pc \in [Workers -> {"idle", "picked"} \cup Past]
    /\ owner \in Workers \cup {None}
    /\ \A w \in Workers : pc[w] \in Past <=> owner = w
    /\ desk \in [Requests -> {"idle", "start", "stop", "suspend", "unsuspend"}]
    /\ revoked \subseteq Workers
    /\ owed \in 0..Cooldown
    /\ boot \in {0, 1}

\* A server that has just been provisioned.
Init ==
    /\ container = "running" /\ desired = "running"
    /\ suspended = FALSE /\ enabled = TRUE
    /\ cooldown = 0 /\ failures = 0 /\ last = Guard
    /\ attempts = <<>>
    /\ pc = [w \in Workers |-> "idle"] /\ owner = None
    /\ desk = [r \in Requests |-> "idle"]
    /\ revoked = {}
    /\ owed = 0 /\ boot = 0

-----------------------------------------------------------------------------
(* CrakNode: start, stop, restart and kill, and what containers do themselves *)

NodeStarts == container # "dead" /\ container' \in {"running", "exited"}
NodeStops == container' = IF container = "dead" THEN "dead" ELSE "exited"

Falter ==
    /\ \/ container \in {"running", "unhealthy"} /\ container' = "exited"
       \/ container = "running" /\ container' = "unhealthy"
       \/ container = "unhealthy" /\ container' = "running"
       \/ container = "exited" /\ container' = "dead"
    /\ UNCHANGED <<row, limits, runs, desk, revoked, owed, boot>>

-----------------------------------------------------------------------------
(* A recovery run *)

Wanted == desired = "running" /\ ~suspended /\ enabled

\* The list of a sweep.  It also asks for a status and a node with a fresh heartbeat,
\* and ends after the fifty servers whose last recovery is oldest: whether this
\* one gets in is not promised.
Select(w) ==
    /\ pc[w] = "idle"
    /\ Wanted /\ cooldown = 0
    /\ pc' = [pc EXCEPT ![w] = "picked"]
    /\ UNCHANGED <<container, row, limits, owner, desk, revoked, owed, boot>>

\* Mutant: the selected row is believed, not read again under the lock.
ConfirmSelected(w) ==
    /\ pc[w] = "picked"
    /\ IF owner = None
       THEN pc' = [pc EXCEPT ![w] = "probe"] /\ owner' = w
       ELSE pc' = [pc EXCEPT ![w] = "idle"] /\ UNCHANGED owner
    /\ UNCHANGED <<container, row, limits, desk, revoked, owed, boot>>

\* pg_try_advisory_lock and the fresh row; another run's lock means skip.
Confirm(w) ==
    /\ pc[w] = "picked"
    /\ IF owner = None /\ Wanted /\ cooldown = 0
       THEN pc' = [pc EXCEPT ![w] = "probe"] /\ owner' = w
       ELSE pc' = [pc EXCEPT ![w] = "idle"] /\ UNCHANGED owner
    /\ UNCHANGED <<container, row, limits, desk, revoked, owed, boot>>

\* Mutant: an early return skips the unlock.
FinishLocked(w) ==
    /\ pc' = [pc EXCEPT ![w] = "idle"]
    /\ revoked' = revoked \ {w}
    /\ UNCHANGED owner

\* The lock is released however the run ends.
Finish(w) ==
    /\ pc' = [pc EXCEPT ![w] = "idle"] /\ owner' = None
    /\ revoked' = revoked \ {w}

\* The status of a node that answers.
Probe(w) ==
    /\ pc[w] = "probe"
    /\ \/ /\ container = "running"
          /\ failures' = 0 /\ cooldown' = 0
          /\ Finish(w)
       \/ /\ container = "dead"
          /\ cooldown' = Cooldown
          /\ Finish(w)
          /\ UNCHANGED failures
       \/ /\ container \in {"exited", "unhealthy"}
          /\ pc' = [pc EXCEPT ![w] = "attempt"]
          /\ UNCHANGED <<failures, cooldown, owner, revoked>>
    /\ UNCHANGED <<container, row, last, attempts, desk, owed, boot>>

ProbeFails(w) ==
    /\ pc[w] = "probe"
    /\ Finish(w)
    /\ UNCHANGED <<container, row, limits, desk, owed, boot>>

Recent == Len(attempts)
Recorded == <<0>> \o attempts

\* Mutant: one attempt too many.
AttemptOneMore(w) ==
    /\ pc[w] = "attempt"
    /\ \/ /\ Recent > MaxAttempts
          /\ cooldown' = Cooldown
          /\ Finish(w)
       \/ /\ Recent <= MaxAttempts /\ last < Guard
          /\ Finish(w)
          /\ UNCHANGED cooldown
       \/ /\ Recent <= MaxAttempts /\ last >= Guard
          /\ pc' = [pc EXCEPT ![w] = "record"]
          /\ UNCHANGED <<cooldown, owner, revoked>>
    /\ UNCHANGED <<container, row, failures, last, attempts, desk, owed, boot>>

\* The count of the window, and the guard.
Attempt(w) ==
    /\ pc[w] = "attempt"
    /\ \/ /\ Recent >= MaxAttempts
          /\ cooldown' = Cooldown
          /\ Finish(w)
       \/ /\ Recent < MaxAttempts /\ last < Guard
          /\ Finish(w)
          /\ UNCHANGED cooldown
       \/ /\ Recent < MaxAttempts /\ last >= Guard
          /\ pc' = [pc EXCEPT ![w] = "record"]
          /\ UNCHANGED <<cooldown, owner, revoked>>
    /\ UNCHANGED <<container, row, failures, last, attempts, desk, owed, boot>>

\* The event; an insert that fails is swallowed, and the attempt goes on uncounted.
Record(w) ==
    /\ pc[w] = "record"
    /\ attempts' \in {attempts, Recorded}
    /\ pc' = [pc EXCEPT ![w] = "mark"]
    /\ UNCHANGED <<container, row, cooldown, failures, last, owner, desk, revoked, owed, boot>>

Mark(w) ==
    /\ pc[w] = "mark"
    /\ last' = 0
    /\ pc' = [pc EXCEPT ![w] = "act"]
    /\ UNCHANGED <<container, row, cooldown, failures, attempts, owner, desk, revoked, owed, boot>>

\* Mutant: failures are counted and never lead to a pause.
FailForever(w) ==
    /\ failures' = IF failures < MaxAttempts THEN failures + 1 ELSE failures
    /\ last' = 0
    /\ owed' = IF failures' >= MaxAttempts THEN Cooldown ELSE owed
    /\ Finish(w)

\* The count of the failure, which earns a pause when it completes a row of them.
Fail(w) ==
    /\ failures' = IF failures < MaxAttempts THEN failures + 1 ELSE failures
    /\ last' = 0
    /\ \/ /\ failures' >= MaxAttempts
          /\ pc' = [pc EXCEPT ![w] = "pause"]
          /\ owed' = Cooldown
          /\ UNCHANGED <<owner, revoked>>
       \/ /\ failures' < MaxAttempts
          /\ Finish(w)
          /\ UNCHANGED owed

\* Start or restart; then the run sleeps and looks again.
Act(w) ==
    /\ pc[w] = "act"
    /\ \/ /\ NodeStarts
          /\ pc' = [pc EXCEPT ![w] = "verify"]
          /\ UNCHANGED <<failures, last, owner, revoked, owed>>
       \/ Fail(w) /\ UNCHANGED container
    /\ UNCHANGED <<row, cooldown, attempts, desk, boot>>

Verify(w) ==
    /\ pc[w] = "verify"
    /\ \/ /\ container = "running"
          /\ failures' = 0 /\ cooldown' = 0 /\ last' = 0 /\ owed' = 0
          /\ Finish(w)
       \/ Fail(w) /\ UNCHANGED cooldown
    /\ UNCHANGED <<container, row, attempts, desk, boot>>

\* The pause is a statement of its own.
Suppress(w) ==
    /\ pc[w] = "pause"
    /\ cooldown' = Cooldown
    /\ Finish(w)
    /\ UNCHANGED <<container, row, failures, last, attempts, desk, owed, boot>>

\* A statement fails: the run ends where it is, and with it a pause not yet written.
Abort(w) ==
    /\ pc[w] # "idle"
    /\ pc' = [pc EXCEPT ![w] = "idle"]
    /\ owner' = IF owner = w THEN None ELSE owner
    /\ revoked' = revoked \ {w}
    /\ owed' = IF pc[w] = "pause" THEN 0 ELSE owed
    /\ boot' = 1 - boot
    /\ UNCHANGED <<container, row, limits, desk>>

-----------------------------------------------------------------------------
(* Owners, staff and the other automation *)

Withdraw == revoked' = revoked \cup {w \in Workers : pc[w] \in Past}

\* The node call of a power action or of a (un)suspension.
Ask(r, wish) ==
    /\ desk[r] = "idle"
    /\ \/ wish = "start" /\ NodeStarts
       \/ wish = "stop" /\ NodeStops
       \/ wish = "suspend" /\ ~suspended /\ NodeStops
       \/ wish = "unsuspend" /\ suspended /\ NodeStarts
    /\ desk' = [desk EXCEPT ![r] = wish]
    /\ UNCHANGED <<row, limits, runs, revoked, owed, boot>>

\* Its update of the row.
Keep(r) ==
    /\ desk[r] # "idle"
    /\ desk' = [desk EXCEPT ![r] = "idle"]
    /\ desired' = IF desk[r] \in {"start", "unsuspend"} THEN "running" ELSE "stopped"
    /\ suspended' = CASE desk[r] = "suspend" -> TRUE
                      [] desk[r] = "unsuspend" -> FALSE
                      [] OTHER -> suspended
    /\ cooldown' = IF desk[r] = "stop" THEN cooldown ELSE 0
    /\ failures' = IF desired' = "running" THEN 0 ELSE failures
    /\ IF desired' = "stopped" THEN Withdraw ELSE UNCHANGED revoked
    /\ owed' = IF desk[r] = "stop" THEN owed ELSE 0
    /\ UNCHANGED <<container, enabled, last, attempts, runs, boot>>

SaveSettings(on) ==
    /\ enabled' = on
    /\ cooldown' = IF on THEN 0 ELSE cooldown
    /\ owed' = IF on THEN 0 ELSE owed
    /\ IF on THEN UNCHANGED revoked ELSE Withdraw
    /\ UNCHANGED <<container, desired, suspended, failures, last, attempts, runs, desk, boot>>

\* Schedules, and the billing worker after its transaction.
AutomatedPower ==
    /\ NodeStarts \/ NodeStops
    /\ UNCHANGED <<row, limits, runs, desk, revoked, owed, boot>>

\* The billing transaction: renewed, or suspended for want of credits.
BillingSaves ==
    /\ suspended' = ~suspended
    /\ IF suspended' THEN Withdraw ELSE UNCHANGED revoked
    /\ UNCHANGED <<container, desired, enabled, limits, runs, desk, owed, boot>>

-----------------------------------------------------------------------------

\* The panel dies: its sessions end, and with them every lock.
Die ==
    /\ pc' = [w \in Workers |-> "idle"] /\ owner' = None
    /\ desk' = [r \in Requests |-> "idle"]
    /\ revoked' = {}
    /\ owed' = IF \E w \in Workers : pc[w] = "pause" THEN 0 ELSE owed
    /\ boot' = 1 - boot
    /\ UNCHANGED <<container, row, limits>>

Tick ==
    /\ cooldown' = IF cooldown = 0 THEN 0 ELSE cooldown - 1
    /\ owed' = IF owed = 0 THEN 0 ELSE owed - 1
    /\ last' = IF last < Guard THEN last + 1 ELSE Guard
    /\ \E kept \in 0..Recent :
        /\ \A i \in 1..Recent : i <= kept <=> attempts[i] + 1 < Window
        /\ attempts' = [i \in 1..kept |-> attempts[i] + 1]
    /\ UNCHANGED <<container, row, failures, runs, desk, revoked, boot>>

Wishes == {"start", "stop", "suspend", "unsuspend"}

Recover(w) ==
    \/ Select(w) \/ Confirm(w) \/ Probe(w) \/ ProbeFails(w)
    \/ Attempt(w) \/ Record(w) \/ Mark(w) \/ Act(w) \/ Verify(w) \/ Suppress(w)

Next ==
    \/ \E w \in Workers : Recover(w) \/ Abort(w)
    \/ \E r \in Requests : Keep(r) \/ \E wish \in Wishes : Ask(r, wish)
    \/ \E on \in BOOLEAN : SaveSettings(on)
    \/ AutomatedPower \/ BillingSaves \/ Falter \/ Die \/ Tick

\* Time passes, a sweep goes on, the node answers again and again, and neither panel
\* nor database fails for ever.  That a server is selected is not assumed.
Fairness ==
    /\ WF_vars(Tick)
    /\ <>[][boot' = boot]_vars
    /\ \A w \in Workers : WF_vars(Recover(w) /\ pc[w] # "idle") /\ SF_vars(Probe(w))

Spec == Init /\ [][Next]_vars /\ Fairness

-----------------------------------------------------------------------------
(* Properties *)

\* "Recovery is limited to three attempts in ten minutes": of the attempts that
\* were recorded, however many runs overlap and however often they die.
RateLimit == Recent <= MaxAttempts

\* "intentionally stopped servers are not restarted by automation", "suspension
\* disables recovery intent": a run goes on only while the wish stands that it read
\* itself under the lock, or was withdrawn after that read.
ActsOnFreshWish ==
    \A w \in Workers : pc[w] \in Past /\ w \notin revoked => Wanted

\* "with a 15-minute cooldown": no run gets ready to act while it lasts.
CooldownIsKept ==
    \A w \in Workers : pc[w] \in Past => cooldown = 0

\* A row of failures is followed by its whole pause before any run is past its fresh
\* read again, however many overlap, unless a person ends it.  The pause is written
\* after the failure is counted: one that dies in between is lost, until the next
\* failure earns it anew.
PauseIsServed ==
    \A w \in Workers : pc[w] \in Past \ {"pause"} => owed = 0

\* A server that should run and is down is acted on, comes back or is given up, if
\* sweeps go on to select it: fifty healthy servers that were never recovered come
\* before it at every sweep, and then it is not.
IsRecovered ==
    []<>(\E w \in Workers : pc[w] = "picked") =>
        (Wanted /\ container = "exited" ~>
            (~Wanted \/ container # "exited" \/ \E w \in Workers : pc[w] = "act"))
=============================================================================
