------------------------------- MODULE AlertMail -------------------------------
(***************************************************************************)
(* The mails about alerts.  Every minute the operations loop asks the      *)
(* panel for a dispatch: it evaluates the alerts, reads what the last      *)
(* dispatch stored, mails what is new or due again and what has ended, and *)
(* stores the new state.  The loop waits 30 s for it, which a few slow     *)
(* mails outlast: the dispatch of a later minute then runs beside it.      *)
(*                                                                         *)
(* Time goes on without end, so mails are told apart by their age.         *)
(* Thresholds and texts are left out, as is the maintenance notice itself, *)
(* which is never mailed about; and whether a mail arrives, for the        *)
(* dispatch takes one that failed or was skipped for sent.                 *)
(***************************************************************************)
EXTENDS Naturals

CONSTANTS
    Runs,        \* dispatches in flight
    Graded,      \* conditions with a key for each severity: a node, the disk, ...
    Single,      \* conditions with one key: tickets, stuck or failed orders, ...
    Settings,    \* [mail, criticalOnly, suppress]; mail: somebody gets any
    Repeat,      \* repeatHours, in ticks; one choice of it
    MaxCrashes,  \* bound
    Never        \* no time

Conditions == Graded \cup Single
Key(c, severity) == IF c \in Graded THEN <<c, severity>> ELSE <<c, "any">>
Keys == {Key(c, s) : c \in Conditions, s \in {"critical", "warning"}}
Levels == {"none", "warning", "critical"}
MailAges == 0..Repeat  \* ages beyond Repeat are not told apart

VARIABLES
    level,        \* what each condition comes to
    maintenance,  \* operations.maintenanceMode
    settings,     \* notification_settings
    stored,       \* alert_dispatch_state: keys to [severity, sent], the mail's age
    run,          \* what a dispatch knows, or None
    last,         \* age of the last mail about a key since it was last stored as gone
    torn,         \* keys whose mail a crash or an overlap may have made it forget
    crashes

vars == <<level, maintenance, settings, stored, run, last, torn, crashes>>

None == [step |-> "none"]
Entry == [severity : {"warning", "critical"}, sent : MailAges \cup {Never}]
States == UNION {[K -> Entry] : K \in SUBSET Keys}
Busy(r) == run[r] # None
Started(r) == Busy(r) /\ run[r].step # "read"

\* Of a dispatch: what it evaluated; then what it will store, what it mails about, and
\* whether no other dispatch has run beside it since it read the stored state.
Work ==
    [step : {"read"}, found : [Conditions -> Levels], by : Settings, quiet : BOOLEAN]
      \cup {w \in [step : {"mail", "save"}, current : States, send : SUBSET Keys, alone : BOOLEAN] :
               w.send \subseteq DOMAIN w.current}

ASSUME MailAssumption ==
    /\ Repeat \in Nat /\ MaxCrashes \in Nat
    /\ Never \notin MailAges
    /\ \A s \in Settings : s.suppress \in BOOLEAN

TypeOK ==
    /\ level \in [Conditions -> Levels] /\ maintenance \in BOOLEAN
    /\ settings \in Settings /\ stored \in States
    /\ run \in [Runs -> Work \cup {None}]
    /\ last \in [Keys -> MailAges \cup {Never}]
    /\ torn \subseteq Keys /\ crashes \in 0..MaxCrashes

Init ==
    /\ level = [c \in Conditions |-> "none"]
    /\ maintenance = FALSE /\ settings \in Settings
    /\ stored = [k \in {} |-> None]
    /\ run = [r \in Runs |-> None]
    /\ last = [k \in Keys |-> Never]
    /\ torn = {} /\ crashes = 0

-----------------------------------------------------------------------------
(* The dispatch *)

\* evaluateAlerts: the settings come with what it finds.
Evaluate(r) ==
    /\ ~Busy(r)
    /\ run' = [run EXCEPT ![r] = [step |-> "read", found |-> level, by |-> settings,
                                  quiet |-> settings.suppress /\ maintenance]]
    /\ UNCHANGED <<level, maintenance, settings, stored, last, torn, crashes>>

Sent(k) == IF k \in DOMAIN stored THEN stored[k].sent ELSE Never

\* Mutant: the time of the last mail is not carried over.
CurrentUnsent(found) ==
    LET on == {c \in Conditions : found[c] # "none"}
    IN  [k \in {Key(c, found[c]) : c \in on} |->
            [severity |-> found[CHOOSE c \in on : k = Key(c, found[c])], sent |-> Never]]

\* allCurrent: what is active, with the time of the last mail about it.
Current(found) ==
    LET on == {c \in Conditions : found[c] # "none"}
    IN  [k \in {Key(c, found[c]) : c \in on} |->
            [severity |-> found[CHOOSE c \in on : k = Key(c, found[c])], sent |-> Sent(k)]]

Eligible(known, current) ==
    {k \in DOMAIN current : ~known.quiet
                            /\ (known.by.criticalOnly => current[k].severity = "critical")}

\* Mutant: only alerts that have been mailed about before are due.
DueAgain(known, current) ==
    {k \in Eligible(known, current) : Sent(k) # Never /\ Sent(k) >= Repeat}

\* Mutant: every eligible alert is due.
DueAlways(known, current) == Eligible(known, current)

\* toSend
Due(known, current) ==
    {k \in Eligible(known, current) : Sent(k) # Never => Sent(k) >= Repeat}

\* What the last dispatch stored decides.
ReadState(r) ==
    LET known == run[r]
        current == Current(known.found)
    IN  /\ Busy(r) /\ known.step = "read"
        /\ run' = [q \in Runs |->
              IF q = r
              THEN [step |-> "mail", current |-> current,
                    send |-> IF known.by.mail THEN Due(known, current) ELSE {},
                    alone |-> \A p \in Runs \ {r} : ~Started(p)]
              ELSE IF Started(q) THEN [run[q] EXCEPT !.alone = FALSE] ELSE run[q]]
        /\ UNCHANGED <<level, maintenance, settings, stored, last, torn, crashes>>

\* The mails to all recipients, whatever becomes of them; those about what has ended
\* leave nothing behind.
Mail(r) ==
    /\ Busy(r) /\ run[r].step = "mail"
    /\ run' = [run EXCEPT ![r].step = "save",
                          ![r].current = [k \in DOMAIN @ |->
                              IF k \in run[r].send THEN [@[k] EXCEPT !.sent = 0] ELSE @[k]]]
    /\ last' = [k \in Keys |-> IF k \in run[r].send THEN 0 ELSE last[k]]
    /\ UNCHANGED <<level, maintenance, settings, stored, torn, crashes>>

\* The whole state is replaced, whatever another dispatch stored meanwhile.
Save(r) ==
    LET kept == DOMAIN run[r].current
    IN  /\ Busy(r) /\ run[r].step = "save"
        /\ stored' = run[r].current
        /\ run' = [run EXCEPT ![r] = None]
        /\ last' = [k \in Keys |-> IF k \in kept THEN last[k] ELSE Never]
        /\ torn' = {k \in kept : ~run[r].alone \/ k \in torn \ run[r].send}
        /\ UNCHANGED <<level, maintenance, settings, crashes>>

-----------------------------------------------------------------------------
(* Around it *)

\* A statement of a dispatch fails, or the panel stops with all that are under way.
Die(gone) ==
    /\ gone # {} /\ (\A r \in gone : Busy(r)) /\ crashes < MaxCrashes
    /\ crashes' = crashes + 1
    /\ run' = [r \in Runs |-> IF r \in gone THEN None ELSE run[r]]
    /\ torn' = torn \cup UNION {run[r].send : r \in {q \in gone : Started(q)}}
    /\ UNCHANGED <<level, maintenance, settings, stored, last>>

Change(c, new) ==
    /\ level[c] # new
    /\ level' = [level EXCEPT ![c] = new]
    /\ UNCHANGED <<maintenance, settings, stored, run, last, torn, crashes>>

ToggleMaintenance ==
    /\ maintenance' = ~maintenance
    /\ UNCHANGED <<level, settings, stored, run, last, torn, crashes>>

Configure(new) ==
    /\ settings' = new /\ new # settings
    /\ UNCHANGED <<level, maintenance, stored, run, last, torn, crashes>>

OlderMail(age) == IF age \in MailAges \ {Repeat} THEN age + 1 ELSE age
OlderMails(state) == [k \in DOMAIN state |-> [state[k] EXCEPT !.sent = OlderMail(@)]]

Tick ==
    /\ stored' = OlderMails(stored)
    /\ run' = [r \in Runs |->
                 IF Started(r) THEN [run[r] EXCEPT !.current = OlderMails(@)] ELSE run[r]]
    /\ last' = [k \in Keys |-> OlderMail(last[k])]
    /\ UNCHANGED <<level, maintenance, settings, torn, crashes>>

Dispatch(r) == Evaluate(r) \/ ReadState(r) \/ Mail(r) \/ Save(r)

Next ==
    \/ \E r \in Runs : Dispatch(r)
    \/ \E gone \in SUBSET Runs : Die(gone)
    \/ \E c \in Conditions, new \in Levels : Change(c, new)
    \/ \E new \in Settings : Configure(new)
    \/ ToggleMaintenance \/ Tick

\* The loop never stops asking, every mail ends, if only by its timeouts, and time goes on.
Fairness == WF_vars(Tick) /\ \A r \in Runs : WF_vars(Dispatch(r))

Spec == Init /\ [][Next]_vars /\ Fairness

-----------------------------------------------------------------------------
(* Properties *)

\* A dispatch that runs alone forgets no mail: while an alert lasts, the time of the
\* mail about it is stored, or a dispatch that mails about it is still to store one.
\* Overlaps and crashes do make dispatches forget, and are excepted.
MailsAreRemembered ==
    \A k \in Keys : last[k] # Never /\ k \notin torn =>
        \/ k \in DOMAIN stored /\ stored[k].sent = last[k]
        \/ \E r \in Runs : Started(r) /\ k \in run[r].send

\* A dispatch that runs alone does not mail about a lasting alert again before it is
\* due, whatever the recipients, the severities, maintenance and the alert's own severity
\* have been meanwhile; the interval itself is not changed.
MailsAreSpaced ==
    [][\A r \in Runs : Mail(r) /\ run[r].alone =>
          \A k \in run[r].send \ torn : last[k] # Never => last[k] >= Repeat
      ]_<<run, last>>

\* The settings let a mail about a critical alert out.
Heard(c) ==
    /\ level[c] = "critical" /\ settings.mail /\ ~(settings.suppress /\ maintenance)

\* A dispatch mails about c as critical.
MailsCritical(r, c) ==
    LET k == Key(c, "critical")
    IN  Mail(r) /\ k \in run[r].send /\ run[r].current[k].severity = "critical"

\* A critical alert that lasts is mailed about as critical, again and again, if mails
\* stay on and unsuppressed, whatever overlapping and dying dispatches store of it.
CriticalIsMailed ==
    \A c \in Conditions :
        (<>[]Heard(c)) => []<><<\E r \in Runs : MailsCritical(r, c)>>_vars
=============================================================================
