----------------------------- MODULE StatusHistory -----------------------------
(***************************************************************************)
(* The minute history of the public status page.  The operations loop      *)
(* probes the nodes and records a sample; every load of the page records   *)
(* one too, and then builds what it shows.  A sample goes into the row of  *)
(* the minute in which it is written, one component after the other, and   *)
(* rows that the page does not show any more are deleted.                  *)
(*                                                                         *)
(* Time goes on without end, so rows are told apart by their age: row 0 is *)
(* the current minute's.  Components are nodes; what several nodes come to *)
(* and what incidents make of it is in HeartbeatReports.  Latencies,       *)
(* percentages and texts are left out.                                     *)
(***************************************************************************)
EXTENDS Naturals

CONSTANTS
    Components,      \* nodes with a component of their own
    Crons,           \* samplings of the loop in flight: it waits 30 s for one
    Loads,           \* loads of the page in flight
    HistoryMinutes,  \* minutes that the page shows
    Depth,           \* bound: rows of that age or more are not told apart
    Delayed, Lost,   \* minutes of silence after which a node is degraded, out
    MaxFailures,     \* bound
    Nothing

Samplers == Loads \cup Crons
Ages == 0..Depth
Status == {"operational", "degraded", "outage", "maintenance"}
Rows == [Ages -> Status \cup {Nothing}]

VARIABLES
    up,        \* nodes that answer
    served,    \* nodes that are enabled
    silence,   \* minutes since a node was heard of, up to Lost
    public,    \* config.enabled
    rows,      \* status_component_snapshots
    samples,   \* the samples and builds in flight
    page,      \* what the visitor is shown of each component, or Nothing
    pruned,    \* age of the last pruning, up to Depth
    failures

historyVars == <<up, served, silence, public, rows, samples, page, pruned, failures>>
nodeVars == <<up, served, silence, public>>

View == [Components -> Status]

Task ==
    [step : {"probe", "sample", "prune", "build"}]
      \cup {w \in [step : {"insert"}, found : UNION {[C -> Status] : C \in SUBSET Components},
                   left : SUBSET Components] : w.left # {} /\ DOMAIN w.found = w.left}
      \cup [step : {"show"}, view : View]

\* What there is to record, and for how long.
ASSUME HistoryAssumption ==
    /\ Components # {}
    /\ HistoryMinutes \in Nat \ {0} /\ Depth \in Nat /\ HistoryMinutes <= Depth
    /\ Lost \in Nat /\ MaxFailures \in Nat
    /\ Nothing \notin Status \cup View \cup Task

\* Only the loop probes, and only loads build a page.
HistoryTypeOK ==
    /\ up \subseteq Components /\ served \subseteq Components
    /\ silence \in [Components -> 0..Lost]
    /\ public \in BOOLEAN
    /\ rows \in [Components -> Rows]
    /\ samples \in [Samplers -> Task \cup {Nothing}]
    /\ \A r \in Samplers : samples[r] # Nothing =>
          samples[r].step \notin IF r \in Crons THEN {"build", "show"} ELSE {"probe"}
    /\ page \in View \cup {Nothing}
    /\ pruned \in Ages /\ failures \in 0..MaxFailures

HistoryInit ==
    /\ up = Components /\ served = Components
    /\ silence = [c \in Components |-> 0]
    /\ public = TRUE
    /\ rows = [c \in Components |-> [a \in Ages |-> Nothing]]
    /\ samples = [r \in Samplers |-> Nothing]
    /\ page = Nothing /\ pruned = 0 /\ failures = 0

-----------------------------------------------------------------------------
(* recordPublicStatusSample *)

At(r, step) == samples[r] # Nothing /\ samples[r].step = step
Go(r, work) == samples' = [samples EXCEPT ![r] = work]
Step(step) == [step |-> step]
Failing == failures < MaxFailures /\ failures' = failures + 1

Begin(r) ==
    /\ samples[r] = Nothing
    /\ Go(r, Step(IF r \in Crons THEN "probe" ELSE "sample"))
    /\ UNCHANGED <<nodeVars, rows, page, pruned, failures>>

\* Mutant: a probe that fails is taken for a sign of life.
ProbeAny(r) ==
    /\ At(r, "probe")
    /\ silence' = [c \in Components |-> IF c \in served THEN 0 ELSE silence[c]]
    /\ Go(r, Step("sample"))
    /\ UNCHANGED <<up, served, public, rows, page, pruned, failures>>

\* refreshNodeTelemetry asks every enabled node, if it can read which there are.
Probe(r) ==
    /\ At(r, "probe")
    /\ \/ /\ silence' = [c \in Components |-> IF c \in served \cap up THEN 0 ELSE silence[c]]
          /\ UNCHANGED failures
       \/ Failing /\ UNCHANGED silence
    /\ Go(r, Step("sample"))
    /\ UNCHANGED <<up, served, public, rows, page, pruned>>

CurrentNodeStatus(c) ==
    IF c \notin served THEN "maintenance"
    ELSE IF silence[c] >= Lost THEN "outage"
    ELSE IF silence[c] >= Delayed THEN "degraded" ELSE "operational"

CurrentStatus == [c \in Components |-> CurrentNodeStatus(c)]

AfterSample(r) == IF r \in Crons THEN Nothing ELSE Step("build")

\* evaluateCurrent: every node is out if the inventory cannot be read.
Reads(found) ==
    \/ found = CurrentStatus /\ UNCHANGED failures
    \/ found = [c \in Components |-> "outage"] /\ Failing

\* No sample is taken of a page that is switched off.
EvaluateNodes(r) ==
    /\ At(r, "sample")
    /\ \/ /\ public
          /\ \E found \in View :
                Reads(found) /\ Go(r, [step |-> "insert", found |-> found, left |-> Components])
       \/ ~public /\ Go(r, AfterSample(r)) /\ UNCHANGED failures
    /\ UNCHANGED <<nodeVars, rows, page, pruned>>

\* One upsert; one that fails is reported and the others go on.
Insert(r, c) ==
    /\ At(r, "insert") /\ c \in samples[r].left
    /\ LET left == samples[r].left \ {c}
       IN  Go(r, IF left = {} THEN Step("prune")
                 ELSE [step |-> "insert", left |-> left,
                       found |-> [d \in left |-> samples[r].found[d]]])
    /\ \/ rows' = [rows EXCEPT ![c][0] = samples[r].found[c]] /\ UNCHANGED failures
       \/ Failing /\ UNCHANGED rows
    /\ UNCHANGED <<nodeVars, page, pruned>>

\* Mutant: the oldest minute that is shown goes too.
PrunedShort(kept) == [a \in Ages |-> IF a + 1 < HistoryMinutes THEN kept[a] ELSE Nothing]

\* Mutant: only the minute that has just left the page goes.
PrunedOne(kept) == [kept EXCEPT ![HistoryMinutes] = Nothing]

Pruned(kept) == [a \in Ages |-> IF a < HistoryMinutes THEN kept[a] ELSE Nothing]

Prune(r) ==
    /\ At(r, "prune")
    /\ Go(r, AfterSample(r))
    /\ \/ /\ rows' = [c \in Components |-> Pruned(rows[c])]
          /\ pruned' = 0 /\ UNCHANGED failures
       \/ Failing /\ UNCHANGED <<rows, pruned>>
    /\ UNCHANGED <<nodeVars, page>>

-----------------------------------------------------------------------------
(* buildPublicStatus, and the page in the visitor's browser *)

\* What is current; a page that is switched off is an error.
Build(r) ==
    /\ At(r, "build")
    /\ \/ /\ public
          /\ \E view \in View : Reads(view) /\ Go(r, [step |-> "show", view |-> view])
       \/ ~public /\ Go(r, Nothing) /\ UNCHANGED failures
    /\ UNCHANGED <<nodeVars, rows, page, pruned>>

\* Answers of overlapping loads are shown in the order in which they arrive.
Show(r) ==
    /\ At(r, "show")
    /\ page' = samples[r].view
    /\ Go(r, Nothing)
    /\ UNCHANGED <<nodeVars, rows, pruned, failures>>

-----------------------------------------------------------------------------
(* Around it *)

\* The panel restarts, or a request is lost.
Abort(r) ==
    /\ samples[r] # Nothing /\ Failing
    /\ Go(r, Nothing)
    /\ UNCHANGED <<nodeVars, rows, page, pruned>>

Older(kept) ==
    [a \in Ages |-> IF a = 0 THEN Nothing
                    ELSE IF a = Depth /\ kept[a] # Nothing THEN kept[a] ELSE kept[a - 1]]
Grown(n, last) == IF n < last THEN n + 1 ELSE n

Minute ==
    /\ silence' = [c \in Components |-> Grown(silence[c], Lost)]
    /\ rows' = [c \in Components |-> Older(rows[c])]
    /\ pruned' = Grown(pruned, Depth)
    /\ UNCHANGED <<up, served, public, samples, page, failures>>

Beat(c) ==
    /\ c \in up
    /\ silence' = [silence EXCEPT ![c] = 0]
    /\ UNCHANGED <<up, served, public, rows, samples, page, pruned, failures>>

ChangeNode(c) ==
    /\ \/ up' = (up \ {c}) \cup ({c} \ up) /\ UNCHANGED served
       \/ served' = (served \ {c}) \cup ({c} \ served) /\ UNCHANGED up
    /\ UNCHANGED <<silence, public, rows, samples, page, pruned, failures>>

TogglePage ==
    /\ public' = ~public
    /\ UNCHANGED <<up, served, silence, rows, samples, page, pruned, failures>>

Sample(r) == \/ Begin(r) \/ EvaluateNodes(r) \/ Prune(r)
             \/ (\E c \in Components : Insert(r, c)) \/ Probe(r)
Load(r) == Sample(r) \/ Build(r) \/ Show(r)

HistoryNext ==
    \/ (\E r \in Crons : Sample(r)) \/ (\E r \in Loads : Load(r)) \/ (\E r \in Samplers : Abort(r))
    \/ (\E c \in Components : Beat(c) \/ ChangeNode(c)) \/ TogglePage \/ Minute

\* The loop samples, the open page loads, and time passes, for ever.
HistorySpec ==
    /\ HistoryInit /\ [][HistoryNext]_historyVars
    /\ \A r \in Crons : WF_historyVars(Sample(r))
    /\ \A r \in Loads : WF_historyVars(Load(r))
    /\ WF_historyVars(Minute)

-----------------------------------------------------------------------------
(* Properties *)

\* Pruning never takes a minute that a page may still show, whoever prunes when.
WindowIsKept ==
    [][\/ rows' = [c \in Components |-> Older(rows[c])]
       \/ \A c \in Components, a \in 0..HistoryMinutes - 1 :
             rows[c][a] # Nothing => rows'[c][a] # Nothing]_rows

\* Rows pile up only since the last pruning that worked: at that time none was older
\* than what the page shows.
HistoryIsBounded ==
    \A c \in Components, a \in Ages :
        rows[c][a] # Nothing => a < HistoryMinutes + pruned \/ pruned = Depth

\* The visitor of an open page learns of a node that stays away, although samples and
\* loads of before show it up, the probe, a read or a write may fail, and the page may
\* have been switched off meanwhile.
DownIsShown ==
    \A c \in Components :
        (<>[](c \in served \ up /\ public)) => <>[](page # Nothing /\ page[c] = "outage")
=============================================================================
