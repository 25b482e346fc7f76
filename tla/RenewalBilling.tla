---------------------------- MODULE RenewalBilling ----------------------------
(***************************************************************************)
(* The billing worker: every tick it takes the servers that are due, and   *)
(* for each one charges the owner's wallet and renews, or opens an invoice *)
(* and suspends, in one transaction; afterwards it starts or stops the     *)
(* container and records that in a statement of its own.  Workers overlap  *)
(* and die between any two of these; staff suspend and unsuspend, and the  *)
(* owner tops up, meanwhile.  All servers are of one owner and one price.  *)
(***************************************************************************)
EXTENDS Naturals

CONSTANTS
    Servers,
    Workers,     \* billing workers at work together
    Staff,       \* suspensions and unsuspensions at work together
    Price,
    MaxCredits,  \* largest balance a top-up leads to (bound)
    MaxPeriods   \* ends of a paid period per server (bound)

ASSUME PriceAssumption == Price \in Nat \ {0}
ASSUME ServersAssumption == Servers # {}
ASSUME BoundAssumption == MaxCredits \in Nat /\ MaxPeriods \in Nat

VARIABLES
    credits,    \* users.credits
    due,        \* next_due_at has passed
    suspended,  \* servers.suspended; billing_status follows it
    status,     \* servers.status
    container,  \* whether the container runs
    open,       \* a DUE invoice of kind RENEWAL
    paid,       \* PAID invoices of kind RENEWAL, and wallet debits
    periods,    \* history: paid periods that ended
    crowded,    \* fifty servers of the platform are due since before it
    pc,         \* next step of a worker
    target,     \* server it is at
    desk        \* staff call carried to the node, not yet recorded

money == <<credits, open, paid>>
service == <<due, suspended, status>>
calendar == <<periods, crowded>>
work == <<pc, target>>
vars == <<money, service, container, calendar, work, desk>>

TypeOK ==
    /\ credits \in Nat
    /\ due \in [Servers -> BOOLEAN] /\ suspended \in [Servers -> BOOLEAN]
    /\ status \in [Servers -> {"running", "offline", "error"}]
    /\ container \in [Servers -> BOOLEAN]
    /\ open \in [Servers -> 0..1]
    /\ paid \in [Servers -> 0..MaxPeriods] /\ periods \in [Servers -> 0..MaxPeriods]
    /\ crowded \in [Servers -> BOOLEAN]
    /\ pc \in [Workers -> {"idle", "charge", "start", "stop", "started", "stopped"}]
    /\ target \in [Workers -> Servers]
    /\ desk \in [Staff -> [wish : {"none", "suspend", "unsuspend"}, server : Servers]]

Init ==
    /\ credits \in 0..MaxCredits
    /\ due = [s \in Servers |-> FALSE] /\ suspended = [s \in Servers |-> FALSE]
    /\ status = [s \in Servers |-> "running"]
    /\ container = [s \in Servers |-> TRUE]
    /\ open = [s \in Servers |-> 0]
    /\ paid = [s \in Servers |-> 0] /\ periods = [s \in Servers |-> 0]
    /\ crowded = [s \in Servers |-> FALSE]
    /\ pc = [w \in Workers |-> "idle"]
    /\ target \in [Workers -> Servers]
    /\ desk = [a \in Staff |-> [wish |-> "none", server |-> CHOOSE s \in Servers : TRUE]]

-----------------------------------------------------------------------------
(* The worker *)

\* Mutant: a tick lists only servers that are still active.
PickActiveDue(w, s) ==
    /\ pc[w] = "idle"
    /\ due[s] /\ ~crowded[s] /\ ~suspended[s]
    /\ pc' = [pc EXCEPT ![w] = "charge"]
    /\ target' = [target EXCEPT ![w] = s]
    /\ UNCHANGED <<money, service, container, calendar, desk>>

\* The list of the tick: the fifty servers that are due longest, active or suspended;
\* the rest of it comes later, as other candidates.
PickDue(w, s) ==
    /\ pc[w] = "idle"
    /\ due[s] /\ ~crowded[s]
    /\ pc' = [pc EXCEPT ![w] = "charge"]
    /\ target' = [target EXCEPT ![w] = s]
    /\ UNCHANGED <<money, service, container, calendar, desk>>

Proceed(w, step) ==
    /\ pc' = [pc EXCEPT ![w] = step]
    /\ UNCHANGED target

\* Under the server's and the wallet's row locks: nothing is due any more.
AlreadyRenewed(w) ==
    /\ pc[w] = "charge" /\ ~due[target[w]]
    /\ Proceed(w, "idle")
    /\ UNCHANGED <<money, service, container, calendar, desk>>

\* Mutant: the candidate is charged without a second look at its due date.
RenewCandidate(w) ==
    LET s == target[w] IN
    /\ pc[w] = "charge" /\ credits >= Price
    /\ credits' = credits - Price
    /\ paid' = [paid EXCEPT ![s] = @ + 1]
    /\ open' = [open EXCEPT ![s] = 0]
    /\ due' = [due EXCEPT ![s] = FALSE]
    /\ suspended' = [suspended EXCEPT ![s] = FALSE]
    /\ Proceed(w, IF suspended[s] THEN "start" ELSE "idle")
    /\ UNCHANGED <<status, container, calendar, desk>>

\* Mutant: the debit is made only when no invoice was open.
RenewOpenFree(w) ==
    LET s == target[w] IN
    /\ pc[w] = "charge" /\ due[s] /\ credits >= Price
    /\ credits' = IF open[s] = 0 THEN credits - Price ELSE credits
    /\ paid' = [paid EXCEPT ![s] = @ + 1]
    /\ open' = [open EXCEPT ![s] = 0]
    /\ due' = [due EXCEPT ![s] = FALSE]
    /\ suspended' = [suspended EXCEPT ![s] = FALSE]
    /\ Proceed(w, IF suspended[s] THEN "start" ELSE "idle")
    /\ UNCHANGED <<status, container, calendar, desk>>

\* Debit, due date, invoice and flags commit together.
Renew(w) ==
    LET s == target[w] IN
    /\ pc[w] = "charge" /\ due[s] /\ credits >= Price
    /\ credits' = credits - Price
    /\ paid' = [paid EXCEPT ![s] = @ + 1]
    /\ open' = [open EXCEPT ![s] = 0]
    /\ due' = [due EXCEPT ![s] = FALSE]
    /\ suspended' = [suspended EXCEPT ![s] = FALSE]
    /\ Proceed(w, IF suspended[s] THEN "start" ELSE "idle")
    /\ UNCHANGED <<status, container, calendar, desk>>

\* Mutant: the container is stopped only by the worker that suspends.
SuspendOnce(w) ==
    LET s == target[w] IN
    /\ pc[w] = "charge" /\ due[s] /\ credits < Price
    /\ open' = [open EXCEPT ![s] = 1]
    /\ suspended' = [suspended EXCEPT ![s] = TRUE]
    /\ Proceed(w, IF ~suspended[s] THEN "stop" ELSE "idle")
    /\ UNCHANGED <<credits, paid, due, status, container, calendar, desk>>

\* The server stays due, so that every later tick comes back to it, and it keeps its
\* place in the list.
Suspend(w) ==
    LET s == target[w] IN
    /\ pc[w] = "charge" /\ due[s] /\ credits < Price
    /\ open' = [open EXCEPT ![s] = 1]
    /\ suspended' = [suspended EXCEPT ![s] = TRUE]
    /\ Proceed(w, IF ~suspended[s] \/ status[s] # "offline" THEN "stop" ELSE "idle")
    /\ UNCHANGED <<credits, paid, due, status, container, calendar, desk>>

CallNode(w) ==
    /\ pc[w] \in {"start", "stop"}
    /\ container' = [container EXCEPT ![target[w]] = pc[w] = "start"]
    /\ Proceed(w, IF pc[w] = "start" THEN "started" ELSE "stopped")
    /\ UNCHANGED <<money, service, calendar, desk>>

\* A failed start is recorded, a failed stop is left for the next tick.
NodeRefuses(w) ==
    /\ pc[w] \in {"start", "stop"}
    /\ IF pc[w] = "start"
       THEN status' = [status EXCEPT ![target[w]] = "error"]
       ELSE UNCHANGED status
    /\ Proceed(w, "idle")
    /\ UNCHANGED <<money, due, suspended, container, calendar, desk>>

NoteRuntime(w) ==
    /\ pc[w] \in {"started", "stopped"}
    /\ status' = [status EXCEPT ![target[w]] = IF pc[w] = "started" THEN "running" ELSE "offline"]
    /\ Proceed(w, "idle")
    /\ UNCHANGED <<money, due, suspended, container, calendar, desk>>

\* After a commit the worker may die and forget what it had still to do.
WorkerDies(w) ==
    /\ pc[w] # "idle"
    /\ Proceed(w, "idle")
    /\ UNCHANGED <<money, service, container, calendar, desk>>

-----------------------------------------------------------------------------
(* Time, the owner, staff and the panel's recovery *)

PeriodEnds(s) ==
    /\ ~due[s] /\ periods[s] < MaxPeriods
    /\ due' = [due EXCEPT ![s] = TRUE]
    /\ periods' = [periods EXCEPT ![s] = @ + 1]
    /\ \E ahead \in BOOLEAN : crowded' = [crowded EXCEPT ![s] = ahead]
    /\ UNCHANGED <<money, suspended, status, container, work, desk>>

\* Servers ahead of it are renewed or deleted; none comes before it any more.
MakeRoom(s) ==
    /\ due[s] /\ crowded[s]
    /\ crowded' = [crowded EXCEPT ![s] = FALSE]
    /\ UNCHANGED <<money, service, container, periods, work, desk>>

\* Staff raise the balance in the user form; what that form does to roles and bans is
\* in AccountAccess.
TopUp ==
    /\ credits < MaxCredits
    /\ credits' = credits + 1
    /\ UNCHANGED <<open, paid, service, container, calendar, work, desk>>

\* Staff read the flag and call the node; the row is written when it answers.
AskLifecycle(a, s) ==
    /\ desk[a].wish = "none"
    /\ container' = [container EXCEPT ![s] = suspended[s]]
    /\ desk' = [desk EXCEPT ![a] =
                  [wish |-> IF suspended[s] THEN "unsuspend" ELSE "suspend", server |-> s]]
    /\ UNCHANGED <<money, service, calendar, work>>

KeepLifecycle(a) ==
    LET s == desk[a].server IN
    /\ desk[a].wish # "none"
    /\ suspended' = [suspended EXCEPT ![s] = desk[a].wish = "suspend"]
    /\ status' = IF desk[a].wish = "suspend" THEN [status EXCEPT ![s] = "offline"] ELSE status
    /\ desk' = [desk EXCEPT ![a].wish = "none"]
    /\ UNCHANGED <<money, due, container, calendar, work>>

\* Recovery finds a server healthy that is not suspended.
SeenHealthy(s) ==
    /\ ~suspended[s] /\ container[s]
    /\ status' = [status EXCEPT ![s] = "running"]
    /\ UNCHANGED <<money, due, suspended, container, calendar, work, desk>>

-----------------------------------------------------------------------------

Bill(w) == Renew(w) \/ Suspend(w) \/ AlreadyRenewed(w)
Runtime(w) == CallNode(w) \/ NodeRefuses(w) \/ NoteRuntime(w)

Next ==
    \/ \E w \in Workers : Bill(w) \/ Runtime(w) \/ WorkerDies(w) \/ \E s \in Servers : PickDue(w, s)
    \/ \E s \in Servers : PeriodEnds(s) \/ MakeRoom(s) \/ SeenHealthy(s)
    \/ TopUp
    \/ \E a \in Staff : KeepLifecycle(a) \/ \E s \in Servers : AskLifecycle(a, s)

\* Every worker ticks every thirty seconds and comes to every due server that is
\* among the first fifty.  It may die at any step, but not each time it is at the
\* same one; and a node that is asked again and again answers (a call without an
\* answer would hold the worker).  That a crowd ahead ever clears is not assumed.
Fairness ==
    \A w \in Workers, s \in Servers :
        /\ SF_vars(PickDue(w, s))
        /\ SF_vars(target[w] = s /\ Bill(w))
        /\ SF_vars(target[w] = s /\ CallNode(w))
        /\ SF_vars(target[w] = s /\ NoteRuntime(w))

Spec == Init /\ [][Next]_vars /\ Fairness

-----------------------------------------------------------------------------
(* Properties *)

\* One charge for each period that ended, however many workers, ticks and
\* crashes dealt with it, and however long the server stayed suspended.
OneChargePerPeriod ==
    \A s \in Servers : paid[s] + (IF due[s] THEN 1 ELSE 0) = periods[s]

\* A renewal invoice is open only for a period that is due, one at a time.
OneOpenInvoice == \A s \in Servers : open[s] <= 1 /\ (open[s] = 1 => due[s])

\* Every end of a period has a bill, as PaymentLedger sees it.
BillOf(s, k) ==
    IF k <= paid[s] THEN "paid" ELSE IF k = paid[s] + 1 /\ open[s] = 1 THEN "open" ELSE "none"

Ledger == INSTANCE PaymentLedger WITH
    Orders <- Servers \X (1..MaxPeriods),
    bill <- [b \in Servers \X (1..MaxPeriods) |-> BillOf(b[1], b[2])]

\* Renewals obey the ledger that checkouts obey: a bill is settled once, for its
\* price, out of a sufficient balance.
RenewalsKeepLedger == Ledger!LedgerSpec

\* A due server that has its place in the list is renewed or suspended, and one that
\* can be paid for from some time on, suspended or not, is renewed.  Of a server
\* behind fifty others nothing is promised: suspended ones that nobody pays for keep
\* their date and their place, and hide every later one.
DueIsSettled ==
    \A s \in Servers :
        /\ due[s] /\ ~crowded[s] ~> (~due[s] \/ suspended[s])
        /\ due[s] /\ ~crowded[s] /\ [](credits >= Price) ~> ~due[s]

\* A worker that dies between the suspension and the stop leaves the stop to
\* later ticks, as long as the row does not claim that it was done.  What a worker
\* suspended had its place in the list and keeps it; staff also suspend others.
StopIsRetried ==
    \A s \in Servers :
        due[s] /\ ~crowded[s] /\ suspended[s] /\ status[s] # "offline" ~>
            (~due[s] \/ ~suspended[s] \/ status[s] = "offline")
=============================================================================
