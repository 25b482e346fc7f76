--------------------------- MODULE OrderLifecycle ---------------------------
(***************************************************************************)
(* Hosting orders of one customer: payment, provisioning, refund, and      *)
(* everything else that moves an order between its states.                 *)
(*                                                                         *)
(* A request is one run of a route handler.  It advances one awaited call  *)
(* at a time (a statement, a transaction, or a CrakNode call), so requests *)
(* interleave exactly where the handlers await.  Background work and the   *)
(* staff routes that are a single transaction are single actions.          *)
(*                                                                         *)
(* An element of Orders is a checkout attempt: a (user, idempotency key)   *)
(* pair.  Its order row does not exist while its status is "NONE".         *)
(***************************************************************************)
EXTENDS Integers, FiniteSets

CONSTANTS
    Orders,                 \* checkout attempts of one customer
    Requests,               \* handler runs that can be in progress together
    Servers,                \* server rows that can be inserted
    None,                   \* SQL null
    Price,                  \* orders.amount
    MaxCredits,             \* largest balance staff write (bound)
    MaxRestarts,            \* panel restarts (bound)
    FailureReasonNullable   \* FALSE: orders.failure_reason is NOT NULL, as shipped

ASSUME PriceAssumption == Price \in Nat \ {0}
ASSUME BoundAssumption == MaxCredits \in Nat /\ MaxRestarts \in Nat
ASSUME NullableAssumption == FailureReasonNullable \in BOOLEAN
ASSUME NoneAssumption ==
    /\ None \notin Orders /\ None \notin Requests /\ None \notin Servers

VARIABLES
    credits,      \* users.credits
    status,       \* orders.status
    method,       \* orders.payment_method
    link,         \* orders.server_id
    invoice,      \* status of the order's invoice
    debits,       \* wallet_transactions rows of type DEBIT that reference the order
    refunds,      \* wallet_transactions rows of type REFUND that reference the order
    server,       \* servers.status; "NONE" while the row does not exist
    payer,        \* the order a server row was inserted for
    viaRetry,     \* server rows inserted by a staff retry
    container,    \* state of the server's Docker container
    late,         \* servers whose create call the panel gave up on, still running on the node
    pc,           \* next awaited call of each request
    kind,         \* route a request runs
    cur,          \* order a request works on
    srv,          \* server row a request works on
    lock,         \* holder of the order's advisory lock
    restarts      \* panel restarts so far

money == <<credits, invoice, debits, refunds>>
orderRow == <<status, method, link>>
serverRow == <<server, payer, viaRetry>>
node == <<container, late>>
request == <<pc, kind, cur, srv>>
vars == <<money, orderRow, serverRow, node, request, lock, restarts>>

-----------------------------------------------------------------------------

Statuses == {"NONE", "PENDING", "PAID", "PROVISIONING", "ACTIVE", "CANCELLED", "FAILED"}
Invoices == {"NONE", "DUE", "PAID", "VOID", "REFUNDED"}
Kinds == {"wallet", "test_card", "resume", "retry"}
ServerStatuses == {"NONE", "installing", "running", "error", "deleted"}
ContainerStates == {"absent", "running", "exited", "dead"}

\* Calls a request makes while it holds the order's lock (a staff retry makes
\* the later ones without it).
Guarded == {"recheck", "mark", "find", "unlink", "reserve", "inspect", "create", "start",
            "verify", "ready", "activate", "cleanup", "retire", "quarantine", "settle"}
PCs == {"idle", "insertPending", "insertDue", "pay", "lock"} \cup Guarded

TypeOK ==
    /\ credits \in Nat
    /\ status \in [Orders -> Statuses]
    /\ method \in [Orders -> {"NONE", "wallet", "test_card"}]
    /\ link \in [Orders -> Servers \cup {None}]
    /\ invoice \in [Orders -> Invoices]
    /\ debits \in [Orders -> Nat]
    /\ refunds \in [Orders -> Nat]
    /\ server \in [Servers -> ServerStatuses]
    /\ payer \in [Servers -> Orders \cup {None}]
    /\ viaRetry \in SUBSET Servers
    /\ container \in [Servers -> ContainerStates]
    /\ late \in SUBSET Servers
    /\ pc \in [Requests -> PCs]
    /\ kind \in [Requests -> Kinds \cup {"none"}]
    /\ cur \in [Requests -> Orders \cup {None}]
    /\ srv \in [Requests -> Servers \cup {None}]
    /\ lock \in [Orders -> Requests \cup {None}]
    /\ restarts \in 0..MaxRestarts

Init ==
    /\ credits \in 0..MaxCredits
    /\ status = [o \in Orders |-> "NONE"]
    /\ method = [o \in Orders |-> "NONE"]
    /\ link = [o \in Orders |-> None]
    /\ invoice = [o \in Orders |-> "NONE"]
    /\ debits = [o \in Orders |-> 0]
    /\ refunds = [o \in Orders |-> 0]
    /\ server = [s \in Servers |-> "NONE"]
    /\ payer = [s \in Servers |-> None]
    /\ viaRetry = {}
    /\ container = [s \in Servers |-> "absent"]
    /\ late = {}
    /\ pc = [p \in Requests |-> "idle"]
    /\ kind = [p \in Requests |-> "none"]
    /\ cur = [p \in Requests |-> None]
    /\ srv = [p \in Requests |-> None]
    /\ lock = [o \in Orders |-> None]
    /\ restarts = 0

-----------------------------------------------------------------------------
(* Conditions the handlers test.  An operator whose comment says "Mutant" is a *)
(* faulty variant of the next one; no action uses it.                         *)

\* Mutant: without the unique index on (user_id, idempotency_key).
KeyNotUnique(o) == TRUE
\* No order row was inserted for this checkout attempt yet.
KeyIsFree(o) == status[o] = "NONE"

\* The balance, read for update, covers the price.
Affordable == credits >= Price

\* pg_try_advisory_lock succeeds.
LockIsFree(o) == lock[o] = None

\* Mutant: resume excludes only the orders that ended.
ResumableUnlessEnded(o) == status[o] \notin {"NONE", "CANCELLED", "FAILED"}
\* A resume works on an order that is paid for and not served yet.
Resumable(o) == status[o] \in {"PAID", "PROVISIONING"}

\* Mutant: only a server that runs counts as the order's reservation.
NotRunning(s) == server[s] # "running"
\* A linked server row that no longer reserves anything.
IsDeleted(s) == server[s] = "deleted"

-----------------------------------------------------------------------------
(* Steps of a request *)

At(p, call) == pc[p] = call

Goto(p, call) ==
    /\ pc' = [pc EXCEPT ![p] = call]
    /\ UNCHANGED <<kind, cur, srv>>

GotoWith(p, call, s) ==
    /\ pc' = [pc EXCEPT ![p] = call]
    /\ srv' = [srv EXCEPT ![p] = s]
    /\ UNCHANGED <<kind, cur>>

Begin(p, k, o, call) ==
    /\ At(p, "idle")
    /\ pc' = [pc EXCEPT ![p] = call]
    /\ kind' = [kind EXCEPT ![p] = k]
    /\ cur' = [cur EXCEPT ![p] = o]
    /\ UNCHANGED srv

\* The handler returns; `finally` releases the lock it may hold.
Return(p) ==
    /\ pc' = [pc EXCEPT ![p] = "idle"]
    /\ kind' = [kind EXCEPT ![p] = "none"]
    /\ cur' = [cur EXCEPT ![p] = None]
    /\ srv' = [srv EXCEPT ![p] = None]
    /\ lock' = [o \in Orders |-> IF lock[o] = p THEN None ELSE lock[o]]

-----------------------------------------------------------------------------
(* Checkout: storefront, billing page and test card *)

\* The session's copy of the balance decides the route before anything is locked.
StartStorefront(p, o) ==
    /\ KeyIsFree(o)
    /\ Begin(p, "wallet", o, IF Affordable THEN "pay" ELSE "insertPending")
    /\ UNCHANGED <<money, orderRow, serverRow, node, lock, restarts>>

\* The billing page refuses a poor customer instead of opening a pending order.
StartBilling(p, o) ==
    /\ KeyIsFree(o)
    /\ Affordable
    /\ Begin(p, "wallet", o, "pay")
    /\ UNCHANGED <<money, orderRow, serverRow, node, lock, restarts>>

StartTestCard(p, o) ==
    /\ KeyIsFree(o)
    /\ Begin(p, "test_card", o, "pay")
    /\ UNCHANGED <<money, orderRow, serverRow, node, lock, restarts>>

InsertPendingOrder(p) ==
    LET o == cur[p] IN
    /\ At(p, "insertPending")
    /\ \/ /\ KeyIsFree(o)
          /\ status' = [status EXCEPT ![o] = "PENDING"]
          /\ method' = [method EXCEPT ![o] = "wallet"]
          /\ Goto(p, "insertDue")
          /\ UNCHANGED lock
       \/ /\ ~KeyIsFree(o)              \* unique violation: replay
          /\ Return(p)
          /\ UNCHANGED <<status, method>>
    /\ UNCHANGED <<money, link, serverRow, node, restarts>>

InsertDueInvoice(p) ==
    /\ At(p, "insertDue")
    /\ invoice' = [invoice EXCEPT ![cur[p]] = "DUE"]
    /\ Return(p)
    /\ UNCHANGED <<credits, debits, refunds, orderRow, serverRow, node, restarts>>

\* One transaction: balance re-read for update, order, wallet row and invoice.
TakeWalletPayment(p) ==
    LET o == cur[p] IN
    /\ At(p, "pay")
    /\ kind[p] = "wallet"
    /\ Affordable
    /\ KeyIsFree(o)
    /\ status' = [status EXCEPT ![o] = "PAID"]
    /\ method' = [method EXCEPT ![o] = "wallet"]
    /\ credits' = credits - Price
    /\ debits' = [debits EXCEPT ![o] = @ + 1]
    /\ invoice' = [invoice EXCEPT ![o] = "PAID"]
    /\ Goto(p, "lock")
    /\ UNCHANGED <<refunds, link, serverRow, node, lock, restarts>>

TakeCardPayment(p) ==
    LET o == cur[p] IN
    /\ At(p, "pay")
    /\ kind[p] = "test_card"
    /\ KeyIsFree(o)
    /\ status' = [status EXCEPT ![o] = "PAID"]
    /\ method' = [method EXCEPT ![o] = "test_card"]
    /\ invoice' = [invoice EXCEPT ![o] = "PAID"]
    /\ Goto(p, "lock")
    /\ UNCHANGED <<credits, debits, refunds, link, serverRow, node, lock, restarts>>

\* The transaction rolls back: balance changed meanwhile, or the key is taken.
RefusePayment(p) ==
    /\ At(p, "pay")
    /\ \/ ~KeyIsFree(cur[p])
       \/ kind[p] = "wallet" /\ ~Affordable
    /\ Return(p)
    /\ UNCHANGED <<money, orderRow, serverRow, node, restarts>>

-----------------------------------------------------------------------------
(* Entry to provisioning *)

StartResume(p, o) ==
    /\ Resumable(o)
    /\ Begin(p, "resume", o, "lock")
    /\ UNCHANGED <<money, orderRow, serverRow, node, lock, restarts>>

\* pg_try_advisory_lock: a busy lock ends the request (202).
TryLock(p) ==
    LET o == cur[p] IN
    /\ At(p, "lock")
    /\ \/ /\ LockIsFree(o)
          /\ lock' = [lock EXCEPT ![o] = p]
          /\ Goto(p, IF kind[p] = "resume" THEN "recheck" ELSE "mark")
       \/ /\ ~LockIsFree(o)
          /\ Return(p)
    /\ UNCHANGED <<money, orderRow, serverRow, node, restarts>>

\* A resume reads the row again under the lock; without a reservation it also
\* needs a schedulable node, and reports "retryable" when there is none.
RecheckResume(p) ==
    LET o == cur[p] IN
    /\ At(p, "recheck")
    /\ \/ /\ Resumable(o)
          /\ Goto(p, "mark")
          /\ UNCHANGED lock
       \/ /\ ~Resumable(o) \/ link[o] = None
          /\ Return(p)
    /\ UNCHANGED <<money, orderRow, serverRow, node, restarts>>

\* Mutant: the update lacks its status condition.
MarkUnconditionally(p) ==
    /\ At(p, "mark")
    /\ status' = [status EXCEPT ![cur[p]] = "PROVISIONING"]
    /\ Goto(p, "find")
    /\ UNCHANGED <<money, method, link, serverRow, node, lock, restarts>>

MarkProvisioning(p) ==
    LET o == cur[p] IN
    /\ At(p, "mark")
    /\ status' = [status EXCEPT ![o] = IF @ = "PAID" THEN "PROVISIONING" ELSE @]
    /\ Goto(p, "find")
    /\ UNCHANGED <<money, method, link, serverRow, node, lock, restarts>>

\* A staff retry claims the order in one statement, and takes no lock.
ClaimRetry(p, o) ==
    /\ link[o] = None
    /\ status[o] \in {"FAILED", "PAID"}
    /\ invoice[o] = "PAID"
    /\ status' = [status EXCEPT ![o] = "PROVISIONING"]
    /\ Begin(p, "retry", o, "reserve")
    /\ UNCHANGED <<money, method, link, serverRow, node, lock, restarts>>

-----------------------------------------------------------------------------
(* provisionServer *)

FindReservation(p) ==
    LET s == link[cur[p]] IN
    /\ At(p, "find")
    /\ \/ s = None /\ Goto(p, "reserve")
       \/ s # None /\ IsDeleted(s) /\ GotoWith(p, "unlink", s)
       \/ s # None /\ ~IsDeleted(s) /\ GotoWith(p, "inspect", s)
    /\ UNCHANGED <<money, orderRow, serverRow, node, lock, restarts>>

UnlinkDeleted(p) ==
    LET o == cur[p] IN
    /\ At(p, "unlink")
    /\ link' = [link EXCEPT ![o] = IF @ = srv[p] THEN None ELSE @]
    /\ GotoWith(p, "reserve", None)
    /\ UNCHANGED <<money, status, method, serverRow, node, lock, restarts>>

\* A retry passes no order id, so its reservation is not linked to the order.
ReserveServer(p, s) ==
    LET o == cur[p] IN
    /\ At(p, "reserve")
    /\ server[s] = "NONE"
    /\ server' = [server EXCEPT ![s] = "installing"]
    /\ payer' = [payer EXCEPT ![s] = o]
    /\ \/ /\ kind[p] = "retry"
          /\ viaRetry' = viaRetry \cup {s}
          /\ UNCHANGED link
       \/ /\ kind[p] # "retry"
          /\ link[o] = None
          /\ link' = [link EXCEPT ![o] = s]
          /\ UNCHANGED viaRetry
    /\ GotoWith(p, "inspect", s)
    /\ UNCHANGED <<money, status, method, node, lock, restarts>>

\* No schedulable node, no capacity or port left, or the order is linked already.
ReserveFails(p) ==
    /\ At(p, "reserve")
    /\ Goto(p, "settle")
    /\ UNCHANGED <<money, orderRow, serverRow, node, lock, restarts>>

\* A failed status call counts as "offline", which leads to a create call or,
\* when the last capacity check fails, to cleanup; so does a dead container.
InspectRuntime(p) ==
    LET c == container[srv[p]] IN
    /\ At(p, "inspect")
    /\ \/ Goto(p, "create")
       \/ Goto(p, "cleanup")
       \/ c = "exited" /\ Goto(p, "start")
       \/ c = "running" /\ Goto(p, "verify")
    /\ UNCHANGED <<money, orderRow, serverRow, node, lock, restarts>>

\* docker run answers in time; or it is still at work when the panel's timeout
\* fires; or it fails after creating the container; or the node refuses (409).
CreateContainer(p) ==
    LET s == srv[p] IN
    /\ At(p, "create")
    /\ \/ /\ container[s] = "absent"
          /\ container' = [container EXCEPT ![s] = "running"]
          /\ Goto(p, "verify")
          /\ UNCHANGED late
       \/ /\ container[s] = "absent"
          /\ late' = late \cup {s}
          /\ Goto(p, "cleanup")
          /\ UNCHANGED container
       \/ /\ container[s] = "absent"
          /\ container' = [container EXCEPT ![s] = "exited"]
          /\ Goto(p, "cleanup")
          /\ UNCHANGED late
       \/ /\ Goto(p, "cleanup")
          /\ UNCHANGED node
    /\ UNCHANGED <<money, orderRow, serverRow, lock, restarts>>

StartContainer(p) ==
    LET s == srv[p] IN
    /\ At(p, "start")
    /\ \/ /\ container[s] = "exited"
          /\ container' = [container EXCEPT ![s] = "running"]
          /\ \/ Goto(p, "verify")
             \/ Goto(p, "cleanup")       \* started, but the answer came too late
       \/ /\ Goto(p, "cleanup")
          /\ UNCHANGED container
    /\ UNCHANGED <<money, orderRow, serverRow, late, lock, restarts>>

\* Ten polls: one of them sees the container running, or none does.
VerifyRuntime(p) ==
    /\ At(p, "verify")
    /\ \/ container[srv[p]] = "running" /\ Goto(p, "ready")
       \/ Goto(p, "cleanup")
    /\ UNCHANGED <<money, orderRow, serverRow, node, lock, restarts>>

MarkServerRunning(p) ==
    /\ At(p, "ready")
    /\ server' = [server EXCEPT ![srv[p]] = "running"]
    /\ Goto(p, "activate")
    /\ UNCHANGED <<money, orderRow, payer, viaRetry, node, lock, restarts>>

\* docker rm -f, which also succeeds when there is no such container.
CleanupContainer(p) ==
    LET s == srv[p] IN
    /\ At(p, "cleanup")
    /\ \/ /\ container' = [container EXCEPT ![s] = "absent"]
          /\ \/ Goto(p, "retire")
             \/ Goto(p, "quarantine")    \* removed, but the answer came too late
       \/ /\ Goto(p, "quarantine")
          /\ UNCHANGED container
    /\ UNCHANGED <<money, orderRow, serverRow, late, lock, restarts>>

RetireServer(p) ==
    /\ At(p, "retire")
    /\ server' = [server EXCEPT ![srv[p]] = "deleted"]
    /\ Goto(p, "settle")
    /\ UNCHANGED <<money, orderRow, payer, viaRetry, node, lock, restarts>>

QuarantineServer(p) ==
    /\ At(p, "quarantine")
    /\ server' = [server EXCEPT ![srv[p]] = "error"]
    /\ Goto(p, "settle")
    /\ UNCHANGED <<money, orderRow, payer, viaRetry, node, lock, restarts>>

-----------------------------------------------------------------------------
(* How a request ends *)

\* Checkout and resume write failure_reason=null with the new status, so the
\* statement fails on a NOT NULL column; a retry leaves the column alone.
ActivateOrder(p) ==
    LET o == cur[p] IN
    /\ At(p, "activate")
    /\ \/ /\ kind[p] = "retry" \/ FailureReasonNullable
          /\ status' = [status EXCEPT ![o] = "ACTIVE"]
          /\ link' = [link EXCEPT ![o] = srv[p]]
          /\ Return(p)
       \/ /\ kind[p] # "retry" /\ ~FailureReasonNullable
          /\ Goto(p, "settle")
          /\ UNCHANGED <<status, link, lock>>
    /\ UNCHANGED <<money, method, serverRow, node, restarts>>

\* Mutant: the refund does not mark the invoice.
RefundWithoutInvoice(p) ==
    LET o == cur[p] IN
    /\ At(p, "settle")
    /\ kind[p] # "retry"
    /\ status[o] \notin {"FAILED", "ACTIVE"}
    /\ status' = [status EXCEPT ![o] = "FAILED"]
    /\ \/ /\ method[o] = "wallet"
          /\ credits' = credits + Price
          /\ refunds' = [refunds EXCEPT ![o] = @ + 1]
       \/ /\ method[o] # "wallet"
          /\ UNCHANGED <<credits, refunds>>
    /\ Return(p)
    /\ UNCHANGED <<invoice, debits, method, link, serverRow, node, restarts>>

\* Checkout and resume: fail the order and give the money back, in one
\* transaction, unless the order is already FAILED or ACTIVE.
RefundFailedOrder(p) ==
    LET o == cur[p] IN
    /\ At(p, "settle")
    /\ kind[p] # "retry"
    /\ status[o] \notin {"FAILED", "ACTIVE"}
    /\ status' = [status EXCEPT ![o] = "FAILED"]
    /\ invoice' = [invoice EXCEPT ![o] = IF @ = "PAID" THEN "REFUNDED" ELSE @]
    /\ \/ /\ method[o] = "wallet"
          /\ credits' = credits + Price
          /\ refunds' = [refunds EXCEPT ![o] = @ + 1]
       \/ /\ method[o] # "wallet"
          /\ UNCHANGED <<credits, refunds>>
    /\ Return(p)
    /\ UNCHANGED <<debits, method, link, serverRow, node, restarts>>

KeepFinalOrder(p) ==
    /\ At(p, "settle")
    /\ kind[p] # "retry"
    /\ status[cur[p]] \in {"FAILED", "ACTIVE"}
    /\ Return(p)
    /\ UNCHANGED <<money, orderRow, serverRow, node, restarts>>

FailRetry(p) ==
    LET o == cur[p] IN
    /\ At(p, "settle")
    /\ kind[p] = "retry"
    /\ status' = [status EXCEPT ![o] = IF link[o] = None THEN "FAILED" ELSE @]
    /\ Return(p)
    /\ UNCHANGED <<money, method, link, serverRow, node, restarts>>

-----------------------------------------------------------------------------
(* Customer, staff and cron work that is one transaction *)

\* Pays a pending order.  It too writes failure_reason=null, so with the
\* shipped schema it always rolls back.
PayPendingOrder(o) ==
    /\ FailureReasonNullable
    /\ status[o] = "PENDING"
    /\ method[o] = "wallet"
    /\ invoice[o] = "DUE"
    /\ Affordable
    /\ credits' = credits - Price
    /\ debits' = [debits EXCEPT ![o] = @ + 1]
    /\ status' = [status EXCEPT ![o] = "PAID"]
    /\ invoice' = [invoice EXCEPT ![o] = "PAID"]
    /\ UNCHANGED <<refunds, method, link, serverRow, node, request, lock, restarts>>

\* Staff action cancel_unpaid.
CancelUnpaid(o) ==
    /\ status[o] = "PENDING"
    /\ status' = [status EXCEPT ![o] = "CANCELLED"]
    /\ invoice' = [invoice EXCEPT ![o] = IF @ = "DUE" THEN "VOID" ELSE @]
    /\ UNCHANGED <<credits, debits, refunds, method, link, serverRow, node, request, lock, restarts>>

\* Staff action void_due_invoice.
VoidDueInvoice(o) ==
    /\ invoice[o] = "DUE"
    /\ status[o] \notin {"PAID", "PROVISIONING", "ACTIVE"}
    /\ invoice' = [invoice EXCEPT ![o] = "VOID"]
    /\ status' = [status EXCEPT ![o] = IF @ = "PENDING" THEN "CANCELLED" ELSE @]
    /\ UNCHANGED <<credits, debits, refunds, method, link, serverRow, node, request, lock, restarts>>

\* Every wait of a live request is far below the 30 minutes, 1 hour and 2 hours
\* of the sweeps below, so a row that old is not one a request has just written.
Working(p) == pc[p] = "insertDue" \/ pc[p] \in Guarded \ {"recheck", "mark"}
Abandoned(o) == \A p \in Requests : cur[p] = o => ~Working(p)

\* S: the pending orders that are past CRAKHOST_PENDING_ORDER_TTL_HOURS.
ExpirePending(S) ==
    /\ S # {}
    /\ \A o \in S : status[o] = "PENDING" /\ Abandoned(o)
    /\ status' = [o \in Orders |-> IF o \in S THEN "CANCELLED" ELSE status[o]]
    /\ invoice' = [o \in Orders |-> IF o \in S /\ invoice[o] = "DUE" THEN "VOID" ELSE invoice[o]]
    /\ UNCHANGED <<credits, debits, refunds, method, link, serverRow, node, request, lock, restarts>>

\* The reconciler's three statements.  It runs from cron and from the admin
\* page, so runs overlap and any statement may follow any other.
ReconcileActivate ==
    LET Attached == {o \in Orders : /\ link[o] # None
                                    /\ status[o] \in {"PENDING", "PAID", "PROVISIONING", "FAILED"}}
    IN /\ Attached # {}
       /\ status' = [o \in Orders |-> IF o \in Attached THEN "ACTIVE" ELSE status[o]]
       /\ UNCHANGED <<money, method, link, serverRow, node, request, lock, restarts>>

\* Mutant: the sweep looks for the status before PROVISIONING.
StalePaid(o) == link[o] = None /\ status[o] = "PAID" /\ Abandoned(o)
StaleProvisioning(o) == link[o] = None /\ status[o] = "PROVISIONING" /\ Abandoned(o)

ReconcileStale(S) ==
    /\ S # {}
    /\ \A o \in S : StaleProvisioning(o)
    /\ status' = [o \in Orders |-> IF o \in S THEN "FAILED" ELSE status[o]]
    /\ UNCHANGED <<money, method, link, serverRow, node, request, lock, restarts>>

\* Unlike ExpirePending, this leaves the order's due invoice as it is.
ReconcileCancel(S) ==
    /\ S # {}
    /\ \A o \in S : /\ link[o] = None /\ status[o] = "PENDING" /\ invoice[o] # "PAID"
                      /\ Abandoned(o)
    /\ status' = [o \in Orders |-> IF o \in S THEN "CANCELLED" ELSE status[o]]
    /\ UNCHANGED <<money, method, link, serverRow, node, request, lock, restarts>>

\* The admin users form writes an absolute balance and no wallet_transactions row.
SetCredits(c) ==
    /\ credits # c
    /\ credits' = c
    /\ UNCHANGED <<invoice, debits, refunds, orderRow, serverRow, node, request, lock, restarts>>

-----------------------------------------------------------------------------
(* Environment *)

\* docker finishes the create call that the panel stopped waiting for.
LateCreate(s) ==
    /\ s \in late
    /\ late' = late \ {s}
    /\ \/ container[s] = "absent" /\ container' = [container EXCEPT ![s] = "running"]
       \/ UNCHANGED container
    /\ UNCHANGED <<money, orderRow, serverRow, request, lock, restarts>>

ContainerStops(s) ==
    /\ container[s] = "running"
    /\ \E c \in {"exited", "dead"} : container' = [container EXCEPT ![s] = c]
    /\ UNCHANGED <<money, orderRow, serverRow, late, request, lock, restarts>>

\* The panel process dies: its requests vanish and their session locks go.
PanelRestart ==
    /\ restarts < MaxRestarts
    /\ restarts' = restarts + 1
    /\ pc' = [p \in Requests |-> "idle"]
    /\ kind' = [p \in Requests |-> "none"]
    /\ cur' = [p \in Requests |-> None]
    /\ srv' = [p \in Requests |-> None]
    /\ lock' = [o \in Orders |-> None]
    /\ UNCHANGED <<money, orderRow, serverRow, node>>

-----------------------------------------------------------------------------

Arrive(p) ==
    \E o \in Orders : \/ StartStorefront(p, o) \/ StartBilling(p, o) \/ StartTestCard(p, o)
                      \/ StartResume(p, o) \/ ClaimRetry(p, o)

Provision(p) ==
    \/ FindReservation(p) \/ UnlinkDeleted(p)
    \/ \E s \in Servers : ReserveServer(p, s)
    \/ ReserveFails(p) \/ InspectRuntime(p) \/ CreateContainer(p) \/ StartContainer(p)
    \/ VerifyRuntime(p) \/ MarkServerRunning(p)
    \/ CleanupContainer(p) \/ RetireServer(p) \/ QuarantineServer(p)

\* A request that has been admitted takes its next step.
Advance(p) ==
    \/ InsertPendingOrder(p) \/ InsertDueInvoice(p)
    \/ TakeWalletPayment(p) \/ TakeCardPayment(p) \/ RefusePayment(p)
    \/ TryLock(p) \/ RecheckResume(p) \/ MarkProvisioning(p)
    \/ Provision(p)
    \/ ActivateOrder(p) \/ RefundFailedOrder(p) \/ KeepFinalOrder(p) \/ FailRetry(p)

Desk(o) == PayPendingOrder(o) \/ CancelUnpaid(o) \/ VoidDueInvoice(o)

Next ==
    \/ \E p \in Requests : Arrive(p) \/ Advance(p)
    \/ \E o \in Orders : Desk(o)
    \/ \E S \in SUBSET Orders : ExpirePending(S) \/ ReconcileStale(S) \/ ReconcileCancel(S)
    \/ ReconcileActivate
    \/ \E c \in 0..MaxCredits : SetCredits(c)
    \/ \E s \in Servers : LateCreate(s) \/ ContainerStops(s)
    \/ PanelRestart

Spec == Init /\ [][Next]_vars

\* Node's event loop and the finite CrakNode timeouts keep an admitted request
\* moving; cron runs the reconciler every minute.  Nothing else is promised.
Fairness ==
    /\ \A p \in Requests : WF_vars(Advance(p))
    /\ \A o \in Orders : WF_vars(\E S \in SUBSET Orders : o \in S /\ ReconcileStale(S))
    /\ WF_vars(ReconcileActivate)

FairSpec == Spec /\ Fairness

-----------------------------------------------------------------------------
(* Properties *)

\* The order's bill as PaymentLedger sees it.
BillOf(o) ==
    LET byCard == method[o] = "test_card" IN
    IF invoice[o] = "PAID" THEN (IF byCard THEN "card_paid" ELSE "paid")
    ELSE IF invoice[o] = "REFUNDED" THEN (IF byCard THEN "card_returned" ELSE "returned")
    ELSE IF invoice[o] = "DUE" THEN "open"
    ELSE IF invoice[o] = "VOID" THEN "void"
    ELSE "none"

Ledger == INSTANCE PaymentLedger WITH bill <- [o \in Orders |-> BillOf(o)]

\* Requests, retries, crashes and sweeps together never do more to a customer's
\* money than PaymentLedger allows: settle a bill once, for its price and out of
\* a sufficient balance, and return it at most once.
ImplementsLedger == Ledger!LedgerSpec

Live(s) == server[s] \in {"installing", "running"}

\* The wallet rows, the invoice and the order tell one story: an order is
\* debited at most once, refunded at most once and only after its debit, and a
\* card order never touches the wallet, whichever of checkout, payment, resume,
\* retry, reconciler and staff raced on it.
LedgerMatchesInvoice ==
    \A o \in Orders :
        LET charge == IF method[o] = "wallet" THEN 1 ELSE 0 IN
        /\ invoice[o] \in {"NONE", "DUE", "VOID"} => debits[o] = 0 /\ refunds[o] = 0
        /\ invoice[o] = "PAID" => debits[o] = charge /\ refunds[o] = 0
        /\ invoice[o] = "REFUNDED" => debits[o] = charge /\ refunds[o] = charge

\* The status of an order and of its invoice agree: work is in progress only
\* on a paid invoice, a cancelled order was never paid, and a refund leaves the
\* order FAILED (or ACTIVE, by the reconciler or a late retry).
StatusMatchesInvoice ==
    \A o \in Orders :
        /\ status[o] = "NONE" => invoice[o] = "NONE"
        /\ status[o] \in {"PENDING"} => invoice[o] \in {"NONE", "DUE"}
        /\ status[o] = "CANCELLED" => invoice[o] \in {"NONE", "DUE", "VOID"}
        /\ status[o] \in {"PAID", "PROVISIONING"} => invoice[o] = "PAID"
        /\ status[o] \in {"ACTIVE", "FAILED"} => invoice[o] \in {"PAID", "REFUNDED"}

\* The advisory lock does what order-provision-lock.ts says: no two checkout or
\* resume requests provision the same order at the same time.
OneProvisioner ==
    \A p, q \in Requests :
        (/\ p # q /\ cur[p] = cur[q]
         /\ pc[p] \in Guarded /\ kind[p] # "retry"
         /\ pc[q] \in Guarded /\ kind[q] # "retry") => FALSE

\* Resuming never reserves a second server while the first reservation of the
\* order lives: staff retries aside, one order has at most one live server.
OneReservationPerOrder ==
    \A s, t \in Servers \ viaRetry :
        Live(s) /\ Live(t) /\ payer[s] = payer[t] => s = t

\* No server is ever reserved for an order that has not been paid.
ServersArePaidFor ==
    \A s \in Servers :
        server[s] # "NONE" => invoice[payer[s]] \in {"PAID", "REFUNDED"}

\* Money that went back is final: a refunded order is never charged again, and
\* is not put to work again by resume, retry or payment.
RefundIsFinal ==
    [][\A o \in Orders :
          invoice[o] = "REFUNDED" =>
              /\ invoice'[o] = "REFUNDED"
              /\ debits'[o] = debits[o] /\ refunds'[o] = refunds[o]
              /\ status'[o] \in {"FAILED", "ACTIVE", status[o]}]_vars

\* The customer is told, on a refund, that the server "could not be provisioned"
\* (checkout/route.ts): a refunded wallet order has no running server.
RefundedOrderHasNoServer ==
    \A o \in Orders, s \in Servers :
        refunds[o] > 0 /\ payer[s] = o => server[s] # "running"

\* V027_RUNTIME_CHECKLIST.md: at most one server per successful payment.
OneServerPerPayment ==
    \A s, t \in Servers : Live(s) /\ Live(t) /\ payer[s] = payer[t] => s = t

\* An order does not stay PROVISIONING: its request finishes, or the reconciler
\* finds it stale.
ProvisioningSettles ==
    \A o \in Orders : status[o] = "PROVISIONING" ~> status[o] # "PROVISIONING"

=============================================================================
