------------------------ MODULE OrderLifecycleProofs ------------------------
(***************************************************************************)
(* Theorems about OrderLifecycle, for every number of checkout attempts,   *)
(* requests, servers and restarts, and for both forms of the schema.       *)
(***************************************************************************)
EXTENDS OrderLifecycle, TLAPS

(* Statuses an order can only reach by being paid, and never leaves. *)
PaidFor == {"PAID", "PROVISIONING", "ACTIVE", "FAILED"}

(* Calls of a request that has a server row. *)
WithServer == {"inspect", "create", "start", "verify", "ready", "activate",
               "cleanup", "retire", "quarantine"}

(* A request in progress works on an order; from "lock" on the order is paid  *)
(* for; from "inspect" on the request holds a reserved row; and the request   *)
(* that owes an unpaid order its invoice is the only one to.                  *)
RequestInv ==
    \A p \in Requests :
        /\ pc[p] # "idle" => cur[p] \in Orders
        /\ pc[p] \in Guarded \cup {"lock"} => status[cur[p]] \in PaidFor
        /\ pc[p] \in WithServer => srv[p] \in Servers /\ server[srv[p]] # "NONE"

InsertDueInv ==
    \A p \in Requests :
        pc[p] = "insertDue" =>
            /\ status[cur[p]] \in {"PENDING", "CANCELLED"}
            /\ invoice[cur[p]] = "NONE"
            /\ \A q \in Requests : pc[q] = "insertDue" /\ cur[q] = cur[p] => q = p

LinkInv ==
    \A o \in Orders :
        link[o] # None => status[o] \in PaidFor /\ server[link[o]] # "NONE"

MethodInv ==
    \A o \in Orders : status[o] # "NONE" => method[o] # "NONE"

PayerInv ==
    \A s \in Servers :
        server[s] # "NONE" => payer[s] \in Orders /\ invoice[payer[s]] \in {"PAID", "REFUNDED"}

LockInv ==
    \A p \in Requests :
        pc[p] \in Guarded /\ kind[p] # "retry" => lock[cur[p]] = p

IInv ==
    /\ TypeOK
    /\ RequestInv
    /\ InsertDueInv
    /\ LinkInv
    /\ MethodInv
    /\ PayerInv
    /\ LockInv
    /\ LedgerMatchesInvoice
    /\ StatusMatchesInvoice

-----------------------------------------------------------------------------
(* Every action keeps every variable in its set. *)
LEMMA TypeStep ==
    ASSUME TypeOK, RequestInv, [Next]_vars
    PROVE  TypeOK'
<1> USE PriceAssumption, BoundAssumption
<1> USE DEF TypeOK, Statuses, Invoices, ServerStatuses, ContainerStates, Kinds, PCs,
            Guarded, RequestInv, WithServer, PaidFor, money, orderRow, serverRow, node,
            request, At, Goto, GotoWith, Begin, Return
<1>1. CASE UNCHANGED vars
    BY <1>1 DEF vars
<1>2. ASSUME NEW p \in Requests, InsertPendingOrder(p) PROVE TypeOK'
    BY <1>2 DEF InsertPendingOrder, KeyIsFree
<1>3. ASSUME NEW p \in Requests, TakeWalletPayment(p) PROVE TypeOK'
    BY <1>3 DEF TakeWalletPayment, Affordable, KeyIsFree
<1>4. ASSUME NEW p \in Requests, TakeCardPayment(p) PROVE TypeOK'
    BY <1>4 DEF TakeCardPayment, KeyIsFree
<1>5. ASSUME NEW p \in Requests, TryLock(p) PROVE TypeOK'
    BY <1>5 DEF TryLock, LockIsFree
<1>6. ASSUME NEW p \in Requests, FindReservation(p) PROVE TypeOK'
    BY <1>6 DEF FindReservation, IsDeleted
<1>7. ASSUME NEW p \in Requests, UnlinkDeleted(p) PROVE TypeOK'
    BY <1>7 DEF UnlinkDeleted
<1>8. ASSUME NEW p \in Requests, NEW s \in Servers, ReserveServer(p, s) PROVE TypeOK'
    BY <1>8 DEF ReserveServer
<1>9. ASSUME NEW p \in Requests, CreateContainer(p) PROVE TypeOK'
    BY <1>9 DEF CreateContainer
<1>10. ASSUME NEW p \in Requests, CleanupContainer(p) PROVE TypeOK'
    BY <1>10 DEF CleanupContainer
<1>11. ASSUME NEW p \in Requests, ActivateOrder(p) PROVE TypeOK'
    <2>1. cur[p] \in Orders /\ srv[p] \in Servers
        BY <1>11 DEF ActivateOrder
    <2>2. CASE kind[p] # "retry" /\ ~FailureReasonNullable
        BY <1>11, <2>2 DEF ActivateOrder
    <2>3. CASE kind[p] = "retry" \/ FailureReasonNullable
        BY <1>11, <2>1, <2>3 DEF ActivateOrder
    <2> QED
        BY <2>2, <2>3
<1>12. ASSUME NEW p \in Requests, RefundFailedOrder(p) PROVE TypeOK'
    BY <1>12 DEF RefundFailedOrder
<1>13. ASSUME NEW p \in Requests, InsertDueInvoice(p) \/ RefusePayment(p) \/
              RecheckResume(p) \/ MarkProvisioning(p) \/ ReserveFails(p) \/
              InspectRuntime(p) \/ StartContainer(p) \/ VerifyRuntime(p) \/
              MarkServerRunning(p) \/ RetireServer(p) \/ QuarantineServer(p) \/
              KeepFinalOrder(p) \/ FailRetry(p)
       PROVE  TypeOK'
    BY <1>13 DEF InsertDueInvoice, RefusePayment, RecheckResume, MarkProvisioning,
           ReserveFails, InspectRuntime, StartContainer, VerifyRuntime,
           MarkServerRunning, RetireServer, QuarantineServer, KeepFinalOrder, FailRetry,
           Resumable
<1>14. ASSUME NEW p \in Requests, NEW o \in Orders, StartStorefront(p, o) \/
              StartBilling(p, o) \/ StartTestCard(p, o) \/ StartResume(p, o) \/
              ClaimRetry(p, o)
       PROVE  TypeOK'
    BY <1>14 DEF StartStorefront, StartBilling, StartTestCard, StartResume, ClaimRetry,
           KeyIsFree, Affordable, Resumable
<1>15. ASSUME NEW o \in Orders, PayPendingOrder(o) \/ CancelUnpaid(o) \/
              VoidDueInvoice(o)
       PROVE  TypeOK'
    BY <1>15 DEF PayPendingOrder, CancelUnpaid, VoidDueInvoice, Affordable
<1>16. ASSUME NEW S \in SUBSET Orders, ExpirePending(S) \/ ReconcileStale(S) \/
              ReconcileCancel(S)
       PROVE  TypeOK'
    BY <1>16 DEF ExpirePending, ReconcileStale, ReconcileCancel, StaleProvisioning
<1>17. ASSUME NEW s \in Servers, LateCreate(s) \/ ContainerStops(s)
       PROVE  TypeOK'
    BY <1>17 DEF LateCreate, ContainerStops
<1>18. ASSUME NEW c \in 0..MaxCredits, SetCredits(c)
       PROVE  TypeOK'
    BY <1>18 DEF SetCredits
<1>19. ASSUME ReconcileActivate \/ PanelRestart
       PROVE  TypeOK'
    BY <1>19 DEF ReconcileActivate, PanelRestart
<1> QED
    BY <1>1, <1>2, <1>3, <1>4, <1>5, <1>6, <1>7, <1>8, <1>9, <1>10, <1>11, <1>12, <1>13,
       <1>14, <1>15, <1>16, <1>17, <1>18, <1>19 DEF Next, Arrive, Advance, Provision,
       Desk

(* Only the calls that follow a payment lead past "lock", and an order that is *)
(* paid for stays so; server rows are never removed.                          *)
LEMMA RequestInvStep ==
    ASSUME TypeOK, TypeOK', RequestInv, LinkInv, [Next]_vars
    PROVE  RequestInv'
<1> USE NoneAssumption
<1> USE DEF RequestInv, LinkInv, PaidFor, WithServer, Guarded, TypeOK, money, orderRow,
            serverRow, node, request, At, Goto, GotoWith, Begin, Return
<1>1. CASE UNCHANGED vars
    BY <1>1 DEF vars
<1>2. ASSUME NEW p \in Requests, NEW o \in Orders, StartStorefront(p, o) PROVE
         RequestInv'
    BY <1>2 DEF StartStorefront, KeyIsFree, Affordable
<1>3. ASSUME NEW p \in Requests, NEW o \in Orders, StartBilling(p, o) PROVE RequestInv'
    BY <1>3 DEF StartBilling, KeyIsFree, Affordable
<1>4. ASSUME NEW p \in Requests, NEW o \in Orders, StartTestCard(p, o) PROVE RequestInv'
    BY <1>4 DEF StartTestCard, KeyIsFree
<1>5. ASSUME NEW p \in Requests, NEW o \in Orders, StartResume(p, o) PROVE RequestInv'
    BY <1>5 DEF StartResume, Resumable
<1>6. ASSUME NEW p \in Requests, NEW o \in Orders, ClaimRetry(p, o) PROVE RequestInv'
    BY <1>6 DEF ClaimRetry
<1>7. ASSUME NEW p \in Requests, InsertPendingOrder(p) PROVE RequestInv'
    BY <1>7 DEF InsertPendingOrder, KeyIsFree
<1>8. ASSUME NEW p \in Requests, TakeWalletPayment(p) PROVE RequestInv'
    BY <1>8 DEF TakeWalletPayment, Affordable, KeyIsFree
<1>9. ASSUME NEW p \in Requests, TakeCardPayment(p) PROVE RequestInv'
    BY <1>9 DEF TakeCardPayment, KeyIsFree
<1>10. ASSUME NEW p \in Requests, FindReservation(p) PROVE RequestInv'
    BY <1>10 DEF FindReservation, IsDeleted
<1>11. ASSUME NEW p \in Requests, NEW s \in Servers, ReserveServer(p, s) PROVE
         RequestInv'
    BY <1>11 DEF ReserveServer
<1>12. ASSUME NEW p \in Requests, InsertDueInvoice(p) \/ RefusePayment(p) \/ TryLock(p)
              \/ RecheckResume(p) \/ MarkProvisioning(p) \/ UnlinkDeleted(p) \/
              ReserveFails(p) \/ InspectRuntime(p) \/ CreateContainer(p) \/
              StartContainer(p) \/ VerifyRuntime(p) \/ MarkServerRunning(p) \/
              CleanupContainer(p) \/ RetireServer(p) \/ QuarantineServer(p) \/
              ActivateOrder(p) \/ RefundFailedOrder(p) \/ KeepFinalOrder(p) \/
              FailRetry(p)
       PROVE  RequestInv'
    BY <1>12 DEF InsertDueInvoice, RefusePayment, TryLock, RecheckResume,
           MarkProvisioning, UnlinkDeleted, ReserveFails, InspectRuntime,
           CreateContainer, StartContainer, VerifyRuntime, MarkServerRunning,
           CleanupContainer, RetireServer, QuarantineServer, ActivateOrder,
           RefundFailedOrder, KeepFinalOrder, FailRetry, LockIsFree, Resumable
<1>13. ASSUME NEW o \in Orders, PayPendingOrder(o) \/ CancelUnpaid(o) \/
              VoidDueInvoice(o)
       PROVE  RequestInv'
    BY <1>13 DEF PayPendingOrder, CancelUnpaid, VoidDueInvoice, Affordable
<1>14. ASSUME NEW S \in SUBSET Orders, ExpirePending(S) \/ ReconcileStale(S) \/
              ReconcileCancel(S)
       PROVE  RequestInv'
    BY <1>14 DEF ExpirePending, ReconcileStale, ReconcileCancel, StaleProvisioning
<1>15. ASSUME NEW s \in Servers, LateCreate(s) \/ ContainerStops(s)
       PROVE  RequestInv'
    BY <1>15 DEF LateCreate, ContainerStops
<1>16. ASSUME NEW c \in 0..MaxCredits, SetCredits(c)
       PROVE  RequestInv'
    BY <1>16 DEF SetCredits
<1>17. ASSUME ReconcileActivate \/ PanelRestart
       PROVE  RequestInv'
    BY <1>17 DEF ReconcileActivate, PanelRestart
<1> QED
    BY <1>1, <1>2, <1>3, <1>4, <1>5, <1>6, <1>7, <1>8, <1>9, <1>10, <1>11, <1>12, <1>13,
       <1>14, <1>15, <1>16, <1>17 DEF Next, Arrive, Advance, Provision, Desk

(* The unique key lets one request insert the order, and nobody else writes an *)
(* invoice row while there is none.                                          *)
LEMMA InsertDueInvStep ==
    ASSUME TypeOK, TypeOK', RequestInv, LinkInv, InsertDueInv, StatusMatchesInvoice, [Next]_vars
    PROVE  InsertDueInv'
<1> USE NoneAssumption
<1> USE DEF RequestInv, LinkInv, InsertDueInv, StatusMatchesInvoice, PaidFor, Guarded,
            TypeOK, money, orderRow, serverRow, node, request, At, Goto, GotoWith,
            Begin, Return
<1>1. CASE UNCHANGED vars
    BY <1>1 DEF vars
<1>2. ASSUME NEW p \in Requests, InsertPendingOrder(p) PROVE InsertDueInv'
    BY <1>2 DEF InsertPendingOrder, KeyIsFree
<1>3. ASSUME NEW p \in Requests, InsertDueInvoice(p) PROVE InsertDueInv'
    BY <1>3 DEF InsertDueInvoice
<1>4. ASSUME NEW p \in Requests, TakeWalletPayment(p) PROVE InsertDueInv'
    BY <1>4 DEF TakeWalletPayment, Affordable, KeyIsFree
<1>5. ASSUME NEW p \in Requests, TakeCardPayment(p) PROVE InsertDueInv'
    BY <1>5 DEF TakeCardPayment, KeyIsFree
<1>6. ASSUME NEW o \in Orders, PayPendingOrder(o) PROVE InsertDueInv'
    BY <1>6 DEF PayPendingOrder, Affordable
<1>7. ASSUME NEW o \in Orders, CancelUnpaid(o) PROVE InsertDueInv'
    BY <1>7 DEF CancelUnpaid
<1>8. ASSUME NEW o \in Orders, VoidDueInvoice(o) PROVE InsertDueInv'
    BY <1>8 DEF VoidDueInvoice
<1>9. ASSUME ReconcileActivate PROVE InsertDueInv'
    BY <1>9 DEF ReconcileActivate
<1>10. ASSUME NEW p \in Requests, RefusePayment(p) \/ TryLock(p) \/ RecheckResume(p) \/
              MarkProvisioning(p) \/ FindReservation(p) \/ UnlinkDeleted(p) \/
              ReserveFails(p) \/ InspectRuntime(p) \/ CreateContainer(p) \/
              StartContainer(p) \/ VerifyRuntime(p) \/ MarkServerRunning(p) \/
              CleanupContainer(p) \/ RetireServer(p) \/ QuarantineServer(p) \/
              ActivateOrder(p) \/ RefundFailedOrder(p) \/ KeepFinalOrder(p) \/
              FailRetry(p)
       PROVE  InsertDueInv'
    BY <1>10 DEF RefusePayment, TryLock, RecheckResume, MarkProvisioning,
           FindReservation, UnlinkDeleted, ReserveFails, InspectRuntime,
           CreateContainer, StartContainer, VerifyRuntime, MarkServerRunning,
           CleanupContainer, RetireServer, QuarantineServer, ActivateOrder,
           RefundFailedOrder, KeepFinalOrder, FailRetry, LockIsFree, Resumable,
           IsDeleted
<1>11. ASSUME NEW p \in Requests, NEW o \in Orders, StartStorefront(p, o) \/
              StartBilling(p, o) \/ StartTestCard(p, o) \/ StartResume(p, o) \/
              ClaimRetry(p, o)
       PROVE  InsertDueInv'
    BY <1>11 DEF StartStorefront, StartBilling, StartTestCard, StartResume, ClaimRetry,
           KeyIsFree, Affordable, Resumable
<1>12. ASSUME NEW p \in Requests, NEW s \in Servers, ReserveServer(p, s)
       PROVE  InsertDueInv'
    BY <1>12 DEF ReserveServer
<1>13. ASSUME NEW S \in SUBSET Orders, ExpirePending(S) \/ ReconcileStale(S) \/
              ReconcileCancel(S)
       PROVE  InsertDueInv'
    BY <1>13 DEF ExpirePending, ReconcileStale, ReconcileCancel, StaleProvisioning
<1>14. ASSUME NEW s \in Servers, LateCreate(s) \/ ContainerStops(s)
       PROVE  InsertDueInv'
    BY <1>14 DEF LateCreate, ContainerStops
<1>15. ASSUME NEW c \in 0..MaxCredits, SetCredits(c)
       PROVE  InsertDueInv'
    BY <1>15 DEF SetCredits
<1>16. ASSUME PanelRestart
       PROVE  InsertDueInv'
    BY <1>16 DEF PanelRestart
<1> QED
    BY <1>1, <1>2, <1>3, <1>4, <1>5, <1>6, <1>7, <1>8, <1>9, <1>10, <1>11, <1>12, <1>13,
       <1>14, <1>15, <1>16 DEF Next, Arrive, Advance, Provision, Desk

(* A reservation is linked by a request whose order is paid for.              *)
LEMMA LinkInvStep ==
    ASSUME TypeOK, TypeOK', RequestInv, LinkInv, [Next]_vars
    PROVE  LinkInv'
<1> USE NoneAssumption
<1> USE DEF RequestInv, LinkInv, PaidFor, WithServer, Guarded, TypeOK, money, orderRow,
            serverRow, node, request, At, Goto, GotoWith, Begin, Return
<1>1. CASE UNCHANGED vars
    BY <1>1 DEF vars
<1>2. ASSUME NEW p \in Requests, InsertPendingOrder(p) PROVE LinkInv'
    BY <1>2 DEF InsertPendingOrder, KeyIsFree
<1>3. ASSUME NEW p \in Requests, NEW s \in Servers, ReserveServer(p, s) PROVE LinkInv'
    BY <1>3 DEF ReserveServer
<1>4. ASSUME NEW p \in Requests, ActivateOrder(p) PROVE LinkInv'
    BY <1>4 DEF ActivateOrder
<1>5. ASSUME ReconcileActivate PROVE LinkInv'
    BY <1>5 DEF ReconcileActivate
<1>6. ASSUME NEW p \in Requests, InsertDueInvoice(p) \/ TakeWalletPayment(p) \/
              TakeCardPayment(p) \/ RefusePayment(p) \/ TryLock(p) \/ RecheckResume(p)
              \/ MarkProvisioning(p) \/ FindReservation(p) \/ UnlinkDeleted(p) \/
              ReserveFails(p) \/ InspectRuntime(p) \/ CreateContainer(p) \/
              StartContainer(p) \/ VerifyRuntime(p) \/ MarkServerRunning(p) \/
              CleanupContainer(p) \/ RetireServer(p) \/ QuarantineServer(p) \/
              RefundFailedOrder(p) \/ KeepFinalOrder(p) \/ FailRetry(p)
       PROVE  LinkInv'
    BY <1>6 DEF InsertDueInvoice, TakeWalletPayment, TakeCardPayment, RefusePayment,
           TryLock, RecheckResume, MarkProvisioning, FindReservation, UnlinkDeleted,
           ReserveFails, InspectRuntime, CreateContainer, StartContainer, VerifyRuntime,
           MarkServerRunning, CleanupContainer, RetireServer, QuarantineServer,
           RefundFailedOrder, KeepFinalOrder, FailRetry, Affordable, KeyIsFree,
           LockIsFree, Resumable, IsDeleted
<1>7. ASSUME NEW p \in Requests, NEW o \in Orders, StartStorefront(p, o) \/
              StartBilling(p, o) \/ StartTestCard(p, o) \/ StartResume(p, o) \/
              ClaimRetry(p, o)
       PROVE  LinkInv'
    BY <1>7 DEF StartStorefront, StartBilling, StartTestCard, StartResume, ClaimRetry,
           KeyIsFree, Affordable, Resumable
<1>8. ASSUME NEW o \in Orders, PayPendingOrder(o) \/ CancelUnpaid(o) \/
              VoidDueInvoice(o)
       PROVE  LinkInv'
    BY <1>8 DEF PayPendingOrder, CancelUnpaid, VoidDueInvoice, Affordable
<1>9. ASSUME NEW S \in SUBSET Orders, ExpirePending(S) \/ ReconcileStale(S) \/
              ReconcileCancel(S)
       PROVE  LinkInv'
    BY <1>9 DEF ExpirePending, ReconcileStale, ReconcileCancel, StaleProvisioning
<1>10. ASSUME NEW s \in Servers, LateCreate(s) \/ ContainerStops(s)
       PROVE  LinkInv'
    BY <1>10 DEF LateCreate, ContainerStops
<1>11. ASSUME NEW c \in 0..MaxCredits, SetCredits(c)
       PROVE  LinkInv'
    BY <1>11 DEF SetCredits
<1>12. ASSUME PanelRestart
       PROVE  LinkInv'
    BY <1>12 DEF PanelRestart
<1> QED
    BY <1>1, <1>2, <1>3, <1>4, <1>5, <1>6, <1>7, <1>8, <1>9, <1>10, <1>11, <1>12 DEF
       Next, Arrive, Advance, Provision, Desk

(* Whoever inserts the order row sets its payment method.                      *)
LEMMA MethodInvStep ==
    ASSUME TypeOK, TypeOK', RequestInv, MethodInv, [Next]_vars
    PROVE  MethodInv'
<1> USE NoneAssumption
<1> USE DEF RequestInv, MethodInv, PaidFor, Guarded, TypeOK, money, orderRow, serverRow,
            node, request, At, Goto, GotoWith, Begin, Return
<1>1. CASE UNCHANGED vars
    BY <1>1 DEF vars
<1>2. ASSUME NEW p \in Requests, InsertPendingOrder(p) PROVE MethodInv'
    BY <1>2 DEF InsertPendingOrder, KeyIsFree
<1>3. ASSUME NEW p \in Requests, TakeWalletPayment(p) PROVE MethodInv'
    BY <1>3 DEF TakeWalletPayment, Affordable, KeyIsFree
<1>4. ASSUME NEW p \in Requests, TakeCardPayment(p) PROVE MethodInv'
    BY <1>4 DEF TakeCardPayment, KeyIsFree
<1>5. ASSUME NEW p \in Requests, ActivateOrder(p) PROVE MethodInv'
    BY <1>5 DEF ActivateOrder
<1>6. ASSUME NEW p \in Requests, RefundFailedOrder(p) PROVE MethodInv'
    BY <1>6 DEF RefundFailedOrder
<1>7. ASSUME NEW p \in Requests, FailRetry(p) PROVE MethodInv'
    BY <1>7 DEF FailRetry
<1>8. ASSUME NEW p \in Requests, InsertDueInvoice(p) \/ RefusePayment(p) \/ TryLock(p)
              \/ RecheckResume(p) \/ MarkProvisioning(p) \/ FindReservation(p) \/
              UnlinkDeleted(p) \/ ReserveFails(p) \/ InspectRuntime(p) \/
              CreateContainer(p) \/ StartContainer(p) \/ VerifyRuntime(p) \/
              MarkServerRunning(p) \/ CleanupContainer(p) \/ RetireServer(p) \/
              QuarantineServer(p) \/ KeepFinalOrder(p)
       PROVE  MethodInv'
    BY <1>8 DEF InsertDueInvoice, RefusePayment, TryLock, RecheckResume,
           MarkProvisioning, FindReservation, UnlinkDeleted, ReserveFails,
           InspectRuntime, CreateContainer, StartContainer, VerifyRuntime,
           MarkServerRunning, CleanupContainer, RetireServer, QuarantineServer,
           KeepFinalOrder, LockIsFree, Resumable, IsDeleted
<1>9. ASSUME NEW p \in Requests, NEW o \in Orders, StartStorefront(p, o) \/
              StartBilling(p, o) \/ StartTestCard(p, o) \/ StartResume(p, o) \/
              ClaimRetry(p, o)
       PROVE  MethodInv'
    BY <1>9 DEF StartStorefront, StartBilling, StartTestCard, StartResume, ClaimRetry,
           KeyIsFree, Affordable, Resumable
<1>10. ASSUME NEW p \in Requests, NEW s \in Servers, ReserveServer(p, s)
       PROVE  MethodInv'
    BY <1>10 DEF ReserveServer
<1>11. ASSUME NEW o \in Orders, PayPendingOrder(o) \/ CancelUnpaid(o) \/
              VoidDueInvoice(o)
       PROVE  MethodInv'
    BY <1>11 DEF PayPendingOrder, CancelUnpaid, VoidDueInvoice, Affordable
<1>12. ASSUME NEW S \in SUBSET Orders, ExpirePending(S) \/ ReconcileStale(S) \/
              ReconcileCancel(S)
       PROVE  MethodInv'
    BY <1>12 DEF ExpirePending, ReconcileStale, ReconcileCancel, StaleProvisioning
<1>13. ASSUME NEW s \in Servers, LateCreate(s) \/ ContainerStops(s)
       PROVE  MethodInv'
    BY <1>13 DEF LateCreate, ContainerStops
<1>14. ASSUME NEW c \in 0..MaxCredits, SetCredits(c)
       PROVE  MethodInv'
    BY <1>14 DEF SetCredits
<1>15. ASSUME ReconcileActivate \/ PanelRestart
       PROVE  MethodInv'
    BY <1>15 DEF ReconcileActivate, PanelRestart
<1> QED
    BY <1>1, <1>2, <1>3, <1>4, <1>5, <1>6, <1>7, <1>8, <1>9, <1>10, <1>11, <1>12, <1>13,
       <1>14, <1>15 DEF Next, Arrive, Advance, Provision, Desk

(* A row is inserted for an order that is paid for; a paid invoice can only be *)
(* refunded.                                                                 *)
LEMMA PayerInvStep ==
    ASSUME TypeOK, TypeOK', RequestInv, InsertDueInv, PayerInv, StatusMatchesInvoice, [Next]_vars
    PROVE  PayerInv'
<1> USE NoneAssumption
<1> USE DEF RequestInv, InsertDueInv, PayerInv, StatusMatchesInvoice, PaidFor,
            WithServer, Guarded, TypeOK, money, orderRow, serverRow, node, request, At,
            Goto, GotoWith, Begin, Return
<1>1. CASE UNCHANGED vars
    BY <1>1 DEF vars
<1>2. ASSUME NEW p \in Requests, InsertDueInvoice(p) PROVE PayerInv'
    BY <1>2 DEF InsertDueInvoice
<1>3. ASSUME NEW p \in Requests, NEW s \in Servers, ReserveServer(p, s) PROVE PayerInv'
    BY <1>3 DEF ReserveServer
<1>4. ASSUME NEW p \in Requests, RefundFailedOrder(p) PROVE PayerInv'
    BY <1>4 DEF RefundFailedOrder
<1>5. ASSUME NEW p \in Requests, InsertPendingOrder(p) \/ TakeWalletPayment(p) \/
              TakeCardPayment(p) \/ RefusePayment(p) \/ TryLock(p) \/ RecheckResume(p)
              \/ MarkProvisioning(p) \/ FindReservation(p) \/ UnlinkDeleted(p) \/
              ReserveFails(p) \/ InspectRuntime(p) \/ CreateContainer(p) \/
              StartContainer(p) \/ VerifyRuntime(p) \/ MarkServerRunning(p) \/
              CleanupContainer(p) \/ RetireServer(p) \/ QuarantineServer(p) \/
              ActivateOrder(p) \/ KeepFinalOrder(p) \/ FailRetry(p)
       PROVE  PayerInv'
    BY <1>5 DEF InsertPendingOrder, TakeWalletPayment, TakeCardPayment, RefusePayment,
           TryLock, RecheckResume, MarkProvisioning, FindReservation, UnlinkDeleted,
           ReserveFails, InspectRuntime, CreateContainer, StartContainer, VerifyRuntime,
           MarkServerRunning, CleanupContainer, RetireServer, QuarantineServer,
           ActivateOrder, KeepFinalOrder, FailRetry, KeyIsFree, Affordable, LockIsFree,
           Resumable, IsDeleted
<1>6. ASSUME NEW p \in Requests, NEW o \in Orders, StartStorefront(p, o) \/
              StartBilling(p, o) \/ StartTestCard(p, o) \/ StartResume(p, o) \/
              ClaimRetry(p, o)
       PROVE  PayerInv'
    BY <1>6 DEF StartStorefront, StartBilling, StartTestCard, StartResume, ClaimRetry,
           KeyIsFree, Affordable, Resumable
<1>7. ASSUME NEW o \in Orders, PayPendingOrder(o) \/ CancelUnpaid(o) \/
              VoidDueInvoice(o)
       PROVE  PayerInv'
    BY <1>7 DEF PayPendingOrder, CancelUnpaid, VoidDueInvoice, Affordable
<1>8. ASSUME NEW S \in SUBSET Orders, ExpirePending(S) \/ ReconcileStale(S) \/
              ReconcileCancel(S)
       PROVE  PayerInv'
    BY <1>8 DEF ExpirePending, ReconcileStale, ReconcileCancel, StaleProvisioning
<1>9. ASSUME NEW s \in Servers, LateCreate(s) \/ ContainerStops(s)
       PROVE  PayerInv'
    BY <1>9 DEF LateCreate, ContainerStops
<1>10. ASSUME NEW c \in 0..MaxCredits, SetCredits(c)
       PROVE  PayerInv'
    BY <1>10 DEF SetCredits
<1>11. ASSUME ReconcileActivate \/ PanelRestart
       PROVE  PayerInv'
    BY <1>11 DEF ReconcileActivate, PanelRestart
<1> QED
    BY <1>1, <1>2, <1>3, <1>4, <1>5, <1>6, <1>7, <1>8, <1>9, <1>10, <1>11 DEF Next,
       Arrive, Advance, Provision, Desk

(* Only TryLock admits a checkout or a resume to the guarded calls.            *)
LEMMA LockInvStep ==
    ASSUME TypeOK, TypeOK', RequestInv, LockInv, [Next]_vars
    PROVE  LockInv'
<1> USE NoneAssumption
<1> USE DEF RequestInv, LockInv, Guarded, TypeOK, money, orderRow, serverRow, node,
            request, At, Goto, GotoWith, Begin, Return
<1>1. CASE UNCHANGED vars
    BY <1>1 DEF vars
<1>2. ASSUME NEW p \in Requests, TryLock(p) PROVE LockInv'
    BY <1>2 DEF TryLock, LockIsFree
<1>3. ASSUME NEW p \in Requests, InsertPendingOrder(p) \/ InsertDueInvoice(p) \/
              TakeWalletPayment(p) \/ TakeCardPayment(p) \/ RefusePayment(p) \/
              RecheckResume(p) \/ MarkProvisioning(p) \/ FindReservation(p) \/
              UnlinkDeleted(p) \/ ReserveFails(p) \/ InspectRuntime(p) \/
              CreateContainer(p) \/ StartContainer(p) \/ VerifyRuntime(p) \/
              MarkServerRunning(p) \/ CleanupContainer(p) \/ RetireServer(p) \/
              QuarantineServer(p) \/ ActivateOrder(p) \/ RefundFailedOrder(p) \/
              KeepFinalOrder(p) \/ FailRetry(p)
       PROVE  LockInv'
    BY <1>3 DEF InsertPendingOrder, InsertDueInvoice, TakeWalletPayment,
           TakeCardPayment, RefusePayment, RecheckResume, MarkProvisioning,
           FindReservation, UnlinkDeleted, ReserveFails, InspectRuntime,
           CreateContainer, StartContainer, VerifyRuntime, MarkServerRunning,
           CleanupContainer, RetireServer, QuarantineServer, ActivateOrder,
           RefundFailedOrder, KeepFinalOrder, FailRetry, KeyIsFree, Affordable,
           Resumable, IsDeleted
<1>4. ASSUME NEW p \in Requests, NEW o \in Orders, StartStorefront(p, o) \/
              StartBilling(p, o) \/ StartTestCard(p, o) \/ StartResume(p, o) \/
              ClaimRetry(p, o)
       PROVE  LockInv'
    BY <1>4 DEF StartStorefront, StartBilling, StartTestCard, StartResume, ClaimRetry,
           KeyIsFree, Affordable, Resumable
<1>5. ASSUME NEW p \in Requests, NEW s \in Servers, ReserveServer(p, s)
       PROVE  LockInv'
    BY <1>5 DEF ReserveServer
<1>6. ASSUME NEW o \in Orders, PayPendingOrder(o) \/ CancelUnpaid(o) \/
              VoidDueInvoice(o)
       PROVE  LockInv'
    BY <1>6 DEF PayPendingOrder, CancelUnpaid, VoidDueInvoice, Affordable
<1>7. ASSUME NEW S \in SUBSET Orders, ExpirePending(S) \/ ReconcileStale(S) \/
              ReconcileCancel(S)
       PROVE  LockInv'
    BY <1>7 DEF ExpirePending, ReconcileStale, ReconcileCancel, StaleProvisioning
<1>8. ASSUME NEW s \in Servers, LateCreate(s) \/ ContainerStops(s)
       PROVE  LockInv'
    BY <1>8 DEF LateCreate, ContainerStops
<1>9. ASSUME NEW c \in 0..MaxCredits, SetCredits(c)
       PROVE  LockInv'
    BY <1>9 DEF SetCredits
<1>10. ASSUME ReconcileActivate \/ PanelRestart
       PROVE  LockInv'
    BY <1>10 DEF ReconcileActivate, PanelRestart
<1> QED
    BY <1>1, <1>2, <1>3, <1>4, <1>5, <1>6, <1>7, <1>8, <1>9, <1>10 DEF Next, Arrive,
       Advance, Provision, Desk

(* The key, the invoice states and the status guard of the refund bound the    *)
(* debits and refunds of an order.                                           *)
LEMMA LedgerMatchesInvoiceStep ==
    ASSUME TypeOK, TypeOK', RequestInv, InsertDueInv, LedgerMatchesInvoice, StatusMatchesInvoice, [Next]_vars
    PROVE  LedgerMatchesInvoice'
<1> USE NoneAssumption
<1> USE DEF RequestInv, InsertDueInv, LedgerMatchesInvoice, StatusMatchesInvoice,
            PaidFor, Guarded, TypeOK, money, orderRow, serverRow, node, request, At,
            Goto, GotoWith, Begin, Return
<1>1. CASE UNCHANGED vars
    BY <1>1 DEF vars
<1>2. ASSUME NEW p \in Requests, InsertPendingOrder(p) PROVE LedgerMatchesInvoice'
    BY <1>2 DEF InsertPendingOrder, KeyIsFree
<1>3. ASSUME NEW p \in Requests, InsertDueInvoice(p) PROVE LedgerMatchesInvoice'
    BY <1>3 DEF InsertDueInvoice
<1>4. ASSUME NEW p \in Requests, TakeWalletPayment(p) PROVE LedgerMatchesInvoice'
    BY <1>4 DEF TakeWalletPayment, Affordable, KeyIsFree
<1>5. ASSUME NEW p \in Requests, TakeCardPayment(p) PROVE LedgerMatchesInvoice'
    BY <1>5 DEF TakeCardPayment, KeyIsFree
<1>6. ASSUME NEW p \in Requests, RefundFailedOrder(p) PROVE LedgerMatchesInvoice'
    BY <1>6 DEF RefundFailedOrder
<1>7. ASSUME NEW o \in Orders, PayPendingOrder(o) PROVE LedgerMatchesInvoice'
    BY <1>7 DEF PayPendingOrder, Affordable
<1>8. ASSUME NEW p \in Requests, RefusePayment(p) \/ TryLock(p) \/ RecheckResume(p) \/
              MarkProvisioning(p) \/ FindReservation(p) \/ UnlinkDeleted(p) \/
              ReserveFails(p) \/ InspectRuntime(p) \/ CreateContainer(p) \/
              StartContainer(p) \/ VerifyRuntime(p) \/ MarkServerRunning(p) \/
              CleanupContainer(p) \/ RetireServer(p) \/ QuarantineServer(p) \/
              ActivateOrder(p) \/ KeepFinalOrder(p) \/ FailRetry(p)
       PROVE  LedgerMatchesInvoice'
    BY <1>8 DEF RefusePayment, TryLock, RecheckResume, MarkProvisioning,
           FindReservation, UnlinkDeleted, ReserveFails, InspectRuntime,
           CreateContainer, StartContainer, VerifyRuntime, MarkServerRunning,
           CleanupContainer, RetireServer, QuarantineServer, ActivateOrder,
           KeepFinalOrder, FailRetry, LockIsFree, Resumable, IsDeleted
<1>9. ASSUME NEW p \in Requests, NEW o \in Orders, StartStorefront(p, o) \/
              StartBilling(p, o) \/ StartTestCard(p, o) \/ StartResume(p, o) \/
              ClaimRetry(p, o)
       PROVE  LedgerMatchesInvoice'
    BY <1>9 DEF StartStorefront, StartBilling, StartTestCard, StartResume, ClaimRetry,
           KeyIsFree, Affordable, Resumable
<1>10. ASSUME NEW p \in Requests, NEW s \in Servers, ReserveServer(p, s)
       PROVE  LedgerMatchesInvoice'
    BY <1>10 DEF ReserveServer
<1>11. ASSUME NEW o \in Orders, CancelUnpaid(o) \/ VoidDueInvoice(o)
       PROVE  LedgerMatchesInvoice'
    BY <1>11 DEF CancelUnpaid, VoidDueInvoice
<1>12. ASSUME NEW S \in SUBSET Orders, ExpirePending(S) \/ ReconcileStale(S) \/
              ReconcileCancel(S)
       PROVE  LedgerMatchesInvoice'
    BY <1>12 DEF ExpirePending, ReconcileStale, ReconcileCancel, StaleProvisioning
<1>13. ASSUME NEW s \in Servers, LateCreate(s) \/ ContainerStops(s)
       PROVE  LedgerMatchesInvoice'
    BY <1>13 DEF LateCreate, ContainerStops
<1>14. ASSUME NEW c \in 0..MaxCredits, SetCredits(c)
       PROVE  LedgerMatchesInvoice'
    BY <1>14 DEF SetCredits
<1>15. ASSUME ReconcileActivate \/ PanelRestart
       PROVE  LedgerMatchesInvoice'
    BY <1>15 DEF ReconcileActivate, PanelRestart
<1> QED
    BY <1>1, <1>2, <1>3, <1>4, <1>5, <1>6, <1>7, <1>8, <1>9, <1>10, <1>11, <1>12, <1>13,
       <1>14, <1>15 DEF Next, Arrive, Advance, Provision, Desk

(* Order status and invoice status move together.                             *)
LEMMA StatusMatchesInvoiceStep ==
    ASSUME TypeOK, TypeOK', RequestInv, InsertDueInv, LinkInv, StatusMatchesInvoice, [Next]_vars
    PROVE  StatusMatchesInvoice'
<1> USE NoneAssumption
<1> USE DEF RequestInv, InsertDueInv, LinkInv, StatusMatchesInvoice, PaidFor, Guarded,
            TypeOK, money, orderRow, serverRow, node, request, At, Goto, GotoWith,
            Begin, Return
<1>1. CASE UNCHANGED vars
    BY <1>1 DEF vars
<1>2. ASSUME NEW p \in Requests, NEW o \in Orders, ClaimRetry(p, o) PROVE
         StatusMatchesInvoice'
    BY <1>2 DEF ClaimRetry
<1>3. ASSUME NEW p \in Requests, InsertPendingOrder(p) PROVE StatusMatchesInvoice'
    BY <1>3 DEF InsertPendingOrder, KeyIsFree
<1>4. ASSUME NEW p \in Requests, InsertDueInvoice(p) PROVE StatusMatchesInvoice'
    BY <1>4 DEF InsertDueInvoice
<1>5. ASSUME NEW p \in Requests, TakeWalletPayment(p) PROVE StatusMatchesInvoice'
    BY <1>5 DEF TakeWalletPayment, Affordable, KeyIsFree
<1>6. ASSUME NEW p \in Requests, TakeCardPayment(p) PROVE StatusMatchesInvoice'
    BY <1>6 DEF TakeCardPayment, KeyIsFree
<1>7. ASSUME NEW p \in Requests, MarkProvisioning(p) PROVE StatusMatchesInvoice'
    BY <1>7 DEF MarkProvisioning
<1>8. ASSUME NEW p \in Requests, ActivateOrder(p) PROVE StatusMatchesInvoice'
    BY <1>8 DEF ActivateOrder
<1>9. ASSUME NEW p \in Requests, RefundFailedOrder(p) PROVE StatusMatchesInvoice'
    BY <1>9 DEF RefundFailedOrder
<1>10. ASSUME NEW p \in Requests, FailRetry(p) PROVE StatusMatchesInvoice'
    BY <1>10 DEF FailRetry
<1>11. ASSUME NEW o \in Orders, VoidDueInvoice(o) PROVE StatusMatchesInvoice'
    BY <1>11 DEF VoidDueInvoice
<1>12. ASSUME ReconcileActivate PROVE StatusMatchesInvoice'
    BY <1>12 DEF ReconcileActivate
<1>13. ASSUME NEW p \in Requests, RefusePayment(p) \/ TryLock(p) \/ RecheckResume(p) \/
              FindReservation(p) \/ UnlinkDeleted(p) \/ ReserveFails(p) \/
              InspectRuntime(p) \/ CreateContainer(p) \/ StartContainer(p) \/
              VerifyRuntime(p) \/ MarkServerRunning(p) \/ CleanupContainer(p) \/
              RetireServer(p) \/ QuarantineServer(p) \/ KeepFinalOrder(p)
       PROVE  StatusMatchesInvoice'
    BY <1>13 DEF RefusePayment, TryLock, RecheckResume, FindReservation, UnlinkDeleted,
           ReserveFails, InspectRuntime, CreateContainer, StartContainer, VerifyRuntime,
           MarkServerRunning, CleanupContainer, RetireServer, QuarantineServer,
           KeepFinalOrder, LockIsFree, Resumable, IsDeleted
<1>14. ASSUME NEW p \in Requests, NEW o \in Orders, StartStorefront(p, o) \/
              StartBilling(p, o) \/ StartTestCard(p, o) \/ StartResume(p, o)
       PROVE  StatusMatchesInvoice'
    BY <1>14 DEF StartStorefront, StartBilling, StartTestCard, StartResume, KeyIsFree,
           Affordable, Resumable
<1>15. ASSUME NEW p \in Requests, NEW s \in Servers, ReserveServer(p, s)
       PROVE  StatusMatchesInvoice'
    BY <1>15 DEF ReserveServer
<1>16. ASSUME NEW o \in Orders, PayPendingOrder(o) \/ CancelUnpaid(o)
       PROVE  StatusMatchesInvoice'
    BY <1>16 DEF PayPendingOrder, CancelUnpaid, Affordable
<1>17. ASSUME NEW S \in SUBSET Orders, ExpirePending(S) \/ ReconcileStale(S) \/
              ReconcileCancel(S)
       PROVE  StatusMatchesInvoice'
    BY <1>17 DEF ExpirePending, ReconcileStale, ReconcileCancel, StaleProvisioning
<1>18. ASSUME NEW s \in Servers, LateCreate(s) \/ ContainerStops(s)
       PROVE  StatusMatchesInvoice'
    BY <1>18 DEF LateCreate, ContainerStops
<1>19. ASSUME NEW c \in 0..MaxCredits, SetCredits(c)
       PROVE  StatusMatchesInvoice'
    BY <1>19 DEF SetCredits
<1>20. ASSUME PanelRestart
       PROVE  StatusMatchesInvoice'
    BY <1>20 DEF PanelRestart
<1> QED
    BY <1>1, <1>2, <1>3, <1>4, <1>5, <1>6, <1>7, <1>8, <1>9, <1>10, <1>11, <1>12, <1>13,
       <1>14, <1>15, <1>16, <1>17, <1>18, <1>19, <1>20 DEF Next, Arrive, Advance,
       Provision, Desk

-----------------------------------------------------------------------------
(* The invariant holds in every reachable state.                             *)
THEOREM Invariance == Spec => []IInv
<1>1. Init => IInv
    BY BoundAssumption, NoneAssumption
       DEF Init, IInv, TypeOK, RequestInv, InsertDueInv, LinkInv, MethodInv, PayerInv, LockInv,
           LedgerMatchesInvoice, StatusMatchesInvoice, Statuses, Invoices, ServerStatuses,
           ContainerStates, Kinds, PCs, Guarded, WithServer
<1>2. IInv /\ [Next]_vars => IInv'
    BY TypeStep, RequestInvStep, InsertDueInvStep, LinkInvStep, MethodInvStep, PayerInvStep,
       LockInvStep, LedgerMatchesInvoiceStep, StatusMatchesInvoiceStep DEF IInv
<1> QED
    BY <1>1, <1>2, PTL DEF Spec

(* Every variable keeps to its type: in particular the wallet never goes       *)
(* below zero, however payments, refunds and staff edits interleave.           *)
THEOREM TypeCorrect == Spec => []TypeOK
    BY Invariance, PTL DEF IInv

(* The wallet rows of an order always match its invoice: debited at most once, *)
(* refunded at most once, and refunded only after a debit.                     *)
THEOREM LedgerCorrect == Spec => []LedgerMatchesInvoice
    BY Invariance, PTL DEF IInv

(* An order is worked on only while its invoice is paid, and a cancelled order *)
(* was never paid.                                                             *)
THEOREM StatusCorrect == Spec => []StatusMatchesInvoice
    BY Invariance, PTL DEF IInv

(* The advisory lock keeps checkouts and resumes of one order apart.           *)
THEOREM MutualExclusion == Spec => []OneProvisioner
<1>1. IInv => OneProvisioner
    BY DEF IInv, LockInv, OneProvisioner
<1> QED
    BY Invariance, <1>1, PTL

(* No server is reserved for an order that was not paid for.                   *)
THEOREM ServersPaid == Spec => []ServersArePaidFor
<1>1. IInv => ServersArePaidFor
    BY DEF IInv, TypeOK, PayerInv, ServersArePaidFor
<1> QED
    BY Invariance, <1>1, PTL

(* No step changes the wallet rows or the invoice of a refunded order, or       *)
(* moves it to a status other than FAILED and ACTIVE.                          *)
RefundStays(o) ==
    /\ invoice'[o] = "REFUNDED"
    /\ debits'[o] = debits[o] /\ refunds'[o] = refunds[o]
    /\ status'[o] \in {"FAILED", "ACTIVE", status[o]}

LEMMA RefundStaysStep ==
    ASSUME IInv, [Next]_vars, NEW x \in Orders, invoice[x] = "REFUNDED"
    PROVE  RefundStays(x)
<1> USE NoneAssumption
<1> USE DEF IInv, TypeOK, Statuses, Invoices, Guarded, PaidFor, RequestInv, InsertDueInv,
            StatusMatchesInvoice, RefundStays,
            money, orderRow, serverRow, node, request, At, Goto, GotoWith, Begin, Return
<1>1. CASE UNCHANGED vars
    BY <1>1 DEF vars
<1>2. ASSUME NEW p \in Requests, NEW o \in Orders, ClaimRetry(p, o) PROVE RefundStays(x)
    BY <1>2 DEF ClaimRetry
<1>3. ASSUME NEW p \in Requests, InsertPendingOrder(p) PROVE RefundStays(x)
    BY <1>3 DEF InsertPendingOrder, KeyIsFree
<1>4. ASSUME NEW p \in Requests, InsertDueInvoice(p) PROVE RefundStays(x)
    BY <1>4 DEF InsertDueInvoice
<1>5. ASSUME NEW p \in Requests, TakeWalletPayment(p) PROVE RefundStays(x)
    BY <1>5 DEF TakeWalletPayment, Affordable, KeyIsFree
<1>6. ASSUME NEW p \in Requests, TakeCardPayment(p) PROVE RefundStays(x)
    BY <1>6 DEF TakeCardPayment, KeyIsFree
<1>7. ASSUME NEW p \in Requests, MarkProvisioning(p) PROVE RefundStays(x)
    BY <1>7 DEF MarkProvisioning
<1>8. ASSUME NEW p \in Requests, RefundFailedOrder(p) PROVE RefundStays(x)
    BY <1>8 DEF RefundFailedOrder
<1>9. ASSUME NEW p \in Requests, FailRetry(p) PROVE RefundStays(x)
    BY <1>9 DEF FailRetry
<1>10. ASSUME NEW o \in Orders, PayPendingOrder(o) PROVE RefundStays(x)
    BY <1>10 DEF PayPendingOrder, Affordable
<1>11. ASSUME NEW S \in SUBSET Orders, ExpirePending(S) PROVE RefundStays(x)
    BY <1>11 DEF ExpirePending
<1>12. ASSUME NEW S \in SUBSET Orders, ReconcileStale(S) PROVE RefundStays(x)
    BY <1>12 DEF ReconcileStale, StaleProvisioning
<1>13. ASSUME NEW S \in SUBSET Orders, ReconcileCancel(S) PROVE RefundStays(x)
    BY <1>13 DEF ReconcileCancel
<1>14. ASSUME NEW p \in Requests, RefusePayment(p) \/ TryLock(p) \/ RecheckResume(p) \/
              FindReservation(p) \/ UnlinkDeleted(p) \/ ReserveFails(p) \/
              InspectRuntime(p) \/ CreateContainer(p) \/ StartContainer(p) \/
              VerifyRuntime(p) \/ MarkServerRunning(p) \/ CleanupContainer(p) \/
              RetireServer(p) \/ QuarantineServer(p) \/ ActivateOrder(p) \/
              KeepFinalOrder(p)
       PROVE  RefundStays(x)
    BY <1>14 DEF RefusePayment, TryLock, RecheckResume, FindReservation, UnlinkDeleted,
           ReserveFails, InspectRuntime, CreateContainer, StartContainer, VerifyRuntime,
           MarkServerRunning, CleanupContainer, RetireServer, QuarantineServer,
           ActivateOrder, KeepFinalOrder, LockIsFree, Resumable, IsDeleted
<1>15. ASSUME NEW p \in Requests, NEW o \in Orders, StartStorefront(p, o) \/
              StartBilling(p, o) \/ StartTestCard(p, o) \/ StartResume(p, o)
       PROVE  RefundStays(x)
    BY <1>15 DEF StartStorefront, StartBilling, StartTestCard, StartResume, KeyIsFree,
           Affordable, Resumable
<1>16. ASSUME NEW p \in Requests, NEW s \in Servers, ReserveServer(p, s)
       PROVE  RefundStays(x)
    BY <1>16 DEF ReserveServer
<1>17. ASSUME NEW o \in Orders, CancelUnpaid(o) \/ VoidDueInvoice(o)
       PROVE  RefundStays(x)
    BY <1>17 DEF CancelUnpaid, VoidDueInvoice
<1>18. ASSUME NEW s \in Servers, LateCreate(s) \/ ContainerStops(s)
       PROVE  RefundStays(x)
    BY <1>18 DEF LateCreate, ContainerStops
<1>19. ASSUME NEW c \in 0..MaxCredits, SetCredits(c)
       PROVE  RefundStays(x)
    BY <1>19 DEF SetCredits
<1>20. ASSUME ReconcileActivate \/ PanelRestart
       PROVE  RefundStays(x)
    BY <1>20 DEF ReconcileActivate, PanelRestart
<1> QED
    BY <1>1, <1>2, <1>3, <1>4, <1>5, <1>6, <1>7, <1>8, <1>9, <1>10, <1>11, <1>12, <1>13,
       <1>14, <1>15, <1>16, <1>17, <1>18, <1>19, <1>20 DEF Next, Arrive, Advance,
       Provision, Desk

THEOREM RefundsFinal == Spec => RefundIsFinal
<1>1. IInv /\ [Next]_vars =>
        [\A o \in Orders :
            invoice[o] = "REFUNDED" =>
                /\ invoice'[o] = "REFUNDED"
                /\ debits'[o] = debits[o] /\ refunds'[o] = refunds[o]
                /\ status'[o] \in {"FAILED", "ACTIVE", status[o]}]_vars
    BY RefundStaysStep DEF RefundStays
<1> QED
    BY Invariance, <1>1, PTL DEF Spec, RefundIsFinal

-----------------------------------------------------------------------------
(* OrderLifecycle implements PaymentLedger.                                  *)

(* When one order's bill changes, the bills change as a ledger move says.     *)
LEMMA OneBillMoves ==
    ASSUME NEW x \in Orders, NEW b,
           \A o \in Orders \ {x} : BillOf(o)' = BillOf(o),
           BillOf(x)' = b
    PROVE  [o \in Orders |-> BillOf(o)]' = [[o \in Orders |-> BillOf(o)] EXCEPT ![x] = b]
    OBVIOUS

(* Each step that touches money is one ledger action; all others stutter.    *)
LEMMA LedgerStep ==
    ASSUME IInv, [Next]_vars
    PROVE  [Ledger!LedgerNext]_(Ledger!ledgerVars)
<1> USE NoneAssumption
<1> USE DEF IInv, TypeOK, Statuses, Invoices, Guarded, PaidFor, RequestInv, InsertDueInv,
            StatusMatchesInvoice, LinkInv, MethodInv, BillOf, Ledger!ledgerVars,
            money, orderRow, serverRow, node, request, At, Goto, GotoWith, Begin, Return
<1> DEFINE Stutter == UNCHANGED Ledger!ledgerVars
<1>1. CASE UNCHANGED vars
    BY <1>1 DEF vars
<1>2. ASSUME NEW p \in Requests, InsertDueInvoice(p) PROVE Ledger!LedgerNext
    <2>1. PICK x \in Orders : x = cur[p]
        BY <1>2 DEF InsertDueInvoice
    <2>2. /\ BillOf(x) = "none" /\ BillOf(x)' = "open"
          /\ \A o \in Orders \ {x} : BillOf(o)' = BillOf(o)
        BY <1>2, <2>1 DEF InsertDueInvoice
    <2>3. UNCHANGED credits
        BY <1>2 DEF InsertDueInvoice
    <2>4. Ledger!OpenBill(x)
        BY <2>2, <2>3, OneBillMoves DEF Ledger!OpenBill, Ledger!Moves
    <2> QED
        BY <2>4 DEF Ledger!LedgerNext
<1>3. ASSUME NEW p \in Requests, TakeWalletPayment(p) PROVE Ledger!LedgerNext
    <2>1. PICK x \in Orders : x = cur[p]
        BY <1>3 DEF TakeWalletPayment
    <2>2. /\ BillOf(x) = "none" /\ BillOf(x)' = "paid"
          /\ \A o \in Orders \ {x} : BillOf(o)' = BillOf(o)
        BY <1>3, <2>1 DEF TakeWalletPayment, Affordable, KeyIsFree
    <2>3. credits >= Price /\ credits' = credits - Price
        BY <1>3 DEF TakeWalletPayment, Affordable, KeyIsFree
    <2>4. Ledger!SettleFromWallet(x)
        BY <2>2, <2>3, OneBillMoves DEF Ledger!SettleFromWallet, Ledger!Moves
    <2> QED
        BY <2>4 DEF Ledger!LedgerNext
<1>4. ASSUME NEW p \in Requests, TakeCardPayment(p) PROVE Ledger!LedgerNext
    <2>1. PICK x \in Orders : x = cur[p]
        BY <1>4 DEF TakeCardPayment
    <2>2. /\ BillOf(x) = "none" /\ BillOf(x)' = "card_paid"
          /\ \A o \in Orders \ {x} : BillOf(o)' = BillOf(o)
        BY <1>4, <2>1 DEF TakeCardPayment, KeyIsFree
    <2>3. UNCHANGED credits
        BY <1>4 DEF TakeCardPayment, KeyIsFree
    <2>4. Ledger!SettleByCard(x)
        BY <2>2, <2>3, OneBillMoves DEF Ledger!SettleByCard, Ledger!Moves
    <2> QED
        BY <2>4 DEF Ledger!LedgerNext
<1>5. ASSUME NEW p \in Requests, RefundFailedOrder(p) PROVE Ledger!LedgerNext
    <2>1. PICK x \in Orders : x = cur[p]
        BY <1>5 DEF RefundFailedOrder
    <2>2. /\ invoice[x] = "PAID" /\ method[x] \in {"wallet", "test_card"}
          /\ invoice' = [invoice EXCEPT ![x] = "REFUNDED"] /\ method' = method
        BY <1>5, <2>1 DEF RefundFailedOrder
    <2>3. CASE method[x] = "wallet"
        <3>1. BillOf(x) = "paid" /\ BillOf(x)' = "returned"
            BY <2>2, <2>3
        <3>2. credits' = credits + Price
            BY <1>5, <2>1, <2>3 DEF RefundFailedOrder
        <3>3. Ledger!ReturnToWallet(x)
            BY <2>2, <3>1, <3>2, OneBillMoves DEF Ledger!ReturnToWallet, Ledger!Moves
        <3> QED
            BY <3>3 DEF Ledger!LedgerNext
    <2>4. CASE method[x] = "test_card"
        <3>1. BillOf(x) = "card_paid" /\ BillOf(x)' = "card_returned"
            BY <2>2, <2>4
        <3>2. credits' = credits
            BY <1>5, <2>1, <2>4 DEF RefundFailedOrder
        <3>3. Ledger!ReturnToCard(x)
            BY <2>2, <3>1, <3>2, OneBillMoves DEF Ledger!ReturnToCard, Ledger!Moves
        <3> QED
            BY <3>3 DEF Ledger!LedgerNext
    <2> QED
        BY <2>2, <2>3, <2>4
<1>6. ASSUME NEW o \in Orders, PayPendingOrder(o) PROVE Ledger!LedgerNext
    <2>1. Ledger!SettleFromWallet(o)
        BY <1>6 DEF PayPendingOrder, Affordable, Ledger!SettleFromWallet, Ledger!Moves
    <2> QED
        BY <2>1 DEF Ledger!LedgerNext
<1>7. ASSUME NEW o \in Orders, CancelUnpaid(o) PROVE Ledger!LedgerNext \/ Stutter
    <2>1. CASE invoice[o] = "DUE"
        <3>1. Ledger!VoidBills({o})
            BY <1>7, <2>1 DEF CancelUnpaid, Ledger!VoidBills
        <3> QED
            BY <3>1 DEF Ledger!LedgerNext
    <2>2. CASE invoice[o] # "DUE"
        BY <1>7, <2>2 DEF CancelUnpaid
    <2> QED
        BY <2>1, <2>2
<1>8. ASSUME NEW o \in Orders, VoidDueInvoice(o) PROVE Ledger!LedgerNext
    <2>1. Ledger!VoidBills({o})
        BY <1>8 DEF VoidDueInvoice, Ledger!VoidBills
    <2> QED
        BY <2>1 DEF Ledger!LedgerNext
<1>9. ASSUME NEW S \in SUBSET Orders, ExpirePending(S) PROVE Ledger!LedgerNext
    <2>1. PICK T \in SUBSET Orders : T = {x \in S : invoice[x] = "DUE"}
        OBVIOUS
    <2>2. Ledger!VoidBills(T)
        BY <1>9, <2>1 DEF ExpirePending, Ledger!VoidBills
    <2> QED
        BY <2>2 DEF Ledger!LedgerNext
<1>10. ASSUME NEW c \in 0..MaxCredits, SetCredits(c) PROVE Ledger!LedgerNext
    <2>1. Ledger!AdjustWallet(c)
        BY <1>10 DEF SetCredits, Ledger!AdjustWallet
    <2> QED
        BY <2>1 DEF Ledger!LedgerNext
<1>11. ASSUME NEW p \in Requests, InsertPendingOrder(p) PROVE Stutter
    BY <1>11 DEF InsertPendingOrder, KeyIsFree
<1>12. ASSUME NEW p \in Requests, RefusePayment(p) \/ TryLock(p) \/ RecheckResume(p) \/
              MarkProvisioning(p) \/ FindReservation(p) \/ UnlinkDeleted(p) \/
              ReserveFails(p) \/ InspectRuntime(p) \/ CreateContainer(p) \/
              StartContainer(p) \/ VerifyRuntime(p) \/ MarkServerRunning(p) \/
              CleanupContainer(p) \/ RetireServer(p) \/ QuarantineServer(p) \/
              ActivateOrder(p) \/ KeepFinalOrder(p) \/ FailRetry(p)
       PROVE  Stutter
    BY <1>12 DEF RefusePayment, TryLock, RecheckResume, MarkProvisioning,
           FindReservation, UnlinkDeleted, ReserveFails, InspectRuntime,
           CreateContainer, StartContainer, VerifyRuntime, MarkServerRunning,
           CleanupContainer, RetireServer, QuarantineServer, ActivateOrder,
           KeepFinalOrder, FailRetry, LockIsFree, Resumable, IsDeleted
<1>13. ASSUME NEW p \in Requests, NEW o \in Orders, StartStorefront(p, o) \/
              StartBilling(p, o) \/ StartTestCard(p, o) \/ StartResume(p, o) \/
              ClaimRetry(p, o)
       PROVE  Stutter
    BY <1>13 DEF StartStorefront, StartBilling, StartTestCard, StartResume, ClaimRetry,
           KeyIsFree, Affordable, Resumable
<1>14. ASSUME NEW p \in Requests, NEW s \in Servers, ReserveServer(p, s)
       PROVE  Stutter
    BY <1>14 DEF ReserveServer
<1>15. ASSUME NEW S \in SUBSET Orders, ReconcileStale(S) \/ ReconcileCancel(S)
       PROVE  Stutter
    BY <1>15 DEF ReconcileStale, ReconcileCancel, StaleProvisioning
<1>16. ASSUME NEW s \in Servers, LateCreate(s) \/ ContainerStops(s)
       PROVE  Stutter
    BY <1>16 DEF LateCreate, ContainerStops
<1>17. ASSUME ReconcileActivate \/ PanelRestart
       PROVE  Stutter
    BY <1>17 DEF ReconcileActivate, PanelRestart
<1> HIDE DEF IInv, TypeOK, Statuses, Invoices, Guarded, PaidFor, RequestInv, InsertDueInv,
             StatusMatchesInvoice, LinkInv, MethodInv, BillOf, Ledger!ledgerVars,
             money, orderRow, serverRow, node, request, At, Goto, GotoWith, Begin, Return
<1> QED
    BY <1>1, <1>2, <1>3, <1>4, <1>5, <1>6, <1>7, <1>8, <1>9, <1>10, <1>11, <1>12, <1>13,
       <1>14, <1>15, <1>16, <1>17 DEF Next, Arrive, Advance,  Provision, Desk

(* Whatever requests, retries, crashes and sweeps do, a customer's money moves   *)
(* only as PaymentLedger says.                                                *)
THEOREM LedgerRefinement == Spec => ImplementsLedger
<1>1. Init => Ledger!LedgerInit
    BY DEF Init, Ledger!LedgerInit, BillOf
<1>2. IInv /\ [Next]_vars => [Ledger!LedgerNext]_(Ledger!ledgerVars)
    BY LedgerStep
<1> QED
    BY Invariance, <1>1, <1>2, PTL DEF Spec, ImplementsLedger, Ledger!LedgerSpec

-----------------------------------------------------------------------------
(***************************************************************************)
(* One reservation per order, for every number of checkout attempts,       *)
(* requests, servers and restarts: a resume never reserves a second server *)
(* while the order's first reservation is kept, although staff retries     *)
(* link their own server over it without taking the lock.                  *)
(***************************************************************************)

(* Holder: a checkout or resume that works on the order.  Retrying: a staff    *)
(* retry that does.  Has: a request that will write the server row or unlink it. *)
Holder(x, o) == kind[x] # "retry" /\ cur[x] = o
Retrying(x, o) == kind[x] = "retry" /\ cur[x] = o
Has(x, s) == pc[x] \in WithServer \cup {"unlink"} /\ srv[x] = s

\* A reservation that was made for an order and not retired.
Kept(s) == s \notin viaRetry /\ server[s] \notin {"NONE", "deleted"}

(* Which calls a retry makes, and that an order has one at a time, which       *)
(* ClaimRetry's status test can tell.                                          *)
RetryInv ==
    /\ \A r \in Requests :
        kind[r] = "retry" =>
            /\ pc[r] \in {"reserve", "settle"} \cup WithServer
            /\ status[cur[r]] \in {"PROVISIONING", "ACTIVE"} \/ invoice[cur[r]] = "REFUNDED"
    /\ \A r, q \in Requests :
        kind[r] = "retry" /\ kind[q] = "retry" /\ cur[r] = cur[q] => r = q

(* One request paid for the order, and enters provisioning without RecheckResume. *)
CheckoutInv ==
    \A p, q \in Requests :
        (/\ p # q /\ cur[p] = cur[q]
         /\ pc[p] \in Guarded \cup {"lock"} /\ kind[p] \notin {"retry", "resume"}
         /\ pc[q] \in Guarded \cup {"lock"} /\ kind[q] \notin {"retry", "resume"}) => FALSE

(* A linked row, and the row a request has, belong to the order; the row a     *)
(* retry has is its own and not linked yet.                                    *)
OwnerInv ==
    /\ \A o \in Orders : link[o] # None => payer[link[o]] = o
    /\ \A x \in Requests :
        /\ pc[x] \in WithServer =>
              payer[srv[x]] = cur[x] /\ server[srv[x]] \notin {"NONE", "deleted"}
        /\ pc[x] = "unlink" =>
              srv[x] \in Servers /\ payer[srv[x]] = cur[x] /\ server[srv[x]] = "deleted"
    /\ \A r \in Requests :
        kind[r] = "retry" /\ pc[r] \in WithServer =>
            /\ srv[r] \in viaRetry
            /\ \A o \in Orders : link[o] # srv[r]
            /\ \A x \in Requests : Has(x, srv[r]) => x = r

(* While a retry is at work, an order that is still being provisioned and is   *)
(* linked is in the hands of a request past FindReservation, so that no resume *)
(* gets there.                                                                 *)
OverlapInv ==
    \A r \in Requests, o \in Orders :
        Retrying(r, o) /\ link[o] # None =>
            /\ status[o] \in {"PAID", "PROVISIONING"} =>
                  \E x \in Requests :
                      Holder(x, o) /\ pc[x] \in Guarded \ {"recheck", "mark", "find"}
            /\ \A x \in Requests :
                  kind[x] = "resume" /\ cur[x] = o => pc[x] \notin {"mark", "find"}

(* A kept reservation that a retry's link displaced: the order is ACTIVE, so   *)
(* no resume is admitted again, and nobody can unlink what displaced it.       *)
Displaced(o) ==
    /\ status[o] = "ACTIVE"
    /\ link[o] # None
    /\ \A x \in Requests :
        Holder(x, o) =>
            /\ kind[x] = "resume" =>
                  pc[x] \notin {"mark", "find"} /\ (pc[x] \in WithServer => srv[x] # link[o])
            /\ pc[x] = "unlink" => srv[x] # link[o]
            /\ server[link[o]] = "deleted" =>
                  pc[x] \notin {"mark", "find"} /\ (kind[x] # "resume" => pc[x] # "lock")

KeptInv ==
    /\ \A s \in Servers :
        Kept(s) => link[payer[s]] = s \/ Displaced(payer[s])
    /\ \A s, t \in Servers : Kept(s) /\ Kept(t) /\ payer[s] = payer[t] => s = t

-----------------------------------------------------------------------------
(* A second claim fails on the status the first one wrote, until the first is  *)
(* settled or the money is back.                                               *)
LEMMA RetryInvStep ==
    ASSUME IInv, IInv', RetryInv, [Next]_vars
    PROVE  RetryInv'
<1> USE NoneAssumption
<1> USE DEF IInv, RetryInv, PaidFor, StatusMatchesInvoice, Guarded, WithServer,
    TypeOK, RequestInv, money, orderRow, serverRow, node, request, At, Goto,
    GotoWith, Begin, Return
<1>1. CASE UNCHANGED vars
    BY <1>1 DEF vars
<1>2. ASSUME NEW p \in Requests, TakeWalletPayment(p) PROVE RetryInv'
    BY <1>2 DEF TakeWalletPayment, KeyIsFree, Affordable
<1>3. ASSUME NEW p \in Requests, TakeCardPayment(p) PROVE RetryInv'
    BY <1>3 DEF TakeCardPayment, KeyIsFree
<1>4. ASSUME NEW p \in Requests, TryLock(p) PROVE RetryInv'
    BY <1>4 DEF TryLock, LockIsFree
<1>5. ASSUME NEW p \in Requests, MarkProvisioning(p) PROVE RetryInv'
    BY <1>5 DEF MarkProvisioning
<1>6. ASSUME NEW p \in Requests, ActivateOrder(p) PROVE RetryInv'
    <2>1. cur[p] \in Orders /\ srv[p] \in Servers
        BY <1>6 DEF ActivateOrder
    <2>2. CASE kind[p] # "retry" /\ ~FailureReasonNullable
        BY <1>6, <2>2 DEF ActivateOrder
    <2>3. CASE kind[p] = "retry" \/ FailureReasonNullable
        BY <1>6, <2>1, <2>3, SMTT(60) DEF ActivateOrder
    <2> QED
        BY <2>2, <2>3
<1>7. ASSUME NEW p \in Requests, RefundFailedOrder(p) PROVE RetryInv'
    BY <1>7 DEF RefundFailedOrder
<1>8. ASSUME NEW p \in Requests, FailRetry(p) PROVE RetryInv'
    BY <1>8 DEF FailRetry
<1>9. ASSUME NEW p \in Requests, NEW s \in Servers, ReserveServer(p, s) PROVE
    RetryInv'
    BY <1>9 DEF ReserveServer
<1>10. ASSUME NEW p \in Requests, InsertPendingOrder(p) \/ InsertDueInvoice(p) \/
    RefusePayment(p) \/ RecheckResume(p) \/ FindReservation(p) \/ UnlinkDeleted(p)
    \/ ReserveFails(p) \/ InspectRuntime(p) \/ CreateContainer(p) \/
    StartContainer(p) \/ VerifyRuntime(p) \/ MarkServerRunning(p) \/
    CleanupContainer(p) \/ RetireServer(p) \/ QuarantineServer(p) \/
    KeepFinalOrder(p) PROVE RetryInv'
    BY <1>10 DEF InsertPendingOrder, InsertDueInvoice, RefusePayment, RecheckResume,
        FindReservation, UnlinkDeleted, ReserveFails, InspectRuntime,
        CreateContainer, StartContainer, VerifyRuntime, MarkServerRunning,
        CleanupContainer, RetireServer, QuarantineServer, KeepFinalOrder, IsDeleted,
        KeyIsFree, Resumable
<1>11. ASSUME NEW p \in Requests, NEW o \in Orders, ClaimRetry(p, o) PROVE RetryInv'
    BY <1>11 DEF ClaimRetry, KeyIsFree, Affordable, Resumable
<1>12. ASSUME NEW p \in Requests, NEW o \in Orders, StartStorefront(p, o) \/
    StartBilling(p, o) \/ StartTestCard(p, o) \/ StartResume(p, o) PROVE RetryInv'
    BY <1>12 DEF StartStorefront, StartBilling, StartTestCard, StartResume,
        KeyIsFree, Affordable, Resumable
<1>13. ASSUME NEW o \in Orders, PayPendingOrder(o) \/ CancelUnpaid(o) \/
    VoidDueInvoice(o) PROVE RetryInv'
    BY <1>13 DEF PayPendingOrder, CancelUnpaid, VoidDueInvoice, Affordable
<1>14. ASSUME NEW S \in SUBSET Orders, ExpirePending(S) \/ ReconcileStale(S) \/
    ReconcileCancel(S) PROVE RetryInv'
    BY <1>14 DEF ExpirePending, ReconcileStale, ReconcileCancel, StaleProvisioning,
        Abandoned, Working
<1>15. ASSUME NEW s \in Servers, LateCreate(s) \/ ContainerStops(s) PROVE RetryInv'
    BY <1>15 DEF LateCreate, ContainerStops
<1>16. ASSUME NEW c \in 0..MaxCredits, SetCredits(c) PROVE RetryInv'
    BY <1>16 DEF SetCredits
<1>17. ASSUME ReconcileActivate \/ PanelRestart PROVE RetryInv'
    BY <1>17 DEF ReconcileActivate, PanelRestart
<1> QED
    BY <1>1, <1>2, <1>3, <1>4, <1>5, <1>6, <1>7, <1>8, <1>9, <1>10, <1>11, <1>12,
        <1>13, <1>14, <1>15, <1>16, <1>17 DEF Next, Arrive, Advance, Provision, Desk

(* The unique key lets one checkout pay.                                       *)
LEMMA CheckoutInvStep ==
    ASSUME IInv, IInv', RetryInv, CheckoutInv, [Next]_vars
    PROVE  CheckoutInv'
<1> USE NoneAssumption
<1> USE DEF IInv, RetryInv, CheckoutInv, PaidFor, Guarded, WithServer, TypeOK,
    RequestInv, money, orderRow, serverRow, node, request, At, Goto, GotoWith,
    Begin, Return
<1>1. CASE UNCHANGED vars
    BY <1>1 DEF vars
<1>2. ASSUME NEW p \in Requests, TakeWalletPayment(p) PROVE CheckoutInv'
    BY <1>2 DEF TakeWalletPayment, KeyIsFree, Affordable
<1>3. ASSUME NEW p \in Requests, TakeCardPayment(p) PROVE CheckoutInv'
    BY <1>3 DEF TakeCardPayment, KeyIsFree
<1>4. ASSUME NEW p \in Requests, TryLock(p) PROVE CheckoutInv'
    BY <1>4 DEF TryLock, LockIsFree
<1>5. ASSUME NEW p \in Requests, NEW s \in Servers, ReserveServer(p, s) PROVE
    CheckoutInv'
    BY <1>5 DEF ReserveServer
<1>6. ASSUME NEW p \in Requests, InsertPendingOrder(p) \/ InsertDueInvoice(p) \/
    RefusePayment(p) \/ RecheckResume(p) \/ MarkProvisioning(p) \/
    FindReservation(p) \/ UnlinkDeleted(p) \/ ReserveFails(p) \/ InspectRuntime(p)
    \/ CreateContainer(p) \/ StartContainer(p) \/ VerifyRuntime(p) \/
    MarkServerRunning(p) \/ CleanupContainer(p) \/ RetireServer(p) \/
    QuarantineServer(p) \/ ActivateOrder(p) \/ RefundFailedOrder(p) \/
    KeepFinalOrder(p) \/ FailRetry(p) PROVE CheckoutInv'
    BY <1>6 DEF InsertPendingOrder, InsertDueInvoice, RefusePayment, RecheckResume,
        MarkProvisioning, FindReservation, UnlinkDeleted, ReserveFails,
        InspectRuntime, CreateContainer, StartContainer, VerifyRuntime,
        MarkServerRunning, CleanupContainer, RetireServer, QuarantineServer,
        ActivateOrder, RefundFailedOrder, KeepFinalOrder, FailRetry, IsDeleted,
        KeyIsFree, Resumable
<1>7. ASSUME NEW p \in Requests, NEW o \in Orders, ClaimRetry(p, o) PROVE
    CheckoutInv'
    BY <1>7 DEF ClaimRetry, KeyIsFree, Affordable, Resumable
<1>8. ASSUME NEW p \in Requests, NEW o \in Orders, StartStorefront(p, o) \/
    StartBilling(p, o) \/ StartTestCard(p, o) \/ StartResume(p, o) PROVE
    CheckoutInv'
    BY <1>8 DEF StartStorefront, StartBilling, StartTestCard, StartResume,
        KeyIsFree, Affordable, Resumable
<1>9. ASSUME NEW o \in Orders, PayPendingOrder(o) \/ CancelUnpaid(o) \/
    VoidDueInvoice(o) PROVE CheckoutInv'
    BY <1>9 DEF PayPendingOrder, CancelUnpaid, VoidDueInvoice, Affordable
<1>10. ASSUME NEW S \in SUBSET Orders, ExpirePending(S) \/ ReconcileStale(S) \/
    ReconcileCancel(S) PROVE CheckoutInv'
    BY <1>10 DEF ExpirePending, ReconcileStale, ReconcileCancel, StaleProvisioning,
        Abandoned, Working
<1>11. ASSUME NEW s \in Servers, LateCreate(s) \/ ContainerStops(s) PROVE
    CheckoutInv'
    BY <1>11 DEF LateCreate, ContainerStops
<1>12. ASSUME NEW c \in 0..MaxCredits, SetCredits(c) PROVE CheckoutInv'
    BY <1>12 DEF SetCredits
<1>13. ASSUME ReconcileActivate \/ PanelRestart PROVE CheckoutInv'
    BY <1>13 DEF ReconcileActivate, PanelRestart
<1> QED
    BY <1>1, <1>2, <1>3, <1>4, <1>5, <1>6, <1>7, <1>8, <1>9, <1>10, <1>11, <1>12,
        <1>13 DEF Next, Arrive, Advance, Provision, Desk

(* Rows change hands through the link alone, and the lock keeps the requests    *)
(* that follow a link apart.                                                   *)
LEMMA OwnerInvStep ==
    ASSUME IInv, IInv', RetryInv, OwnerInv, [Next]_vars
    PROVE  OwnerInv'
<1> USE NoneAssumption
<1> USE DEF OwnerInv, RetryInv, Has, IInv, TypeOK, RequestInv, LockInv, LinkInv,
    Guarded, WithServer, money, orderRow, serverRow, node, request, At, Goto,
    GotoWith, Begin, Return
<1>1. CASE UNCHANGED vars
    BY <1>1 DEF vars
<1>2. ASSUME NEW p \in Requests, TryLock(p) PROVE OwnerInv'
    BY <1>2 DEF TryLock, LockIsFree
<1>3. ASSUME NEW p \in Requests, FindReservation(p) PROVE OwnerInv'
    BY <1>3 DEF FindReservation, IsDeleted
<1>4. ASSUME NEW p \in Requests, UnlinkDeleted(p) PROVE OwnerInv'
    BY <1>4 DEF UnlinkDeleted
<1>5. ASSUME NEW p \in Requests, MarkServerRunning(p) PROVE OwnerInv'
    BY <1>5 DEF MarkServerRunning
<1>6. ASSUME NEW p \in Requests, RetireServer(p) PROVE OwnerInv'
    BY <1>6 DEF RetireServer
<1>7. ASSUME NEW p \in Requests, QuarantineServer(p) PROVE OwnerInv'
    BY <1>7 DEF QuarantineServer
<1>8. ASSUME NEW p \in Requests, ActivateOrder(p) PROVE OwnerInv'
    <2>1. cur[p] \in Orders /\ srv[p] \in Servers
        BY <1>8 DEF ActivateOrder
    <2>2. CASE kind[p] # "retry" /\ ~FailureReasonNullable
        BY <1>8, <2>2 DEF ActivateOrder
    <2>3. CASE kind[p] = "retry" \/ FailureReasonNullable
        BY <1>8, <2>1, <2>3, SMTT(60) DEF ActivateOrder
    <2> QED
        BY <2>2, <2>3
<1>9. ASSUME NEW p \in Requests, CreateContainer(p) PROVE OwnerInv'
    BY <1>9 DEF CreateContainer
<1>10. ASSUME NEW p \in Requests, RefundFailedOrder(p) PROVE OwnerInv'
    BY <1>10 DEF RefundFailedOrder
<1>11. ASSUME NEW p \in Requests, NEW s \in Servers, ReserveServer(p, s) PROVE
    OwnerInv'
    BY <1>11 DEF ReserveServer
<1>12. ASSUME NEW p \in Requests, InsertPendingOrder(p) \/ RefusePayment(p) \/
    InspectRuntime(p) \/ KeepFinalOrder(p) PROVE OwnerInv'
    <2>1. CASE InsertPendingOrder(p)
        BY <2>1 DEF InsertPendingOrder, KeyIsFree
    <2>2. CASE RefusePayment(p)
        BY <2>2 DEF RefusePayment
    <2>3. CASE InspectRuntime(p)
        BY <2>3 DEF InspectRuntime
    <2>4. CASE KeepFinalOrder(p)
        BY <2>4 DEF KeepFinalOrder
    <2> QED
        BY <1>12, <2>1, <2>2, <2>3, <2>4
<1>13. ASSUME NEW p \in Requests, InsertDueInvoice(p) \/ RecheckResume(p) \/
    StartContainer(p) \/ FailRetry(p) PROVE OwnerInv'
    <2>1. CASE InsertDueInvoice(p)
        BY <2>1 DEF InsertDueInvoice
    <2>2. CASE RecheckResume(p)
        BY <2>2 DEF RecheckResume, Resumable
    <2>3. CASE StartContainer(p)
        BY <2>3 DEF StartContainer
    <2>4. CASE FailRetry(p)
        BY <2>4 DEF FailRetry
    <2> QED
        BY <1>13, <2>1, <2>2, <2>3, <2>4
<1>14. ASSUME NEW p \in Requests, TakeWalletPayment(p) \/ MarkProvisioning(p) \/
    VerifyRuntime(p) PROVE OwnerInv'
    <2>1. CASE TakeWalletPayment(p)
        BY <2>1 DEF TakeWalletPayment, Affordable, KeyIsFree
    <2>2. CASE MarkProvisioning(p)
        BY <2>2 DEF MarkProvisioning
    <2>3. CASE VerifyRuntime(p)
        BY <2>3 DEF VerifyRuntime
    <2> QED
        BY <1>14, <2>1, <2>2, <2>3
<1>15. ASSUME NEW p \in Requests, TakeCardPayment(p) \/ ReserveFails(p) \/
    CleanupContainer(p) PROVE OwnerInv'
    <2>1. CASE TakeCardPayment(p)
        BY <2>1 DEF TakeCardPayment, KeyIsFree
    <2>2. CASE ReserveFails(p)
        BY <2>2 DEF ReserveFails
    <2>3. CASE CleanupContainer(p)
        BY <2>3 DEF CleanupContainer
    <2> QED
        BY <1>15, <2>1, <2>2, <2>3
<1>16. ASSUME NEW p \in Requests, NEW o \in Orders, ClaimRetry(p, o) PROVE OwnerInv'
    BY <1>16 DEF ClaimRetry, KeyIsFree, Affordable, Resumable
<1>17. ASSUME NEW p \in Requests, NEW o \in Orders, StartStorefront(p, o) \/
    StartBilling(p, o) \/ StartTestCard(p, o) \/ StartResume(p, o) PROVE OwnerInv'
    BY <1>17 DEF StartStorefront, StartBilling, StartTestCard, StartResume,
        KeyIsFree, Affordable, Resumable
<1>18. ASSUME NEW o \in Orders, PayPendingOrder(o) \/ CancelUnpaid(o) \/
    VoidDueInvoice(o) PROVE OwnerInv'
    BY <1>18 DEF PayPendingOrder, CancelUnpaid, VoidDueInvoice, Affordable
<1>19. ASSUME NEW S \in SUBSET Orders, ExpirePending(S) \/ ReconcileStale(S) \/
    ReconcileCancel(S) PROVE OwnerInv'
    BY <1>19 DEF ExpirePending, ReconcileStale, ReconcileCancel, StaleProvisioning,
        Abandoned, Working
<1>20. ASSUME NEW s \in Servers, LateCreate(s) \/ ContainerStops(s) PROVE OwnerInv'
    BY <1>20 DEF LateCreate, ContainerStops
<1>21. ASSUME NEW c \in 0..MaxCredits, SetCredits(c) PROVE OwnerInv'
    BY <1>21 DEF SetCredits
<1>22. ASSUME ReconcileActivate \/ PanelRestart PROVE OwnerInv'
    BY <1>22 DEF ReconcileActivate, PanelRestart
<1> QED
    BY <1>1, <1>2, <1>3, <1>4, <1>5, <1>6, <1>7, <1>8, <1>9, <1>10, <1>11, <1>12,
        <1>13, <1>14, <1>15, <1>16, <1>17, <1>18, <1>19, <1>20, <1>21, <1>22 DEF
        Next, Arrive, Advance, Provision, Desk

(* A resume tests the status under the lock, and a claim needs an unlinked order. *)
LEMMA OverlapInvStep ==
    ASSUME IInv, IInv', RetryInv, RetryInv', OwnerInv, OverlapInv, [Next]_vars
    PROVE  OverlapInv'
<1> USE NoneAssumption
<1> USE DEF OverlapInv, RetryInv, Holder, Retrying, IInv, PaidFor,
    StatusMatchesInvoice, TypeOK, RequestInv, LockInv, LinkInv, Guarded, WithServer,
    money, orderRow, serverRow, node, request, At, Goto, GotoWith, Begin, Return
<1>1. CASE UNCHANGED vars
    BY <1>1 DEF vars
<1>2. ASSUME NEW p \in Requests, InsertPendingOrder(p) PROVE OverlapInv'
    BY <1>2 DEF InsertPendingOrder, KeyIsFree
<1>3. ASSUME NEW p \in Requests, TakeWalletPayment(p) PROVE OverlapInv'
    BY <1>3 DEF TakeWalletPayment, KeyIsFree, Affordable
<1>4. ASSUME NEW p \in Requests, TakeCardPayment(p) PROVE OverlapInv'
    BY <1>4 DEF TakeCardPayment, KeyIsFree
<1>5. ASSUME NEW p \in Requests, TryLock(p) PROVE OverlapInv'
    <2> SUFFICES ASSUME NEW r \in Requests, NEW o \in Orders, Retrying(r, o)', link'[o] # None
                 PROVE  /\ status'[o] \in {"PAID", "PROVISIONING"} =>
                              \E x \in Requests :
                                  Holder(x, o)' /\ pc'[x] \in Guarded \ {"recheck", "mark", "find"}
                        /\ \A x \in Requests :
                              kind'[x] = "resume" /\ cur'[x] = o => pc'[x] \notin {"mark", "find"}
        BY DEF OverlapInv
    <2>1. Retrying(r, o) /\ link[o] # None /\ status' = status
        BY <1>5 DEF TryLock
    <2>2. ASSUME NEW x \in Requests, Holder(x, o), pc[x] \in Guarded \ {"recheck", "mark", "find"}
          PROVE  Holder(x, o)' /\ pc'[x] = pc[x]
        BY <1>5, <2>2 DEF TryLock
    <2>3. ASSUME NEW x \in Requests, kind'[x] = "resume", cur'[x] = o
          PROVE  pc'[x] \notin {"mark", "find"}
        BY <1>5, <2>1, <2>3 DEF TryLock
    <2> QED
        BY <2>1, <2>2, <2>3
<1>6. ASSUME NEW p \in Requests, RecheckResume(p) PROVE OverlapInv'
    <2> SUFFICES ASSUME NEW r \in Requests, NEW o \in Orders, Retrying(r, o)', link'[o] # None
                 PROVE  /\ status'[o] \in {"PAID", "PROVISIONING"} =>
                              \E x \in Requests :
                                  Holder(x, o)' /\ pc'[x] \in Guarded \ {"recheck", "mark", "find"}
                        /\ \A x \in Requests :
                              kind'[x] = "resume" /\ cur'[x] = o => pc'[x] \notin {"mark", "find"}
        BY DEF OverlapInv
    <2>1. Retrying(r, o) /\ link[o] # None /\ status' = status
        BY <1>6 DEF RecheckResume
    <2>2. ASSUME NEW x \in Requests, Holder(x, o), pc[x] \in Guarded \ {"recheck", "mark", "find"}
          PROVE  Holder(x, o)' /\ pc'[x] = pc[x]
        BY <1>6, <2>2 DEF RecheckResume
    <2>3. cur[p] = o => ~Resumable(o)
        BY <1>6, <2>1 DEF RecheckResume, Resumable
    <2>4. ASSUME NEW x \in Requests, kind'[x] = "resume", cur'[x] = o
          PROVE  pc'[x] \notin {"mark", "find"}
        BY <1>6, <2>1, <2>3, <2>4 DEF RecheckResume
    <2> QED
        BY <2>1, <2>2, <2>4
<1>7. ASSUME NEW p \in Requests, MarkProvisioning(p) PROVE OverlapInv'
    BY <1>7 DEF MarkProvisioning
<1>8. ASSUME NEW p \in Requests, FindReservation(p) PROVE OverlapInv'
    BY <1>8 DEF FindReservation, IsDeleted
<1>9. ASSUME NEW p \in Requests, UnlinkDeleted(p) PROVE OverlapInv'
    BY <1>9 DEF UnlinkDeleted
<1>10. ASSUME NEW p \in Requests, ActivateOrder(p) PROVE OverlapInv'
    <2>1. cur[p] \in Orders /\ srv[p] \in Servers
        BY <1>10 DEF ActivateOrder
    <2>2. CASE kind[p] # "retry" /\ ~FailureReasonNullable
        BY <1>10, <2>2 DEF ActivateOrder
    <2>3. CASE kind[p] = "retry" \/ FailureReasonNullable
        BY <1>10, <2>1, <2>3, SMTT(60) DEF ActivateOrder
    <2> QED
        BY <2>2, <2>3
<1>11. ASSUME NEW p \in Requests, RefundFailedOrder(p) PROVE OverlapInv'
    BY <1>11 DEF RefundFailedOrder
<1>12. ASSUME NEW p \in Requests, KeepFinalOrder(p) PROVE OverlapInv'
    BY <1>12 DEF KeepFinalOrder
<1>13. ASSUME NEW p \in Requests, FailRetry(p) PROVE OverlapInv'
    BY <1>13 DEF FailRetry
<1>14. ASSUME NEW p \in Requests, RefusePayment(p) PROVE OverlapInv'
    BY <1>14 DEF RefusePayment
<1>15. ASSUME NEW p \in Requests, RetireServer(p) PROVE OverlapInv'
    BY <1>15 DEF RetireServer
<1>16. ASSUME NEW p \in Requests, StartContainer(p) PROVE OverlapInv'
    BY <1>16 DEF StartContainer
<1>17. ASSUME NEW p \in Requests, QuarantineServer(p) PROVE OverlapInv'
    BY <1>17 DEF QuarantineServer
<1>18. ASSUME NEW p \in Requests, InsertDueInvoice(p) PROVE OverlapInv'
    BY <1>18 DEF InsertDueInvoice
<1>19. ASSUME NEW p \in Requests, NEW s \in Servers, ReserveServer(p, s) PROVE
    OverlapInv'
    BY <1>19 DEF ReserveServer
<1>20. ASSUME NEW p \in Requests, ReserveFails(p) \/ MarkServerRunning(p) PROVE
    OverlapInv'
    BY <1>20 DEF ReserveFails, MarkServerRunning
<1>21. ASSUME NEW p \in Requests, InspectRuntime(p) \/ CleanupContainer(p) PROVE
    OverlapInv'
    BY <1>21 DEF InspectRuntime, CleanupContainer
<1>22. ASSUME NEW p \in Requests, CreateContainer(p) PROVE OverlapInv'
    BY <1>22 DEF CreateContainer
<1>23. ASSUME NEW p \in Requests, VerifyRuntime(p) PROVE OverlapInv'
    BY <1>23 DEF VerifyRuntime
<1>24. ASSUME NEW p \in Requests, NEW o \in Orders, StartStorefront(p, o) PROVE
    OverlapInv'
    BY <1>24 DEF StartStorefront, KeyIsFree, Affordable, Resumable
<1>25. ASSUME NEW p \in Requests, NEW o \in Orders, StartBilling(p, o) PROVE
    OverlapInv'
    BY <1>25 DEF StartBilling, KeyIsFree, Affordable, Resumable
<1>26. ASSUME NEW p \in Requests, NEW o \in Orders, StartTestCard(p, o) PROVE
    OverlapInv'
    BY <1>26 DEF StartTestCard, KeyIsFree, Affordable, Resumable
<1>27. ASSUME NEW p \in Requests, NEW o \in Orders, StartResume(p, o) PROVE
    OverlapInv'
    BY <1>27 DEF StartResume, KeyIsFree, Affordable, Resumable
<1>28. ASSUME NEW p \in Requests, NEW o \in Orders, ClaimRetry(p, o) PROVE
    OverlapInv'
    BY <1>28 DEF ClaimRetry, KeyIsFree, Affordable, Resumable
<1>29. ASSUME NEW o \in Orders, PayPendingOrder(o) \/ CancelUnpaid(o) \/
    VoidDueInvoice(o) PROVE OverlapInv'
    BY <1>29 DEF PayPendingOrder, CancelUnpaid, VoidDueInvoice, Affordable
<1>30. ASSUME NEW S \in SUBSET Orders, ExpirePending(S) \/ ReconcileStale(S) \/
    ReconcileCancel(S) PROVE OverlapInv'
    BY <1>30 DEF ExpirePending, ReconcileStale, ReconcileCancel, StaleProvisioning,
        Abandoned, Working
<1>31. ASSUME NEW s \in Servers, LateCreate(s) \/ ContainerStops(s) PROVE
    OverlapInv'
    BY <1>31 DEF LateCreate, ContainerStops
<1>32. ASSUME NEW c \in 0..MaxCredits, SetCredits(c) PROVE OverlapInv'
    BY <1>32 DEF SetCredits
<1>33. ASSUME ReconcileActivate \/ PanelRestart PROVE OverlapInv'
    BY <1>33 DEF ReconcileActivate, PanelRestart
<1> QED
    BY <1>1, <1>2, <1>3, <1>4, <1>5, <1>6, <1>7, <1>8, <1>9, <1>10, <1>11, <1>12,
        <1>13, <1>14, <1>15, <1>16, <1>17, <1>18, <1>19, <1>20, <1>21, <1>22, <1>23,
        <1>24, <1>25, <1>26, <1>27, <1>28, <1>29, <1>30, <1>31, <1>32, <1>33 DEF
        Next, Arrive, Advance, Provision, Desk

(* A reservation needs an unlinked order; what a kept row lost its link to      *)
(* stays linked.                                                               *)
LEMMA KeptInvStep ==
    ASSUME IInv, IInv', RetryInv, CheckoutInv, OwnerInv, OwnerInv', OverlapInv,
        KeptInv, [Next]_vars
    PROVE  KeptInv'
<1> USE NoneAssumption
<1> USE DEF KeptInv, Kept, Displaced, Holder, OwnerInv, IInv, PayerInv, TypeOK,
    RequestInv, LockInv, LinkInv, Guarded, WithServer, money, orderRow, serverRow,
    node, request, At, Goto, GotoWith, Begin, Return
<1>1. CASE UNCHANGED vars
    BY <1>1 DEF vars
<1>2. ASSUME NEW p \in Requests, InsertPendingOrder(p) PROVE KeptInv'
    BY <1>2 DEF InsertPendingOrder, KeyIsFree
<1>3. ASSUME NEW p \in Requests, TakeWalletPayment(p) PROVE KeptInv'
    BY <1>3 DEF TakeWalletPayment, KeyIsFree, Affordable
<1>4. ASSUME NEW p \in Requests, TakeCardPayment(p) PROVE KeptInv'
    BY <1>4 DEF TakeCardPayment, KeyIsFree
<1>5. ASSUME NEW p \in Requests, TryLock(p) PROVE KeptInv'
    BY <1>5 DEF TryLock, LockIsFree
<1>6. ASSUME NEW p \in Requests, RecheckResume(p) PROVE KeptInv'
    BY <1>6 DEF RecheckResume, Resumable
<1>7. ASSUME NEW p \in Requests, MarkProvisioning(p) PROVE KeptInv'
    BY <1>7 DEF MarkProvisioning
<1>8. ASSUME NEW p \in Requests, FindReservation(p) PROVE KeptInv'
    BY <1>8 DEF FindReservation, IsDeleted
<1>9. ASSUME NEW p \in Requests, UnlinkDeleted(p) PROVE KeptInv'
    <2>1. cur[p] \in Orders /\ srv[p] \in Servers /\ server[srv[p]] = "deleted"
          /\ kind[p] # "retry"
        BY <1>9 DEF UnlinkDeleted, RetryInv
    <2>2. ASSUME NEW s \in Servers, Kept(s), link[payer[s]] = s PROVE link'[payer[s]] = s
        BY <1>9, <2>1, <2>2 DEF UnlinkDeleted
    <2>3. ASSUME NEW o \in Orders, Displaced(o) PROVE Displaced(o)'
        <3>1. link'[o] = link[o]
            BY <1>9, <2>1, <2>3 DEF UnlinkDeleted
        <3> QED
            BY <1>9, <2>1, <2>3, <3>1 DEF UnlinkDeleted
    <2>4. \A s \in Servers : Kept(s)' = Kept(s) /\ payer'[s] = payer[s]
        BY <1>9 DEF UnlinkDeleted
    <2>5. \A s \in Servers : Kept(s) => payer[s] \in Orders
        OBVIOUS
    <2>6. ASSUME NEW s \in Servers, NEW o \in Orders, Kept(s), payer[s] = o
          PROVE  link'[o] = s \/ Displaced(o)'
        <3>1. CASE link[o] = s
            BY <2>2, <2>6, <3>1
        <3>2. CASE Displaced(o)
            BY <2>3, <3>2
        <3> QED
            BY <2>6, <3>1, <3>2 DEF KeptInv
    <2>7. ASSUME NEW s \in Servers, Kept(s)'
          PROVE  (link[payer[s]] = s \/ Displaced(payer[s]))'
        <3>1. PICK o \in Orders : payer[s] = o /\ payer'[s] = o /\ Kept(s)
            BY <2>4, <2>5, <2>7
        <3>2. link'[o] = s \/ Displaced(o)'
            BY <2>6, <3>1
        <3> QED
            BY <3>1, <3>2
    <2> QED
        BY <2>4, <2>7 DEF KeptInv
<1>10. ASSUME NEW p \in Requests, MarkServerRunning(p) PROVE KeptInv'
    BY <1>10 DEF MarkServerRunning
<1>11. ASSUME NEW p \in Requests, RetireServer(p) PROVE KeptInv'
    <2>1. cur[p] \in Orders /\ srv[p] \in Servers /\ payer[srv[p]] = cur[p]
        BY <1>11 DEF RetireServer
    <2>2. \A s \in Servers : (Kept(s)' => Kept(s)) /\ payer'[s] = payer[s]
        BY <1>11, <2>1 DEF RetireServer
    <2>3. ASSUME NEW o \in Orders, Displaced(o) PROVE Displaced(o)'
        <3>1. CASE link[o] # srv[p]
            BY <1>11, <2>1, <2>3, <3>1 DEF RetireServer
        <3>2. CASE link[o] = srv[p]
            <4>1. cur[p] = o /\ kind[p] \notin {"retry", "resume"}
                BY <1>11, <2>1, <2>3, <3>2 DEF RetireServer
            <4>2. ASSUME NEW x \in Requests, x # p, Holder(x, o)
                  PROVE  pc[x] \notin Guarded /\ (kind[x] # "resume" => pc[x] # "lock")
                BY <1>11, <2>1, <4>1, <4>2 DEF RetireServer, CheckoutInv
            <4> QED
                BY <1>11, <2>1, <2>3, <3>2, <4>1, <4>2 DEF RetireServer
        <3> QED
            BY <3>1, <3>2
    <2>4. link' = link
        BY <1>11 DEF RetireServer
    <2>5. \A s \in Servers : Kept(s) => payer[s] \in Orders
        OBVIOUS
    <2>6. ASSUME NEW s \in Servers, NEW o \in Orders, Kept(s), payer[s] = o
          PROVE  link'[o] = s \/ Displaced(o)'
        <3>1. CASE link[o] = s
            BY <2>2, <2>4, <2>6, <3>1
        <3>2. CASE Displaced(o)
            BY <2>3, <3>2
        <3> QED
            BY <2>6, <3>1, <3>2 DEF KeptInv
    <2>7. ASSUME NEW s \in Servers, Kept(s)'
          PROVE  (link[payer[s]] = s \/ Displaced(payer[s]))'
        <3>1. PICK o \in Orders : payer[s] = o /\ payer'[s] = o /\ Kept(s)
            BY <2>2, <2>5, <2>7
        <3>2. link'[o] = s \/ Displaced(o)'
            BY <2>6, <3>1
        <3> QED
            BY <3>1, <3>2
    <2> QED
        BY <2>2, <2>7 DEF KeptInv
<1>12. ASSUME NEW p \in Requests, QuarantineServer(p) PROVE KeptInv'
    BY <1>12 DEF QuarantineServer
<1>13. ASSUME NEW p \in Requests, ActivateOrder(p) PROVE KeptInv'
    <2>1. cur[p] \in Orders /\ srv[p] \in Servers /\ payer[srv[p]] = cur[p]
        BY <1>13 DEF ActivateOrder
    <2>2. \A s \in Servers : Kept(s)' = Kept(s) /\ payer'[s] = payer[s]
        BY <1>13 DEF ActivateOrder
    <2>3. CASE kind[p] # "retry" /\ ~FailureReasonNullable
        BY <1>13, <2>3 DEF ActivateOrder
    <2>4. CASE kind[p] = "retry" \/ FailureReasonNullable
        <3>1. /\ status' = [status EXCEPT ![cur[p]] = "ACTIVE"]
              /\ link' = [link EXCEPT ![cur[p]] = srv[p]]
              /\ Return(p)
              /\ server' = server
            BY <1>13, <2>4 DEF ActivateOrder
        <3>2. ASSUME NEW o \in Orders, o # cur[p], Displaced(o)
              PROVE  link'[o] = link[o] /\ Displaced(o)'
            <4>1. link'[o] = link[o] /\ status'[o] = status[o]
                BY <2>1, <3>1, <3>2
            <4>2. ASSUME NEW x \in Requests, Holder(x, o)'
                  PROVE  Holder(x, o) /\ pc'[x] = pc[x] /\ kind'[x] = kind[x] /\ srv'[x] = srv[x]
                BY <2>1, <3>1, <3>2, <4>2
            <4> QED
                BY <3>1, <3>2, <4>1, <4>2
        <3>3. ASSUME NEW s \in Servers, Kept(s), NEW o \in Orders, payer[s] = o, o = cur[p]
              PROVE  Displaced(o)'
            <4>1. server[srv[p]] # "deleted" /\ pc[p] = "activate"
                BY <1>13 DEF ActivateOrder
            <4>2. status'[o] = "ACTIVE" /\ link'[o] = srv[p] /\ srv[p] # None
                BY <2>1, <3>1, <3>3
            <4>3. ASSUME NEW x \in Requests, Holder(x, o)'
                  PROVE  x # p /\ Holder(x, o) /\ pc'[x] = pc[x] /\ kind'[x] = kind[x]
                         /\ srv'[x] = srv[x]
                BY <2>1, <3>1, <3>3, <4>3
            <4>4. CASE kind[p] # "retry"
                <5>1. ASSUME NEW x \in Requests, x # p, Holder(x, o)
                      PROVE  pc[x] \notin Guarded
                    BY <2>1, <3>3, <4>1, <4>4, <5>1
                <5> QED
                    BY <3>1, <4>1, <4>2, <4>3, <5>1
            <4>5. CASE kind[p] = "retry"
                <5>1. link[o] # None
                    BY <3>3 DEF KeptInv
                <5>2. ASSUME NEW x \in Requests, x # p, Holder(x, o)
                      PROVE  /\ pc[x] \in WithServer \cup {"unlink"} => srv[x] # srv[p]
                             /\ kind[x] = "resume" => pc[x] \notin {"mark", "find"}
                    BY <2>1, <3>3, <4>1, <4>5, <5>1, <5>2 DEF Has, OverlapInv, Retrying
                <5> QED
                    BY <3>1, <4>1, <4>2, <4>3, <5>2
            <4> QED
                BY <4>4, <4>5
        <3>4. \A s \in Servers : Kept(s) => payer[s] \in Orders
            OBVIOUS
        <3>5. ASSUME NEW s \in Servers, NEW o \in Orders, Kept(s), payer[s] = o
              PROVE  link'[o] = s \/ Displaced(o)'
            <4>1. CASE o = cur[p]
                BY <3>3, <3>5, <4>1
            <4>2. CASE o # cur[p] /\ link[o] = s
                BY <2>1, <3>1, <4>2
            <4>3. CASE o # cur[p] /\ Displaced(o)
                BY <3>2, <4>3
            <4> QED
                BY <3>5, <4>1, <4>2, <4>3 DEF KeptInv
        <3>6. ASSUME NEW s \in Servers, Kept(s)'
              PROVE  (link[payer[s]] = s \/ Displaced(payer[s]))'
            <4>1. PICK o \in Orders : payer[s] = o /\ payer'[s] = o /\ Kept(s)
                BY <2>2, <3>4, <3>6
            <4>2. link'[o] = s \/ Displaced(o)'
                BY <3>5, <4>1
            <4> QED
                BY <4>1, <4>2
        <3> QED
            BY <2>2, <3>6 DEF KeptInv
    <2> QED
        BY <2>3, <2>4
<1>14. ASSUME NEW p \in Requests, RefundFailedOrder(p) PROVE KeptInv'
    BY <1>14 DEF RefundFailedOrder
<1>15. ASSUME NEW p \in Requests, FailRetry(p) PROVE KeptInv'
    BY <1>15 DEF FailRetry
<1>16. ASSUME NEW p \in Requests, RefusePayment(p) PROVE KeptInv'
    BY <1>16 DEF RefusePayment
<1>17. ASSUME NEW p \in Requests, StartContainer(p) PROVE KeptInv'
    BY <1>17 DEF StartContainer
<1>18. ASSUME NEW p \in Requests, NEW s \in Servers, ReserveServer(p, s) PROVE
    KeptInv'
    BY <1>18 DEF ReserveServer
<1>19. ASSUME NEW p \in Requests, InsertDueInvoice(p) \/ VerifyRuntime(p) PROVE
    KeptInv'
    BY <1>19 DEF InsertDueInvoice, VerifyRuntime
<1>20. ASSUME NEW p \in Requests, ReserveFails(p) \/ CleanupContainer(p) PROVE
    KeptInv'
    BY <1>20 DEF ReserveFails, CleanupContainer
<1>21. ASSUME NEW p \in Requests, InspectRuntime(p) \/ KeepFinalOrder(p) PROVE
    KeptInv'
    BY <1>21 DEF InspectRuntime, KeepFinalOrder
<1>22. ASSUME NEW p \in Requests, CreateContainer(p) PROVE KeptInv'
    BY <1>22 DEF CreateContainer
<1>23. ASSUME NEW p \in Requests, NEW o \in Orders, StartStorefront(p, o) PROVE
    KeptInv'
    BY <1>23 DEF StartStorefront, KeyIsFree, Affordable, Resumable
<1>24. ASSUME NEW p \in Requests, NEW o \in Orders, StartBilling(p, o) PROVE
    KeptInv'
    BY <1>24 DEF StartBilling, KeyIsFree, Affordable, Resumable
<1>25. ASSUME NEW p \in Requests, NEW o \in Orders, StartTestCard(p, o) PROVE
    KeptInv'
    BY <1>25 DEF StartTestCard, KeyIsFree, Affordable, Resumable
<1>26. ASSUME NEW p \in Requests, NEW o \in Orders, StartResume(p, o) PROVE KeptInv'
    BY <1>26 DEF StartResume, KeyIsFree, Affordable, Resumable
<1>27. ASSUME NEW p \in Requests, NEW o \in Orders, ClaimRetry(p, o) PROVE KeptInv'
    BY <1>27 DEF ClaimRetry, KeyIsFree, Affordable, Resumable
<1>28. ASSUME NEW o \in Orders, PayPendingOrder(o) \/ CancelUnpaid(o) \/
    VoidDueInvoice(o) PROVE KeptInv'
    BY <1>28 DEF PayPendingOrder, CancelUnpaid, VoidDueInvoice, Affordable
<1>29. ASSUME NEW S \in SUBSET Orders, ExpirePending(S) \/ ReconcileStale(S) \/
    ReconcileCancel(S) PROVE KeptInv'
    BY <1>29 DEF ExpirePending, ReconcileStale, ReconcileCancel, StaleProvisioning,
        Abandoned, Working
<1>30. ASSUME NEW s \in Servers, LateCreate(s) \/ ContainerStops(s) PROVE KeptInv'
    BY <1>30 DEF LateCreate, ContainerStops
<1>31. ASSUME NEW c \in 0..MaxCredits, SetCredits(c) PROVE KeptInv'
    BY <1>31 DEF SetCredits
<1>32. ASSUME ReconcileActivate \/ PanelRestart PROVE KeptInv'
    BY <1>32 DEF ReconcileActivate, PanelRestart
<1> QED
    BY <1>1, <1>2, <1>3, <1>4, <1>5, <1>6, <1>7, <1>8, <1>9, <1>10, <1>11, <1>12,
        <1>13, <1>14, <1>15, <1>16, <1>17, <1>18, <1>19, <1>20, <1>21, <1>22, <1>23,
        <1>24, <1>25, <1>26, <1>27, <1>28, <1>29, <1>30, <1>31, <1>32 DEF Next,
        Arrive, Advance, Provision, Desk

-----------------------------------------------------------------------------
(* Resuming never reserves a second server while the first reservation of the  *)
(* order lives, however checkouts, resumes, retries, crashes and sweeps         *)
(* interleave.                                                                 *)
THEOREM OneReservation == Spec => []OneReservationPerOrder
<1> DEFINE SInv == RetryInv /\ CheckoutInv /\ OwnerInv /\ OverlapInv /\ KeptInv
<1>1. Init => SInv
    BY NoneAssumption DEF Init, RetryInv, CheckoutInv, OwnerInv, OverlapInv, KeptInv,
       Kept, Retrying, Guarded, WithServer
<1>2. IInv /\ IInv' /\ SInv /\ [Next]_vars => SInv'
    BY RetryInvStep, CheckoutInvStep, OwnerInvStep, OverlapInvStep, KeptInvStep
<1>3. SInv => OneReservationPerOrder
    BY DEF KeptInv, Kept, Live, OneReservationPerOrder
<1> HIDE DEF SInv
<1> QED
    BY Invariance, <1>1, <1>2, <1>3, PTL DEF Spec
=============================================================================
