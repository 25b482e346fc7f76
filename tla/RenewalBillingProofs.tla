------------------------- MODULE RenewalBillingProofs -------------------------
(***************************************************************************)
(* Proofs about RenewalBilling, for any number of servers, workers, staff  *)
(* and periods.  The count of charges is what makes the types and the      *)
(* ledger hold: a worker charges only for a server that is due under the   *)
(* row lock, and a due server has one charge less than ended periods.      *)
(***************************************************************************)
EXTENDS RenewalBilling, TLAPS

IInv ==
    /\ TypeOK
    /\ OneChargePerPeriod
    /\ OneOpenInvoice
    /\ credits <= MaxCredits

\* A due server has periods left to be charged for, a renewed one has none.
LEMMA Arrears ==
    ASSUME IInv, NEW s \in Servers
    PROVE  /\ due[s] => paid[s] + 1 = periods[s] /\ paid[s] + 1 \in 1..MaxPeriods
           /\ ~due[s] => paid[s] = periods[s]
           /\ open[s] = 1 => due[s]
           /\ open[s] \in {0, 1} /\ paid[s] \in Nat /\ periods[s] \in 0..MaxPeriods
  BY BoundAssumption DEF IInv, TypeOK, OneChargePerPeriod, OneOpenInvoice

LEMMA Initially == Init => IInv
  <1> SUFFICES ASSUME Init PROVE IInv
    OBVIOUS
  <1>1. PICK first \in Servers : first = CHOOSE s \in Servers : TRUE
    BY ServersAssumption
  <1>2. TypeOK
    <2>1. desk = [a \in Staff |-> [wish |-> "none", server |-> first]]
      BY <1>1 DEF Init
    <2>2. desk \in [Staff -> [wish : {"none", "suspend", "unsuspend"}, server : Servers]]
      BY <2>1
    <2>3. open \in [Servers -> 0..1] /\ paid \in [Servers -> 0..MaxPeriods]
          /\ periods \in [Servers -> 0..MaxPeriods] /\ credits \in Nat
      BY BoundAssumption DEF Init
    <2> QED
      BY <2>2, <2>3 DEF Init, TypeOK
  <1>3. OneChargePerPeriod /\ OneOpenInvoice /\ credits <= MaxCredits
    BY BoundAssumption DEF Init, OneChargePerPeriod, OneOpenInvoice
  <1> QED
    BY <1>2, <1>3 DEF IInv

\* Steps that move no money and end no period.
LEMMA QuietStep ==
    ASSUME IInv, TypeOK', UNCHANGED <<money, due, periods>>
    PROVE  IInv'
  BY DEF IInv, money, OneChargePerPeriod, OneOpenInvoice

LEMMA RenewStep ==
    ASSUME IInv, NEW w \in Workers, Renew(w)
    PROVE  IInv'
  <1> DEFINE s == target[w]
  <1>1. s \in Servers /\ due[s]
    BY DEF IInv, TypeOK, Renew
  <1>2. paid[s] + 1 = periods[s] /\ paid[s] + 1 \in 0..MaxPeriods
    BY <1>1, Arrears, BoundAssumption
  <1>3. credits' \in Nat /\ credits' <= MaxCredits
    BY PriceAssumption, BoundAssumption DEF IInv, TypeOK, Renew
  <1>4. TypeOK'
    <2>1. paid' \in [Servers -> 0..MaxPeriods] /\ open' \in [Servers -> 0..1]
      BY <1>1, <1>2 DEF IInv, TypeOK, Renew
    <2>2. due' \in [Servers -> BOOLEAN] /\ suspended' \in [Servers -> BOOLEAN]
      BY <1>1 DEF IInv, TypeOK, Renew
    <2>3. pc' \in [Workers -> {"idle", "charge", "start", "stop", "started", "stopped"}]
      BY DEF IInv, TypeOK, Renew, Proceed, calendar
    <2> QED
      BY <1>3, <2>1, <2>2, <2>3 DEF IInv, TypeOK, Renew, Proceed, calendar
  <1>5. ASSUME NEW x \in Servers
        PROVE  /\ paid'[x] + (IF due'[x] THEN 1 ELSE 0) = periods'[x]
               /\ open'[x] <= 1 /\ (open'[x] = 1 => due'[x])
    <2>1. CASE x = s
      BY <1>1, <1>2, <2>1 DEF IInv, TypeOK, Renew, calendar
    <2>2. CASE x # s
      BY <2>2, Arrears DEF IInv, TypeOK, Renew, calendar, OneChargePerPeriod, OneOpenInvoice
    <2> QED
      BY <2>1, <2>2
  <1> QED
    BY <1>3, <1>4, <1>5 DEF IInv, OneChargePerPeriod, OneOpenInvoice

LEMMA SuspendStep ==
    ASSUME IInv, NEW w \in Workers, Suspend(w)
    PROVE  IInv'
  <1>1. target[w] \in Servers /\ due[target[w]]
    BY DEF IInv, TypeOK, Suspend
  <1>2. TypeOK'
    <2>1. open' \in [Servers -> 0..1] /\ suspended' \in [Servers -> BOOLEAN]
      BY <1>1 DEF IInv, TypeOK, Suspend
    <2>2. pc' \in [Workers -> {"idle", "charge", "start", "stop", "started", "stopped"}]
      BY DEF IInv, TypeOK, Suspend, Proceed, calendar
    <2> QED
      BY <2>1, <2>2 DEF IInv, TypeOK, Suspend, Proceed, calendar
  <1>3. OneOpenInvoice'
    BY <1>1, Arrears DEF IInv, TypeOK, Suspend, OneOpenInvoice
  <1>4. OneChargePerPeriod' /\ credits' <= MaxCredits
    BY DEF IInv, Suspend, calendar, OneChargePerPeriod
  <1> QED
    BY <1>2, <1>3, <1>4 DEF IInv

LEMMA PeriodEndsStep ==
    ASSUME IInv, NEW s \in Servers, PeriodEnds(s)
    PROVE  IInv'
  <1>1. paid[s] = periods[s] /\ ~due[s] /\ periods[s] + 1 \in 0..MaxPeriods
    BY Arrears, BoundAssumption DEF PeriodEnds
  <1>2. TypeOK'
    <2>1. due' \in [Servers -> BOOLEAN] /\ periods' \in [Servers -> 0..MaxPeriods]
      BY <1>1 DEF IInv, TypeOK, PeriodEnds
    <2> QED
      BY <2>1 DEF IInv, TypeOK, PeriodEnds, money, work
  <1>3. ASSUME NEW x \in Servers
        PROVE  /\ paid'[x] + (IF due'[x] THEN 1 ELSE 0) = periods'[x]
               /\ open'[x] <= 1 /\ (open'[x] = 1 => due'[x])
    <2>1. CASE x = s
      BY <1>1, <2>1, Arrears DEF IInv, TypeOK, PeriodEnds, money
    <2>2. CASE x # s
      BY <2>2, Arrears DEF IInv, TypeOK, PeriodEnds, money, OneChargePerPeriod, OneOpenInvoice
    <2> QED
      BY <2>1, <2>2
  <1> QED
    BY <1>2, <1>3 DEF IInv, PeriodEnds, money, OneChargePerPeriod, OneOpenInvoice

LEMMA WorkerTypes ==
    ASSUME IInv, NEW w \in Workers,
           \/ AlreadyRenewed(w) \/ Runtime(w) \/ WorkerDies(w)
           \/ \E s \in Servers : PickDue(w, s)
    PROVE  TypeOK' /\ UNCHANGED <<money, due, periods>>
  <1> USE DEF IInv, TypeOK, money, service, calendar, work, Proceed
  <1>1. ASSUME AlreadyRenewed(w) PROVE TypeOK' /\ UNCHANGED <<money, due, periods>>
    BY <1>1 DEF AlreadyRenewed
  <1>2. ASSUME CallNode(w) PROVE TypeOK' /\ UNCHANGED <<money, due, periods>>
    <2>1. container' \in [Servers -> BOOLEAN]
      BY <1>2 DEF CallNode
    <2>2. pc' \in [Workers -> {"idle", "charge", "start", "stop", "started", "stopped"}]
      BY <1>2 DEF CallNode
    <2> QED
      BY <1>2, <2>1, <2>2 DEF CallNode
  <1>3. ASSUME NodeRefuses(w) PROVE TypeOK' /\ UNCHANGED <<money, due, periods>>
    <2>1. status' \in [Servers -> {"running", "offline", "error"}]
      BY <1>3 DEF NodeRefuses
    <2> QED
      BY <1>3, <2>1 DEF NodeRefuses
  <1>4. ASSUME NoteRuntime(w) PROVE TypeOK' /\ UNCHANGED <<money, due, periods>>
    <2>1. status' \in [Servers -> {"running", "offline", "error"}]
      BY <1>4 DEF NoteRuntime
    <2> QED
      BY <1>4, <2>1 DEF NoteRuntime
  <1>5. ASSUME WorkerDies(w) PROVE TypeOK' /\ UNCHANGED <<money, due, periods>>
    BY <1>5 DEF WorkerDies
  <1>6. ASSUME NEW s \in Servers, PickDue(w, s)
        PROVE  TypeOK' /\ UNCHANGED <<money, due, periods>>
    BY <1>6 DEF PickDue
  <1> QED
    BY <1>1, <1>2, <1>3, <1>4, <1>5, <1>6 DEF Runtime

LEMMA OtherTypes ==
    ASSUME IInv,
           \/ \E s \in Servers : SeenHealthy(s) \/ MakeRoom(s)
           \/ \E a \in Staff : KeepLifecycle(a) \/ \E s \in Servers : AskLifecycle(a, s)
    PROVE  TypeOK' /\ UNCHANGED <<money, due, periods>>
  <1> USE DEF IInv, TypeOK, money, service, calendar, work
  <1>1. ASSUME NEW s \in Servers, SeenHealthy(s)
        PROVE  TypeOK' /\ UNCHANGED <<money, due, periods>>
    BY <1>1 DEF SeenHealthy
  <1>4. ASSUME NEW s \in Servers, MakeRoom(s)
        PROVE  TypeOK' /\ UNCHANGED <<money, due, periods>>
    BY <1>4 DEF MakeRoom
  <1>2. ASSUME NEW a \in Staff, KeepLifecycle(a)
        PROVE  TypeOK' /\ UNCHANGED <<money, due, periods>>
    <2>1. desk[a] \in [wish : {"none", "suspend", "unsuspend"}, server : Servers]
      OBVIOUS
    <2>2. desk' \in [Staff -> [wish : {"none", "suspend", "unsuspend"}, server : Servers]]
      BY <1>2, <2>1 DEF KeepLifecycle
    <2>3. suspended' \in [Servers -> BOOLEAN] /\ status' \in [Servers -> {"running", "offline", "error"}]
      BY <1>2, <2>1 DEF KeepLifecycle
    <2> QED
      BY <1>2, <2>2, <2>3 DEF KeepLifecycle
  <1>3. ASSUME NEW a \in Staff, NEW s \in Servers, AskLifecycle(a, s)
        PROVE  TypeOK' /\ UNCHANGED <<money, due, periods>>
    <2>1. suspended[s] \in BOOLEAN
      OBVIOUS
    <2>2. container' \in [Servers -> BOOLEAN]
      BY <1>3, <2>1 DEF AskLifecycle
    <2>3. desk' \in [Staff -> [wish : {"none", "suspend", "unsuspend"}, server : Servers]]
      BY <1>3, <2>1 DEF AskLifecycle
    <2> QED
      BY <1>3, <2>2, <2>3 DEF AskLifecycle
  <1> QED
    BY <1>1, <1>2, <1>3, <1>4

LEMMA Inductive == IInv /\ [Next]_vars => IInv'
  <1> SUFFICES ASSUME IInv, [Next]_vars PROVE IInv'
    OBVIOUS
  <1>1. CASE UNCHANGED vars
    <2>1. TypeOK'
      BY <1>1 DEF IInv, TypeOK, vars, money, service, calendar, work
    <2> QED
      BY <1>1, <2>1, QuietStep DEF vars, service, calendar
  <1>2. ASSUME NEW w \in Workers, Renew(w) PROVE IInv'
    BY <1>2, RenewStep
  <1>3. ASSUME NEW w \in Workers, Suspend(w) PROVE IInv'
    BY <1>3, SuspendStep
  <1>4. ASSUME NEW w \in Workers,
               \/ AlreadyRenewed(w) \/ Runtime(w) \/ WorkerDies(w)
               \/ \E s \in Servers : PickDue(w, s)
        PROVE  IInv'
    BY <1>4, WorkerTypes, QuietStep
  <1>5. ASSUME NEW s \in Servers, PeriodEnds(s) PROVE IInv'
    BY <1>5, PeriodEndsStep
  <1>6. ASSUME \/ \E s \in Servers : SeenHealthy(s) \/ MakeRoom(s)
               \/ \E a \in Staff : KeepLifecycle(a) \/ \E s \in Servers : AskLifecycle(a, s)
        PROVE  IInv'
    BY <1>6, OtherTypes, QuietStep
  <1>7. CASE TopUp
    <2>1. TypeOK' /\ credits' <= MaxCredits
      BY <1>7, BoundAssumption DEF IInv, TypeOK, TopUp, service, calendar, work
    <2> QED
      BY <1>7, <2>1 DEF IInv, TopUp, service, calendar, OneChargePerPeriod, OneOpenInvoice
  <1> QED
    BY <1>1, <1>2, <1>3, <1>4, <1>5, <1>6, <1>7 DEF Next, Bill

\* The invariant, for every behaviour of the workers, staff and time.
THEOREM Invariance == Spec => []IInv
  <1> HIDE DEF IInv
  <1> QED
    BY Initially, Inductive, PTL DEF Spec

\* Every variable keeps to its type: in particular the wallet is never negative
\* and no server is charged more often than its periods ended.
THEOREM TypeCorrect == Spec => []TypeOK
  <1>1. IInv => TypeOK
    BY DEF IInv
  <1> HIDE DEF IInv, TypeOK
  <1> QED
    BY <1>1, Invariance, PTL

\* Each period that ended is charged once, whatever workers overlap or die.
THEOREM ChargedOnce == Spec => []OneChargePerPeriod
  <1>1. IInv => OneChargePerPeriod
    BY DEF IInv
  <1> HIDE DEF IInv, OneChargePerPeriod
  <1> QED
    BY <1>1, Invariance, PTL

\* There is at most one open renewal invoice of a server, and only while it is due.
THEOREM OpenOnce == Spec => []OneOpenInvoice
  <1>1. IInv => OneOpenInvoice
    BY DEF IInv
  <1> HIDE DEF IInv, OneOpenInvoice
  <1> QED
    BY <1>1, Invariance, PTL

-----------------------------------------------------------------------------
(* The refinement of PaymentLedger *)

Bill0 == [b \in Servers \X (1..MaxPeriods) |-> BillOf(b[1], b[2])]

\* One bill changes, and only that of the period that is due.
LEMMA OneBillMoves ==
    ASSUME IInv, NEW s \in Servers, due[s], NEW to,
           \A b \in Servers \X (1..MaxPeriods) :
              Bill0'[b] = IF b = <<s, paid[s] + 1>> THEN to ELSE Bill0[b]
    PROVE  Bill0' = [Bill0 EXCEPT ![<<s, paid[s] + 1>>] = to]
  BY Arrears DEF Bill0

LEMMA RenewSettles ==
    ASSUME IInv, NEW w \in Workers, Renew(w)
    PROVE  Ledger!SettleFromWallet(<<target[w], paid[target[w]] + 1>>)
  <1> DEFINE s == target[w]
             o == <<s, paid[s] + 1>>
  <1>1. s \in Servers /\ due[s] /\ o \in Servers \X (1..MaxPeriods)
    BY Arrears DEF IInv, TypeOK, Renew
  <1>2. Bill0[o] \in {"none", "open"}
    BY <1>1, Arrears DEF Bill0, BillOf
  <1>3. ASSUME NEW b \in Servers \X (1..MaxPeriods)
        PROVE  Bill0'[b] = IF b = o THEN "paid" ELSE Bill0[b]
    <2>1. PICK x \in Servers, k \in 1..MaxPeriods : b = <<x, k>>
      OBVIOUS
    <2>2. Bill0'[b] = BillOf(x, k)' /\ Bill0[b] = BillOf(x, k)
      BY <2>1 DEF Bill0
    <2>3. CASE x # s
      BY <1>1, <2>1, <2>2, <2>3 DEF BillOf, Renew, IInv, TypeOK
    <2>4. CASE x = s
      <3>1. paid'[s] = paid[s] + 1 /\ open'[s] = 0 /\ paid[s] \in Nat
        BY <1>1, Arrears DEF Renew, IInv, TypeOK
      <3> QED
        BY <2>1, <2>2, <2>4, <3>1 DEF BillOf
    <2> QED
      BY <2>3, <2>4
  <1>4. Bill0' = [Bill0 EXCEPT ![o] = "paid"]
    BY <1>1, <1>3, OneBillMoves
  <1> QED
    BY <1>2, <1>4 DEF Ledger!SettleFromWallet, Ledger!Moves, Bill0, Renew

LEMMA SuspendOpens ==
    ASSUME IInv, NEW w \in Workers, Suspend(w), open[target[w]] = 0
    PROVE  Ledger!OpenBill(<<target[w], paid[target[w]] + 1>>)
  <1> DEFINE s == target[w]
             o == <<s, paid[s] + 1>>
  <1>1. s \in Servers /\ due[s] /\ o \in Servers \X (1..MaxPeriods)
    BY Arrears DEF IInv, TypeOK, Suspend
  <1>2. Bill0[o] = "none"
    BY <1>1, Arrears DEF Bill0, BillOf
  <1>3. ASSUME NEW b \in Servers \X (1..MaxPeriods)
        PROVE  Bill0'[b] = IF b = o THEN "open" ELSE Bill0[b]
    <2>1. PICK x \in Servers, k \in 1..MaxPeriods : b = <<x, k>>
      OBVIOUS
    <2>2. Bill0'[b] = BillOf(x, k)' /\ Bill0[b] = BillOf(x, k)
      BY <2>1 DEF Bill0
    <2>3. CASE x # s
      BY <1>1, <2>1, <2>2, <2>3 DEF BillOf, Suspend, IInv, TypeOK
    <2>4. CASE x = s
      <3>1. paid'[s] = paid[s] /\ open'[s] = 1 /\ paid[s] \in Nat
        BY <1>1, Arrears DEF Suspend, IInv, TypeOK
      <3> QED
        BY <2>1, <2>2, <2>4, <3>1 DEF BillOf
    <2> QED
      BY <2>3, <2>4
  <1>4. Bill0' = [Bill0 EXCEPT ![o] = "open"]
    BY <1>1, <1>3, OneBillMoves
  <1> QED
    BY <1>2, <1>4 DEF Ledger!OpenBill, Ledger!Moves, Bill0, Suspend

LEMMA Stutters ==
    ASSUME UNCHANGED money
    PROVE  UNCHANGED Ledger!ledgerVars
  BY DEF money, Ledger!ledgerVars, BillOf

LEMMA LedgerStep == IInv /\ [Next]_vars => [Ledger!LedgerNext]_(Ledger!ledgerVars)
  <1> SUFFICES ASSUME IInv, [Next]_vars PROVE [Ledger!LedgerNext]_(Ledger!ledgerVars)
    OBVIOUS
  <1>1. ASSUME NEW w \in Workers, Renew(w) PROVE Ledger!LedgerNext
    <2>1. <<target[w], paid[target[w]] + 1>> \in Servers \X (1..MaxPeriods)
      BY <1>1, Arrears DEF IInv, TypeOK, Renew
    <2> QED
      BY <1>1, <2>1, RenewSettles DEF Ledger!LedgerNext
  <1>2. ASSUME NEW w \in Workers, Suspend(w) PROVE [Ledger!LedgerNext]_(Ledger!ledgerVars)
    <2>1. target[w] \in Servers /\ due[target[w]]
      BY <1>2 DEF IInv, TypeOK, Suspend
    <2>2. CASE open[target[w]] = 1
      <3>1. open' = open
        BY <1>2, <2>1, <2>2 DEF IInv, TypeOK, Suspend
      <3> QED
        BY <1>2, <3>1, Stutters DEF Suspend, money
    <2>3. CASE open[target[w]] = 0
      <3>1. <<target[w], paid[target[w]] + 1>> \in Servers \X (1..MaxPeriods)
        BY <2>1, Arrears
      <3> QED
        BY <1>2, <2>3, <3>1, SuspendOpens DEF Ledger!LedgerNext
    <2> QED
      BY <2>1, <2>2, <2>3, Arrears
  <1>3. CASE TopUp
    <2>1. credits' \in 0..MaxCredits
      BY <1>3, BoundAssumption DEF IInv, TypeOK, TopUp
    <2>2. UNCHANGED Bill0
      BY <1>3 DEF TopUp, Bill0, BillOf
    <2>3. Ledger!AdjustWallet(credits')
      BY <2>2 DEF Ledger!AdjustWallet, Bill0
    <2> QED
      BY <2>1, <2>3 DEF Ledger!LedgerNext
  <1>4. ASSUME NEW w \in Workers,
               \/ AlreadyRenewed(w) \/ Runtime(w) \/ WorkerDies(w)
               \/ \E s \in Servers : PickDue(w, s)
        PROVE  UNCHANGED Ledger!ledgerVars
    BY <1>4, WorkerTypes, Stutters
  <1>5. ASSUME \/ \E s \in Servers : SeenHealthy(s) \/ MakeRoom(s)
               \/ \E a \in Staff : KeepLifecycle(a) \/ \E s \in Servers : AskLifecycle(a, s)
        PROVE  UNCHANGED Ledger!ledgerVars
    BY <1>5, OtherTypes, Stutters
  <1>6. ASSUME NEW s \in Servers, PeriodEnds(s) PROVE UNCHANGED Ledger!ledgerVars
    BY <1>6, Stutters DEF PeriodEnds
  <1>7. CASE UNCHANGED vars
    BY <1>7, Stutters DEF vars
  <1> QED
    BY <1>1, <1>2, <1>3, <1>4, <1>5, <1>6, <1>7 DEF Next, Bill

LEMMA LedgerInitially == Init => Ledger!LedgerInit
  BY BoundAssumption DEF Init, Ledger!LedgerInit, BillOf

\* Renewals are steps of the ledger that checkouts implement too: a bill is opened
\* once, settled once, for its price and out of a sufficient balance.
THEOREM LedgerRefinement == Spec => RenewalsKeepLedger
  <1> HIDE DEF IInv
  <1> QED
    BY LedgerInitially, LedgerStep, Invariance, PTL DEF Spec, RenewalsKeepLedger, Ledger!LedgerSpec
=============================================================================
