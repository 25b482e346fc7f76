------------------------ MODULE NodeReservationProofs -------------------------
(***************************************************************************)
(* Theorems about NodeReservation, for every number of nodes, requests,    *)
(* staff sessions and servers; and, further down, about NodeChoice and     *)
(* HeartbeatReports.                                                       *)
(***************************************************************************)
EXTENDS NodeChoice, HeartbeatReports, FiniteSetTheorems, TLAPS

(* A request past its choice has a node, and so has a staff request.       *)
AimInv ==
    /\ \A p \in Requests : pc[p] # "idle" => target[p] \in Nodes
    /\ \A a \in Admins : desk[a] # "idle" => site[a] \in Nodes

(* A transaction holds the advisory lock of its node.                      *)
NodeLockInv ==
    \A p \in Requests : pc[p] \in InTransaction => nodeLock[target[p]] = p

(* What CheckNode saw stays true while the row is locked: the advisory     *)
(* lock keeps other reservations out, the row lock staff and heartbeats.   *)
CheckedInv ==
    \A p \in Requests, n \in Nodes :
        pc[p] \in {"drain", "insert"} /\ target[p] = n =>
            /\ rowLock[n] = p
            /\ enabled[n]
            /\ Used(n) < capacity[n]

(* What CheckDrain saw stays true: drain mode needs the advisory lock.     *)
NotDrainedInv ==
    \A p \in Requests : pc[p] = "insert" => target[p] \notin drained

IInv ==
    /\ TypeOK
    /\ AimInv
    /\ NodeLockInv
    /\ CheckedInv
    /\ NotDrainedInv

(* Staff change nodes one after another.                                   *)
OneSession == \A a, b \in Admins : a = b

(* Between the drain that begins a disabling and the write that ends it,   *)
(* the node stays in the drain list, and empty once it was counted empty.  *)
DisablingInv ==
    \A a \in Admins, n \in Nodes :
        site[a] = n =>
            /\ desk[a] \in {"count", "disable"} => n \in drained
            /\ desk[a] = "disable" => Used(n) = 0

-----------------------------------------------------------------------------
(* Counting servers *)

(* The rows of a node are finitely many. *)
LEMMA UsedFinite ==
    ASSUME NEW n
    PROVE  IsFiniteSet({s \in Servers : home[s] = n})
  BY ServersFinite, FS_Subset

(* What a node has in use is a number, before and after a step. *)
LEMMA UsedIsNat ==
    ASSUME NEW n
    PROVE  Used(n) \in Nat /\ Used(n)' \in Nat
<1>1. {s \in Servers : home[s] = n} \subseteq Servers
  OBVIOUS
<1>2. {s \in Servers : home'[s] = n} \subseteq Servers
  OBVIOUS
<1>3. \A S : S \subseteq Servers => Cardinality(S) \in Nat
  BY ServersFinite, FS_Subset, FS_CardinalityType
<1> QED
  BY <1>1, <1>2, <1>3 DEF Used

(* One server more on a node is one more in its sum, and no more elsewhere. *)
LEMMA OneMore ==
    ASSUME TypeOK, NEW s \in Servers, NEW n \in Nodes,
           home[s] = None, home' = [home EXCEPT ![s] = n]
    PROVE  /\ Used(n)' = Used(n) + 1
           /\ \A m \in Nodes \ {n} : Used(m)' = Used(m)
<1> DEFINE On(m) == {t \in Servers : home[t] = m}
           After(m) == {t \in Servers : home'[t] = m}
<1>1. After(n) = On(n) \cup {s} /\ s \notin On(n)
  BY NullAssumption DEF TypeOK
<1>2. \A m \in Nodes \ {n} : After(m) = On(m)
  BY NullAssumption DEF TypeOK
<1>3. IsFiniteSet(On(n))
  BY UsedFinite
<1>4. Cardinality(On(n) \cup {s}) = Cardinality(On(n)) + 1
  BY <1>1, <1>3, FS_AddElement
<1> QED
  BY <1>1, <1>2, <1>4 DEF Used

(* One server less takes nothing but itself out of a sum.                  *)
LEMMA OneLess ==
    ASSUME TypeOK, NEW s \in Servers, home' = [home EXCEPT ![s] = None],
           NEW n \in Nodes
    PROVE  Used(n)' <= Used(n)
<1> DEFINE On == {t \in Servers : home[t] = n}
           After == {t \in Servers : home'[t] = n}
<1>1. After \subseteq On
  BY NullAssumption DEF TypeOK
<1>2. IsFiniteSet(On)
  BY UsedFinite
<1>3. Cardinality(After) <= Cardinality(On)
  BY <1>1, <1>2, FS_Subset
<1> QED
  BY <1>3 DEF Used

-----------------------------------------------------------------------------
(* Every action keeps every variable in its set. *)
LEMMA TypeStep ==
    ASSUME TypeOK, AimInv, [Next]_vars
    PROVE  TypeOK'
<1> USE DEF TypeOK, InTransaction, nodeVars, reservation, staff, Turn,
            EndTransaction, ValidCapacity
<1>1. CASE UNCHANGED vars
  BY <1>1 DEF vars
<1>2. ASSUME NEW p \in Requests, NEW n \in Nodes, ChooseNode(p, n)
      PROVE  TypeOK'
  BY <1>2 DEF ChooseNode
<1>3. ASSUME NEW p \in Requests, LockNode(p)
      PROVE  TypeOK'
  BY <1>3 DEF LockNode
<1>4. ASSUME NEW p \in Requests, CheckNode(p)
      PROVE  TypeOK'
  BY <1>4 DEF CheckNode
<1>5. ASSUME NEW p \in Requests, CheckDrain(p)
      PROVE  TypeOK'
  BY <1>5 DEF CheckDrain
<1>6. ASSUME NEW p \in Requests, RollBack(p)
      PROVE  TypeOK'
  BY <1>6 DEF RollBack
<1>7. ASSUME NEW p \in Requests, NEW s \in Servers, InsertServer(p, s)
      PROVE  TypeOK'
  BY <1>7 DEF InsertServer
<1>8. ASSUME NEW s \in Servers, RemoveServer(s)
      PROVE  TypeOK'
  BY <1>8 DEF RemoveServer
<1>9. ASSUME NEW a \in Admins, NEW n \in Nodes,
             DrainNode(a, n) \/ AskUndrain(a, n) \/ DrainToDisable(a, n) \/ AskEnable(a, n)
      PROVE  TypeOK'
  BY <1>9 DEF DrainNode, AskUndrain, DrainToDisable, AskEnable
<1>10. ASSUME NEW a \in Admins, UndrainNode(a) \/ CountServers(a) \/ StaffGiveUp(a)
       PROVE  TypeOK'
  BY <1>10 DEF UndrainNode, CountServers, StaffGiveUp, AimInv
<1>11. ASSUME NEW a \in Admins, DisableNode(a) \/ EnableNode(a) \/ SaveOperations(a)
       PROVE  TypeOK'
  BY <1>11 DEF DisableNode, EnableNode, SaveOperations
<1>12. ASSUME NEW n \in Nodes, Heartbeat(n)
       PROVE  TypeOK'
  BY <1>12 DEF Heartbeat
<1>13. ASSUME NEW n \in Nodes, HeartbeatExpires(n)
       PROVE  TypeOK'
  BY <1>13 DEF HeartbeatExpires
<1> HIDE DEF TypeOK
<1> QED
  BY <1>1, <1>2, <1>3, <1>4, <1>5, <1>6, <1>7, <1>8, <1>9, <1>10, <1>11, <1>12, <1>13
  DEF Next, Reserve, Manage

(* Whoever acts on a node acts on a registered node. *)
LEMMA AimStep ==
    ASSUME TypeOK, AimInv, [Next]_vars
    PROVE  AimInv'
<1> USE DEF TypeOK, AimInv, InTransaction, nodeVars, reservation, staff,
            Turn, EndTransaction
<1>1. CASE UNCHANGED vars
  BY <1>1 DEF vars
<1>2. ASSUME NEW p \in Requests, NEW n \in Nodes, ChooseNode(p, n)
      PROVE  AimInv'
  BY <1>2 DEF ChooseNode
<1>3. ASSUME NEW p \in Requests, LockNode(p) \/ CheckNode(p) \/ CheckDrain(p)
      PROVE  AimInv'
  BY <1>3 DEF LockNode, CheckNode, CheckDrain
<1>4. ASSUME NEW p \in Requests, RollBack(p)
      PROVE  AimInv'
  BY <1>4 DEF RollBack
<1>5. ASSUME NEW p \in Requests, NEW s \in Servers, InsertServer(p, s)
      PROVE  AimInv'
  BY <1>5 DEF InsertServer
<1>6. ASSUME NEW s \in Servers, RemoveServer(s)
      PROVE  AimInv'
  BY <1>6 DEF RemoveServer
<1>7. ASSUME NEW a \in Admins, NEW n \in Nodes,
             DrainNode(a, n) \/ AskUndrain(a, n) \/ DrainToDisable(a, n) \/ AskEnable(a, n)
      PROVE  AimInv'
  BY <1>7 DEF DrainNode, AskUndrain, DrainToDisable, AskEnable
<1>8. ASSUME NEW a \in Admins, UndrainNode(a) \/ CountServers(a) \/ StaffGiveUp(a)
      PROVE  AimInv'
  BY <1>8 DEF UndrainNode, CountServers, StaffGiveUp
<1>9. ASSUME NEW a \in Admins, DisableNode(a) \/ EnableNode(a) \/ SaveOperations(a)
      PROVE  AimInv'
  BY <1>9 DEF DisableNode, EnableNode, SaveOperations
<1>10. ASSUME NEW n \in Nodes, Heartbeat(n) \/ HeartbeatExpires(n)
       PROVE  AimInv'
  BY <1>10 DEF Heartbeat, HeartbeatExpires
<1> HIDE DEF AimInv
<1> QED
  BY <1>1, <1>2, <1>3, <1>4, <1>5, <1>6, <1>7, <1>8, <1>9, <1>10
  DEF Next, Reserve, Manage

(* A lock taken stays with its holder until the transaction ends. *)
LEMMA NodeLockStep ==
    ASSUME TypeOK, AimInv, NodeLockInv, [Next]_vars
    PROVE  NodeLockInv'
<1> USE NullAssumption DEF TypeOK, AimInv, NodeLockInv, InTransaction
<1>1. CASE UNCHANGED <<pc, target, nodeLock>>
  BY <1>1
<1>2. ASSUME NEW p \in Requests, NEW n \in Nodes, ChooseNode(p, n)
      PROVE  NodeLockInv'
  BY <1>2 DEF ChooseNode
<1>3. ASSUME NEW p \in Requests, LockNode(p)
      PROVE  NodeLockInv'
  BY <1>3 DEF LockNode
<1>4. ASSUME NEW p \in Requests, CheckNode(p) \/ CheckDrain(p)
      PROVE  NodeLockInv'
  BY <1>4 DEF CheckNode, CheckDrain
<1>5. ASSUME NEW p \in Requests, EndTransaction(p)
      PROVE  NodeLockInv'
  BY <1>5 DEF EndTransaction
<1>6. ASSUME [Next]_vars,
             \A p \in Requests : ~Reserve(p)
      PROVE  UNCHANGED <<pc, target, nodeLock>>
  BY <1>6 DEF Next, Manage, vars, reservation, RemoveServer, DrainNode, AskUndrain,
     DrainToDisable, AskEnable, UndrainNode, CountServers, DisableNode, EnableNode,
     StaffGiveUp, SaveOperations, Heartbeat, HeartbeatExpires
<1> HIDE DEF NodeLockInv
<1> QED
  BY <1>1, <1>2, <1>3, <1>4, <1>5, <1>6 DEF Reserve, RollBack, InsertServer

(* Nobody else can undo what a transaction checked under its two locks. *)
LEMMA CheckedStep ==
    ASSUME TypeOK, AimInv, NodeLockInv, CheckedInv, [Next]_vars
    PROVE  CheckedInv'
<1> DEFINE Checked == {"drain", "insert"}
           Before(q, m) == pc[q] \in Checked /\ target[q] = m
<1> SUFFICES ASSUME NEW q \in Requests, NEW m \in Nodes, Before(q, m)'
             PROVE  rowLock'[m] = q /\ enabled'[m] /\ Used(m)' < capacity'[m]
  BY DEF CheckedInv
<1> DEFINE Goal == rowLock'[m] = q /\ enabled'[m] /\ Used(m)' < capacity'[m]
<1> USE NullAssumption DEF TypeOK, AimInv
<1>0. ASSUME Before(q, m)
      PROVE  rowLock[m] = q /\ enabled[m] /\ Used(m) < capacity[m] /\ nodeLock[m] = q
  BY <1>0 DEF CheckedInv, NodeLockInv, InTransaction
<1>1. ASSUME Before(q, m), UNCHANGED <<home, rowLock[m], enabled[m], capacity[m]>>
      PROVE  Goal
  BY <1>0, <1>1 DEF Used
<1>2. ASSUME UNCHANGED vars
      PROVE  Goal
  BY <1>1, <1>2 DEF vars, nodeVars, reservation
<1>3. ASSUME NEW p \in Requests, NEW n \in Nodes, ChooseNode(p, n)
      PROVE  Goal
  <2>1. q # p
    BY <1>3 DEF ChooseNode
  <2> QED
    BY <1>1, <1>3, <2>1 DEF ChooseNode, nodeVars
<1>4. ASSUME NEW p \in Requests, LockNode(p)
      PROVE  Goal
  <2>1. q # p
    BY <1>4 DEF LockNode
  <2> QED
    BY <1>1, <1>4, <2>1 DEF LockNode, nodeVars
<1>5. ASSUME NEW p \in Requests, CheckNode(p)
      PROVE  Goal
  <2>1. CASE q = p
    <3>1. target[p] = m
      BY <1>5, <2>1 DEF CheckNode
    <3>2. HasRoom(m) /\ rowLock'[m] = p
      BY <1>5, <3>1 DEF CheckNode
    <3>3. UNCHANGED <<home, enabled, capacity>>
      BY <1>5 DEF CheckNode, nodeVars
    <3> QED
      BY <2>1, <3>2, <3>3 DEF HasRoom, Used
  <2>2. CASE q # p
    <3>1. Before(q, m)
      BY <1>5, <2>2 DEF CheckNode
    <3>2. m # target[p]
      BY <1>0, <1>5, <2>2, <3>1 DEF CheckNode, NodeLockInv, InTransaction
    <3> QED
      BY <1>1, <1>5, <3>1, <3>2 DEF CheckNode, nodeVars
  <2> QED
    BY <2>1, <2>2
<1>6. ASSUME NEW p \in Requests, CheckDrain(p)
      PROVE  Goal
  <2>1. Before(q, m)
    BY <1>6 DEF CheckDrain
  <2> QED
    BY <1>1, <1>6, <2>1 DEF CheckDrain, nodeVars
<1>7. ASSUME NEW p \in Requests, EndTransaction(p), pc[p] \in InTransaction
      PROVE  q # p /\ Before(q, m) /\ target[p] # m /\ rowLock'[m] = rowLock[m]
  <2>1. q # p
    BY <1>7 DEF EndTransaction
  <2>2. Before(q, m)
    BY <1>7, <2>1 DEF EndTransaction
  <2>3. target[p] # m
    BY <1>0, <1>7, <2>1, <2>2 DEF NodeLockInv, InTransaction
  <2>4. rowLock'[m] = rowLock[m]
    BY <1>0, <1>7, <2>1, <2>2 DEF EndTransaction
  <2> QED
    BY <2>1, <2>2, <2>3, <2>4
<1>8. ASSUME NEW p \in Requests, RollBack(p)
      PROVE  Goal
  <2>1. EndTransaction(p) /\ pc[p] \in InTransaction
    BY <1>8 DEF RollBack
  <2> QED
    BY <1>1, <1>7, <1>8, <2>1 DEF RollBack, nodeVars
<1>9. ASSUME NEW p \in Requests, NEW s \in Servers, InsertServer(p, s)
      PROVE  Goal
  <2>1. EndTransaction(p) /\ pc[p] \in InTransaction
    BY <1>9 DEF InsertServer, InTransaction
  <2>2. /\ target[p] \in Nodes
        /\ home[s] = None /\ home' = [home EXCEPT ![s] = target[p]]
        /\ enabled' = enabled /\ capacity' = capacity
    BY <1>9 DEF InsertServer, nodeVars
  <2>3. PICK n \in Nodes : n = target[p]
    BY <2>2
  <2>4. n # m
    BY <1>7, <2>1, <2>3
  <2>5. Used(m)' = Used(m)
    BY <2>2, <2>3, <2>4, OneMore
  <2> QED
    BY <1>0, <1>7, <2>1, <2>2, <2>5
<1>10. ASSUME NEW s \in Servers, RemoveServer(s)
       PROVE  Goal
  <2>1. Before(q, m) /\ rowLock' = rowLock /\ enabled' = enabled /\ capacity' = capacity
    BY <1>10 DEF RemoveServer, reservation, nodeVars
  <2>2. Used(m)' <= Used(m)
    BY <1>10, OneLess DEF RemoveServer
  <2>3. Used(m) \in Nat /\ Used(m)' \in Nat /\ capacity[m] \in Nat
    BY UsedIsNat, CapacityAssumption
  <2> QED
    BY <1>0, <2>1, <2>2, <2>3
<1>11. ASSUME NEW a \in Admins, DisableNode(a) \/ EnableNode(a)
       PROVE  Goal
  <2>1. Before(q, m)
    BY <1>11 DEF DisableNode, EnableNode, reservation
  <2>2. site[a] # m
    BY <1>0, <1>11, <2>1 DEF DisableNode, EnableNode
  <2> QED
    BY <1>1, <1>11, <2>1, <2>2 DEF DisableNode, EnableNode, reservation
<1>12. ASSUME NEW n \in Nodes, Heartbeat(n)
       PROVE  Goal
  <2>1. Before(q, m)
    BY <1>12 DEF Heartbeat, reservation
  <2>2. n # m
    BY <1>0, <1>12, <2>1 DEF Heartbeat
  <2> QED
    BY <1>1, <1>12, <2>1, <2>2 DEF Heartbeat, reservation
<1>13. ASSUME NEW a \in Admins, NEW n \in Nodes,
              DrainNode(a, n) \/ AskUndrain(a, n) \/ DrainToDisable(a, n) \/ AskEnable(a, n)
       PROVE  Goal
  BY <1>1, <1>13 DEF DrainNode, AskUndrain, DrainToDisable, AskEnable, nodeVars, reservation
<1>14. ASSUME NEW a \in Admins,
              UndrainNode(a) \/ CountServers(a) \/ StaffGiveUp(a) \/ SaveOperations(a)
       PROVE  Goal
  BY <1>1, <1>14 DEF UndrainNode, CountServers, StaffGiveUp, SaveOperations, nodeVars,
     reservation
<1>15. ASSUME NEW n \in Nodes, HeartbeatExpires(n)
       PROVE  Goal
  BY <1>1, <1>15 DEF HeartbeatExpires, reservation
<1> HIDE DEF Goal, TypeOK, AimInv
<1>16. ASSUME NEW p \in Requests, Reserve(p)
       PROVE  Goal
  BY <1>3, <1>4, <1>5, <1>6, <1>8, <1>9, <1>16 DEF Reserve
<1>17. ASSUME NEW a \in Admins, Manage(a)
       PROVE  Goal
  BY <1>11, <1>13, <1>14, <1>17 DEF Manage
<1>18. Goal
  BY <1>2, <1>10, <1>12, <1>15, <1>16, <1>17 DEF Next
<1> QED
  BY <1>18 DEF Goal

(* A node cannot enter drain mode between CheckDrain and the commit. *)
LEMMA NotDrainedStep ==
    ASSUME TypeOK, AimInv, NodeLockInv, NotDrainedInv, [Next]_vars
    PROVE  NotDrainedInv'
<1> USE NullAssumption DEF TypeOK, AimInv, NotDrainedInv
<1>1. CASE UNCHANGED <<pc, target>> /\ drained' \subseteq drained
  BY <1>1
<1>2. ASSUME NEW p \in Requests, NEW n \in Nodes, ChooseNode(p, n)
      PROVE  NotDrainedInv'
  BY <1>2 DEF ChooseNode
<1>3. ASSUME NEW p \in Requests, LockNode(p) \/ CheckNode(p) \/ CheckDrain(p)
      PROVE  NotDrainedInv'
  BY <1>3 DEF LockNode, CheckNode, CheckDrain
<1>4. ASSUME NEW p \in Requests, EndTransaction(p), UNCHANGED drained
      PROVE  NotDrainedInv'
  BY <1>4 DEF EndTransaction
<1>5. ASSUME NEW a \in Admins, NEW n \in Nodes, DrainNode(a, n) \/ DrainToDisable(a, n)
      PROVE  NotDrainedInv'
  <2> SUFFICES ASSUME NEW q \in Requests, pc'[q] = "insert"
               PROVE  target'[q] \notin drained'
    OBVIOUS
  <2>1. pc[q] = "insert" /\ target'[q] = target[q]
    BY <1>5 DEF DrainNode, DrainToDisable, reservation
  <2>2. nodeLock[target[q]] = q /\ nodeLock[n] = None
    BY <1>5, <2>1 DEF DrainNode, DrainToDisable, NodeUnlocked, NodeLockInv, InTransaction
  <2>3. target[q] # n
    BY <2>2
  <2> QED
    BY <1>5, <2>1, <2>3 DEF DrainNode, DrainToDisable
<1>6. ASSUME \A p \in Requests : ~Reserve(p),
             \A a \in Admins, n \in Nodes : ~DrainNode(a, n) /\ ~DrainToDisable(a, n)
      PROVE  UNCHANGED <<pc, target>> /\ drained' \subseteq drained
  BY <1>6 DEF Next, Manage, vars, reservation, RemoveServer, AskUndrain,
     AskEnable, UndrainNode, CountServers, DisableNode, EnableNode,
     StaffGiveUp, SaveOperations, Heartbeat, HeartbeatExpires
<1> HIDE DEF NotDrainedInv
<1> QED
  BY <1>1, <1>2, <1>3, <1>4, <1>5, <1>6 DEF Reserve, RollBack, InsertServer

-----------------------------------------------------------------------------
(* The inductive invariant holds in every reachable state. *)
THEOREM Invariance == Spec => []IInv
<1>1. Init => IInv
  BY DEF Init, IInv, TypeOK, AimInv, NodeLockInv, CheckedInv, NotDrainedInv, InTransaction
<1>2. IInv /\ [Next]_vars => IInv'
  BY TypeStep, AimStep, NodeLockStep, CheckedStep, NotDrainedStep DEF IInv
<1> QED
  BY <1>1, <1>2, PTL DEF Spec

(* Every variable keeps to its type, for every instance. *)
THEOREM TypeCorrect == Spec => []TypeOK
<1>1. IInv => TypeOK
  BY DEF IInv
<1> QED
  BY <1>1, Invariance, PTL

(* reserveServer commits only onto a node that is enabled, out of drain mode
   and has room, whatever staff, heartbeats and other requests do meanwhile. *)
(* A server comes to a node by the commit of a reservation only. *)
LEMMA OnlyInsertPlaces ==
    ASSUME TypeOK, [Next]_vars, NEW s \in Servers, NEW n \in Nodes, Placed(s, n)
    PROVE  \E p \in Requests : InsertServer(p, s) /\ target[p] = n
<1>1. home' # home
  BY DEF Placed
<1>2. ASSUME NEW t \in Servers, RemoveServer(t)
      PROVE  FALSE
  BY <1>2, NullAssumption DEF RemoveServer, Placed, TypeOK
<1>3. PICK p \in Requests, t \in Servers : InsertServer(p, t)
  BY <1>1, <1>2 DEF Next, Reserve, Manage, vars, ChooseNode, LockNode, CheckNode,
     CheckDrain, RollBack, DrainNode, AskUndrain, DrainToDisable, AskEnable,
     UndrainNode, CountServers, DisableNode, EnableNode, StaffGiveUp,
     SaveOperations, Heartbeat, HeartbeatExpires
<1> QED
  BY <1>3 DEF InsertServer, Placed, TypeOK

(* The checks hold at the commit, and the new server fits. *)
LEMMA PlacementStep ==
    ASSUME IInv, [Next]_vars, NEW s \in Servers, NEW n \in Nodes, Placed(s, n)
    PROVE  enabled[n] /\ n \notin drained /\ Used(n)' <= capacity[n]
<1>1. TypeOK /\ CheckedInv /\ NotDrainedInv
  BY DEF IInv
<1>2. PICK p \in Requests : InsertServer(p, s) /\ target[p] = n
  BY <1>1, OnlyInsertPlaces
<1>3. Used(n)' = Used(n) + 1
  BY <1>1, <1>2, OneMore DEF InsertServer
<1>4. enabled[n] /\ n \notin drained /\ Used(n) < capacity[n]
  BY <1>1, <1>2 DEF CheckedInv, NotDrainedInv, InsertServer
<1>5. Used(n) \in Nat /\ capacity[n] \in Nat
  BY <1>1, UsedIsNat, CapacityAssumption DEF TypeOK
<1> QED
  BY <1>3, <1>4, <1>5

(* reserveServer commits only onto a node that is enabled, out of drain mode
   and has room, whatever staff, heartbeats and other requests do meanwhile. *)
THEOREM Placement == Spec => PlacementIsSafe
<1>1. IInv /\ [Next]_vars =>
        [\A s \in Servers, n \in Nodes :
            Placed(s, n) => /\ enabled[n]
                            /\ n \notin drained
                            /\ Used(n)' <= capacity[n]]_vars
  BY PlacementStep
<1> QED
  BY <1>1, Invariance, PTL DEF Spec, PlacementIsSafe

-----------------------------------------------------------------------------
(* A node without servers stays so unless a reservation commits onto it. *)
LEMMA StaysEmpty ==
    ASSUME TypeOK, [Next]_vars, NEW n \in Nodes, Used(n) = 0,
           \A p \in Requests, s \in Servers : InsertServer(p, s) => target[p] # n
    PROVE  Used(n)' = 0
<1>1. CASE home' = home
  BY <1>1 DEF Used
<1>2. ASSUME NEW s \in Servers, RemoveServer(s)
      PROVE  Used(n)' = 0
  <2>1. Used(n)' <= 0
    BY <1>2, OneLess DEF RemoveServer
  <2> QED
    BY <2>1, UsedIsNat
<1>3. ASSUME NEW p \in Requests, NEW s \in Servers, InsertServer(p, s)
      PROVE  Used(n)' = 0
  <2>1. PICK m \in Nodes \cup {None} : m = target[p]
    BY DEF TypeOK
  <2>2. CASE m \in Nodes
    <3>1. n # m
      BY <1>3, <2>1
    <3> QED
      BY <1>3, <2>1, <2>2, <3>1, OneMore DEF InsertServer
  <2>3. CASE m = None
    <3>1. home' = home
      BY <1>3, <2>1, <2>3 DEF InsertServer, TypeOK
    <3> QED
      BY <3>1 DEF Used
  <2> QED
    BY <2>2, <2>3
<1>4. ASSUME home' # home
      PROVE  \/ \E s \in Servers : RemoveServer(s)
             \/ \E p \in Requests, s \in Servers : InsertServer(p, s)
  BY <1>4 DEF Next, Reserve, Manage, vars, ChooseNode, LockNode, CheckNode,
     CheckDrain, RollBack, DrainNode, AskUndrain, DrainToDisable, AskEnable,
     UndrainNode, CountServers, DisableNode, EnableNode, StaffGiveUp,
     SaveOperations, Heartbeat, HeartbeatExpires
<1> QED
  BY <1>1, <1>2, <1>3, <1>4

(* With one session at a time nobody ends the drain of a disabling. *)
LEMMA DisablingStep ==
    ASSUME OneSession, IInv, DisablingInv, [Next]_vars
    PROVE  DisablingInv'
<1> SUFFICES ASSUME NEW a \in Admins, NEW n \in Nodes, site'[a] = n
             PROVE  /\ desk'[a] \in {"count", "disable"} => n \in drained'
                    /\ desk'[a] = "disable" => Used(n)' = 0
  BY DEF DisablingInv
<1>1. TypeOK /\ NotDrainedInv
  BY DEF IInv
<1>2. CASE UNCHANGED <<desk, site>> /\ drained \subseteq drained'
  <2>1. desk[a] \in {"count", "disable"} => n \in drained'
    BY <1>2 DEF DisablingInv
  <2>2. ASSUME desk[a] = "disable"
        PROVE  Used(n)' = 0
    <3>1. Used(n) = 0 /\ n \in drained
      BY <1>2, <2>2 DEF DisablingInv
    <3>2. \A p \in Requests, s \in Servers : InsertServer(p, s) => target[p] # n
      BY <1>1, <3>1 DEF InsertServer, NotDrainedInv
    <3> QED
      BY <1>1, <3>1, <3>2, StaysEmpty
  <2> QED
    BY <1>2, <2>1, <2>2
<1>3. ASSUME NEW b \in Admins, NEW m \in Nodes, DrainToDisable(b, m)
      PROVE  desk'[a] = "count" /\ n \in drained'
  BY <1>1, <1>3 DEF OneSession, DrainToDisable, Turn, TypeOK
<1>4. ASSUME NEW b \in Admins, CountServers(b)
      PROVE  /\ desk'[a] \in {"count", "disable"} => n \in drained'
             /\ desk'[a] = "disable" => Used(n)' = 0
  <2>1. a = b /\ site[a] = n /\ desk[a] = "count" /\ UNCHANGED <<drained, home>>
    BY <1>1, <1>4, NullAssumption DEF OneSession, CountServers, Turn, TypeOK
  <2>2. n \in drained'
    BY <2>1 DEF DisablingInv
  <2>3. desk'[a] = "disable" => Used(n) = 0
    BY <1>1, <1>4, <2>1 DEF CountServers, Turn, TypeOK
  <2>4. Used(n)' = Used(n)
    BY <2>1 DEF Used
  <2> QED
    BY <2>2, <2>3, <2>4
<1>5. ASSUME NEW b \in Admins, NEW m \in Nodes, AskUndrain(b, m) \/ AskEnable(b, m)
      PROVE  desk'[a] \in {"undrain", "enable"}
  BY <1>1, <1>5 DEF OneSession, AskUndrain, AskEnable, Turn, TypeOK
<1>6. ASSUME NEW b \in Admins,
             UndrainNode(b) \/ DisableNode(b) \/ EnableNode(b) \/ StaffGiveUp(b)
                \/ SaveOperations(b)
      PROVE  desk'[a] = "idle"
  BY <1>1, <1>6 DEF OneSession, UndrainNode, DisableNode, EnableNode, StaffGiveUp,
     SaveOperations, Turn, TypeOK, staff
<1>7. ASSUME NEW b \in Admins, Manage(b)
      PROVE  /\ desk'[a] \in {"count", "disable"} => n \in drained'
             /\ desk'[a] = "disable" => Used(n)' = 0
  <2>1. ASSUME NEW m \in Nodes, DrainNode(b, m)
        PROVE  UNCHANGED <<desk, site>> /\ drained \subseteq drained'
    BY <2>1 DEF DrainNode, staff
  <2> QED
    BY <1>2, <1>3, <1>4, <1>5, <1>6, <1>7, <2>1 DEF Manage
<1>8. ASSUME \A b \in Admins : ~Manage(b)
      PROVE  UNCHANGED <<desk, site>> /\ drained \subseteq drained'
  BY <1>8 DEF Next, Reserve, vars, staff, ChooseNode, LockNode, CheckNode,
     CheckDrain, RollBack, InsertServer, RemoveServer, Heartbeat, HeartbeatExpires
<1> QED
  BY <1>2, <1>7, <1>8

(* A node is disabled only when it is empty, and fills only when enabled. *)
LEMMA DisabledStep ==
    ASSUME IInv, DisablingInv, DisabledNodeIsEmpty, [Next]_vars
    PROVE  DisabledNodeIsEmpty'
<1> SUFFICES ASSUME NEW n \in Nodes, ~enabled'[n]
             PROVE  Used(n)' = 0
  BY DEF DisabledNodeIsEmpty
<1>1. TypeOK /\ CheckedInv
  BY DEF IInv
<1>2. CASE ~enabled[n]
  <2>1. Used(n) = 0
    BY <1>2 DEF DisabledNodeIsEmpty
  <2>2. \A p \in Requests, s \in Servers : InsertServer(p, s) => target[p] # n
    BY <1>1, <1>2 DEF InsertServer, CheckedInv
  <2> QED
    BY <1>1, <2>1, <2>2, StaysEmpty
<1>3. CASE enabled[n]
  <2>1. enabled' # enabled
    BY <1>3
  <2>2. ASSUME NEW a \in Admins, EnableNode(a)
        PROVE  FALSE
    BY <1>1, <1>3, <2>2 DEF EnableNode, TypeOK
  <2>3. PICK a \in Admins : DisableNode(a)
    BY <2>1, <2>2 DEF Next, Reserve, Manage, vars, nodeVars, ChooseNode, LockNode,
       CheckNode, CheckDrain, RollBack, InsertServer, RemoveServer, DrainNode,
       AskUndrain, DrainToDisable, AskEnable, UndrainNode, CountServers,
       StaffGiveUp, SaveOperations, Heartbeat, HeartbeatExpires
  <2>4. site[a] = n /\ desk[a] = "disable"
    BY <1>1, <1>3, <2>3 DEF DisableNode, TypeOK
  <2>5. Used(n) = 0
    BY <2>4 DEF DisablingInv
  <2> QED
    BY <2>3, <2>5 DEF DisableNode, Used
<1> QED
  BY <1>2, <1>3

(* The disable route never leaves servers on a disabled node, provided staff
   change nodes one after another. *)
THEOREM DisabledEmpty == OneSession => (Spec => []DisabledNodeIsEmpty)
<1> SUFFICES ASSUME OneSession
             PROVE  Spec => []DisabledNodeIsEmpty
  OBVIOUS
<1>1. Init => DisablingInv /\ DisabledNodeIsEmpty
  <2> SUFFICES ASSUME Init
               PROVE  DisablingInv /\ DisabledNodeIsEmpty
    OBVIOUS
  <2>1. \A n \in Nodes : {s \in Servers : home[s] = n} = {}
    BY NullAssumption DEF Init
  <2>2. \A n \in Nodes : Used(n) = 0
    BY <2>1, FS_EmptySet DEF Used
  <2> QED
    BY <2>2 DEF Init, DisablingInv, DisabledNodeIsEmpty
<1>2. IInv /\ DisablingInv /\ DisabledNodeIsEmpty /\ [Next]_vars
        => DisablingInv' /\ DisabledNodeIsEmpty'
  BY DisablingStep, DisabledStep
<1> QED
  BY <1>1, <1>2, Invariance, PTL DEF Spec

-----------------------------------------------------------------------------
(***************************************************************************)
(* NodeChoice and HeartbeatReports, for any measurements, plans and        *)
(* settings, and any fleets, pages and incidents.  The choice is monotone  *)
(* because each of its steps is: a quotient by a fixed number, a clamp, a  *)
(* sum with positive weights, and a penalty that a host which is not worse *)
(* cannot newly get.                                                       *)
(***************************************************************************)

(* The operators that scores are built from *)

LEMMA MaxIs ==
    ASSUME NEW a \in Int, NEW b \in Int
    PROVE  Max({a, b}) = IF a >= b THEN a ELSE b
  BY DEF Max

LEMMA MinIs ==
    ASSUME NEW a \in Int, NEW b \in Int
    PROVE  Min({a, b}) = IF a <= b THEN a ELSE b
  BY DEF Min

LEMMA ClampIs ==
    ASSUME NEW value \in Int, NEW low \in Int, NEW high \in Int, low <= high
    PROVE  Clamp(value, low, high) =
             IF value > high THEN high ELSE IF value < low THEN low ELSE value
  <1>1. PICK cut \in Int : cut = Min({high, value})
    BY MinIs
  <1>2. cut = (IF high <= value THEN high ELSE value)
    BY <1>1, MinIs
  <1>3. Max({low, cut}) = IF low >= cut THEN low ELSE cut
    BY MaxIs
  <1> QED
    BY <1>1, <1>2, <1>3 DEF Clamp

LEMMA ClampGrows ==
    ASSUME NEW a \in Int, NEW b \in Int, a <= b, NEW low \in Int, NEW high \in Int, low <= high
    PROVE  /\ Clamp(a, low, high) \in low..high /\ Clamp(b, low, high) \in low..high
           /\ Clamp(a, low, high) <= Clamp(b, low, high)
  BY ClampIs

LEMMA QuotientGrows ==
    ASSUME NEW a \in Int, NEW b \in Int, a <= b, NEW d \in Nat \ {0}
    PROVE  a \div d \in Int /\ b \div d \in Int /\ a \div d <= b \div d
  OBVIOUS

LEMMA QuotientBelow ==
    ASSUME NEW a \in Int, NEW d \in Nat \ {0}, NEW c \in Int, a \div d < c
    PROVE  a < d * c
  OBVIOUS

LEMMA RatioGrows ==
    ASSUME NEW a \in Int, NEW b \in Int, a <= b, NEW total \in Int
    PROVE  /\ Ratio(a, total) \in Int /\ Ratio(b, total) \in Int
           /\ Ratio(a, total) <= Ratio(b, total)
  <1>1. CASE total > 0
    <2>1. PICK x \in Int, y \in Int : x = 10000 * a /\ y = 10000 * b /\ x <= y
      OBVIOUS
    <2>2. PICK p \in Int, q \in Int : p = x \div total /\ q = y \div total /\ p <= q
      BY <1>1, <2>1, QuotientGrows
    <2>3. /\ Clamp(p, 0, 10000) \in Int /\ Clamp(q, 0, 10000) \in Int
          /\ Clamp(p, 0, 10000) <= Clamp(q, 0, 10000)
      <3>1. p <= q
        BY <2>2
      <3> QED
        BY <3>1, ClampGrows
    <2>4. Ratio(a, total) = Clamp(p, 0, 10000) /\ Ratio(b, total) = Clamp(q, 0, 10000)
      BY <1>1, <2>1, <2>2 DEF Ratio
    <2> QED
      BY <2>3, <2>4
  <1>2. CASE ~(total > 0)
    <2>1. Ratio(a, total) = 0 /\ Ratio(b, total) = 0
      BY <1>2 DEF Ratio
    <2> QED
      BY <2>1
  <1> QED
    BY <1>1, <1>2

-----------------------------------------------------------------------------
(* A host that is not worse *)

\* CrakNode's numbers are numbers.
LEMMA Pressures ==
    ASSUME NEW m \in Machines
    PROVE  MemoryUsed(m) \in Int /\ Load(m) \in Int
  BY MachineAssumption DEF MemoryUsed, Load, Unknown, Measured

LEMMA LessPressure ==
    ASSUME NEW g \in Machines, NEW m \in Machines, NoWorse(g, m)
    PROVE  MemoryUsed(g) <= MemoryUsed(m) /\ Load(g) <= Load(m)
  <1>1. /\ m.load \in Nat /\ g.load \in Nat /\ g.load <= m.load
        /\ m.cpus \in Nat \ {0} /\ g.cpus = m.cpus
    BY MachineAssumption DEF NoWorse
  <1>2. Load(g) <= Load(m)
    <2>1. PICK x \in Int, y \in Int : x = 10000 * g.load /\ y = 10000 * m.load /\ x <= y
      BY <1>1
    <2>2. Load(g) = x \div m.cpus /\ Load(m) = y \div m.cpus
      BY <1>1, <2>1 DEF Load
    <2> QED
      BY <1>1, <2>1, <2>2, QuotientGrows
  <1>3. /\ m.memory.available \in Nat /\ g.memory.available \in Nat
        /\ g.memory.available >= m.memory.available /\ g.memory.total = m.memory.total
        /\ m.memory.total \in Measured \ {0}
    BY MachineAssumption DEF NoWorse
  <1>4. CASE m.memory.total = Unknown
    <2>1. MemoryUsed(g) = 0 /\ MemoryUsed(m) = 0
      BY <1>3, <1>4 DEF MemoryUsed
    <2> QED
      BY <1>2, <2>1
  <1>5. CASE m.memory.total # Unknown
    <2>1. PICK total \in Nat \ {0} : total = m.memory.total
      BY <1>3, <1>5 DEF Measured
    <2>2. PICK p \in Int, q \in Int :
            /\ p = 10000 * (total - g.memory.available)
            /\ q = 10000 * (total - m.memory.available) /\ p <= q
      BY <1>3, <2>1
    <2>3. MemoryUsed(g) = p \div total /\ MemoryUsed(m) = q \div total
      BY <1>3, <1>5, <2>1, <2>2 DEF MemoryUsed
    <2>4. MemoryUsed(g) <= MemoryUsed(m)
      BY <2>1, <2>2, <2>3, QuotientGrows
    <2> QED
      BY <1>2, <2>4
  <1> QED
    BY <1>4, <1>5

LEMMA LessPenalty ==
    ASSUME NEW g \in Machines, NEW m \in Machines, NoWorse(g, m),
           PressureLevel(m) # "critical"
    PROVE  PressureLevel(g) # "critical" /\ Penalty(g) <= Penalty(m)
  <1>1. /\ MemoryUsed(g) \in Int /\ Load(g) \in Int /\ MemoryUsed(m) \in Int /\ Load(m) \in Int
        /\ MemoryUsed(g) <= MemoryUsed(m) /\ Load(g) <= Load(m)
    BY Pressures, LessPressure
  <1>2. ~(MemoryUsed(m) >= 9200 \/ Load(m) >= 11000)
    BY <1>1 DEF PressureLevel
  <1>3. ~(MemoryUsed(g) >= 9200 \/ Load(g) >= 11000)
    BY <1>1, <1>2
  <1>4. PressureLevel(g) = "high" => PressureLevel(m) = "high"
    BY <1>1, <1>2, <1>3 DEF PressureLevel
  <1> QED
    BY <1>3, <1>4 DEF PressureLevel, Penalty

\* What a setting may come to.
LEMMA SettingIsNat ==
    ASSUME NEW value \in Int, NEW default \in Nat, NEW high \in Nat
    PROVE  Setting(value, default, high) \in Nat
  BY ClampIs DEF Setting

LEMMA ReserveIs ==
    ASSUME NEW policy \in Policies, NEW total \in Int
    PROVE  /\ Reserve100(policy, total) \in Int
           /\ Setting(policy.reserveMb, 2048, 1048576) \in Nat
           /\ Reserve100(policy, total) >= 100 * Setting(policy.reserveMb, 2048, 1048576)
  <1>1. policy.reserveMb \in Int /\ policy.minFreePercent \in Int
    BY PolicyAssumption
  <1>2. PICK r \in Nat : r = Setting(policy.reserveMb, 2048, 1048576)
    BY <1>1, SettingIsNat
  <1>3. PICK f \in Nat : f = Setting(policy.minFreePercent, 10, 50)
    BY <1>1, SettingIsNat
  <1>4. PICK a \in Int, b \in Int : a = 100 * r /\ b = total * f
    BY <1>2, <1>3
  <1>5. Reserve100(policy, total) = Max({a, b})
    BY <1>2, <1>3, <1>4 DEF Reserve100
  <1> QED
    BY <1>2, <1>4, <1>5, MaxIs

LEMMA StillEligible ==
    ASSUME NEW g \in Machines, NEW m \in Machines, NEW plan \in Plans, NEW policy \in Policies,
           NoWorse(g, m), Eligible(m, plan, policy)
    PROVE  Eligible(g, plan, policy)
  <1>1. /\ m.capacity \in [Parts -> Nat] /\ m.used \in [Parts -> Nat] /\ m.age \in Nat
        /\ g.used \in [Parts -> Nat] /\ g.age \in Nat /\ plan \in [Parts -> Nat]
    BY MachineAssumption, PlanAssumption
  <1>2. HasRoomFor(g, plan)
    BY <1>1 DEF Eligible, HasRoomFor, NoWorse
  <1>3. PICK reserve \in Int : reserve = Reserve100(policy, m.disk.total)
    <2>1. m.disk.total \in Int
      BY MachineAssumption DEF Measured, Unknown
    <2> QED
      BY <2>1, ReserveIs
  <1>4. /\ m.disk.free \in Int /\ g.disk.free \in Int /\ plan.disk \in Int
        /\ g.disk.free >= m.disk.free /\ g.disk.total = m.disk.total
    BY <1>1, MachineAssumption DEF Measured, Unknown, NoWorse, Parts
  <1>5. m.disk.free >= 0 /\ m.disk.total > 0 /\ 100 * (m.disk.free - plan.disk) >= reserve
    BY <1>3 DEF Eligible, RuntimeOk, KeepsReserve
  <1>6. g.disk.free >= 0 /\ g.disk.total > 0 /\ KeepsReserve(g, plan, policy)
    BY <1>3, <1>4, <1>5 DEF KeepsReserve
  <1>7. g.answers /\ PressureLevel(g) # "critical"
    BY LessPenalty DEF Eligible, RuntimeOk, NoWorse
  <1> QED
    BY <1>2, <1>6, <1>7 DEF Eligible, RuntimeOk

LEMMA MoreFree ==
    ASSUME NEW g \in Machines, NEW m \in Machines, NEW plan \in Plans, NoWorse(g, m),
           NEW part \in Parts
    PROVE  /\ FreePart(g, plan, part) \in Int /\ FreePart(m, plan, part) \in Int
           /\ FreePart(m, plan, part) <= FreePart(g, plan, part)
  <1>1. /\ m.capacity \in [Parts -> Nat] /\ g.capacity = m.capacity
        /\ g.used \in [Parts -> Nat] /\ m.used \in [Parts -> Nat]
        /\ g.used[part] <= m.used[part] /\ plan \in [Parts -> Nat]
    BY MachineAssumption, PlanAssumption DEF NoWorse
  <1>2. PICK a \in Int, b \in Int :
          /\ a = m.capacity[part] - m.used[part] - plan[part]
          /\ b = g.capacity[part] - g.used[part] - plan[part] /\ a <= b
    BY <1>1
  <1>3. PICK p \in Int, q \in Int :
          p = Left(m, plan, part) /\ q = Left(g, plan, part) /\ p <= q
    BY <1>2, MaxIs DEF Left
  <1>4. PICK total \in Int : total = m.capacity[part] /\ total = g.capacity[part]
    BY <1>1
  <1> QED
    BY <1>3, <1>4, RatioGrows DEF FreePart

LEMMA BetterScore ==
    ASSUME NEW g \in Machines, NEW m \in Machines, NEW plan \in Plans, NoWorse(g, m),
           PressureLevel(m) # "critical"
    PROVE  Score(g, plan) \in Int /\ Score(m, plan) \in Int /\ Score(m, plan) <= Score(g, plan)
  <1> DEFINE DiskLeft(x) == Ratio(x.disk.free - plan.disk, x.disk.total)
             MemoryLeft(x) == Clamp(10000 - MemoryUsed(x), 0, 10000)
             LoadLeft(x) == Clamp(10000 - Load(x), 0, 10000)
             Raw(x) == 30 * FreePart(x, plan, "memory") + 25 * FreePart(x, plan, "cpu")
                       + 15 * FreePart(x, plan, "disk") + 15 * DiskLeft(x)
                       + 10 * MemoryLeft(x) + 5 * LoadLeft(x)
             Net(x) == Raw(x) - 100 * Penalty(x)
             Clamped(x) == Clamp(Net(x), 0, 1000000)
  <1>1. /\ FreePart(m, plan, "memory") \in Int /\ FreePart(g, plan, "memory") \in Int
        /\ FreePart(m, plan, "memory") <= FreePart(g, plan, "memory")
        /\ FreePart(m, plan, "cpu") \in Int /\ FreePart(g, plan, "cpu") \in Int
        /\ FreePart(m, plan, "cpu") <= FreePart(g, plan, "cpu")
        /\ FreePart(m, plan, "disk") \in Int /\ FreePart(g, plan, "disk") \in Int
        /\ FreePart(m, plan, "disk") <= FreePart(g, plan, "disk")
    BY MoreFree DEF Parts
  <1>2. DiskLeft(m) \in Int /\ DiskLeft(g) \in Int /\ DiskLeft(m) <= DiskLeft(g)
    <2>1. /\ m.disk.free \in Int /\ g.disk.free \in Int /\ plan.disk \in Int
          /\ g.disk.free >= m.disk.free /\ g.disk.total = m.disk.total /\ m.disk.total \in Int
      BY MachineAssumption, PlanAssumption DEF Measured, Unknown, NoWorse, Parts
    <2>2. PICK a \in Int, b \in Int :
            a = m.disk.free - plan.disk /\ b = g.disk.free - plan.disk /\ a <= b
      BY <2>1
    <2> QED
      BY <2>1, <2>2, RatioGrows
  <1>3. MemoryLeft(m) \in Int /\ MemoryLeft(g) \in Int /\ MemoryLeft(m) <= MemoryLeft(g)
    <2>1. PICK a \in Int, b \in Int :
            a = 10000 - MemoryUsed(m) /\ b = 10000 - MemoryUsed(g) /\ a <= b
      BY Pressures, LessPressure
    <2> QED
      BY <2>1, ClampGrows
  <1>4. LoadLeft(m) \in Int /\ LoadLeft(g) \in Int /\ LoadLeft(m) <= LoadLeft(g)
    <2>1. PICK a \in Int, b \in Int :
            a = 10000 - Load(m) /\ b = 10000 - Load(g) /\ a <= b
      BY Pressures, LessPressure
    <2> QED
      BY <2>1, ClampGrows
  <1>5. Penalty(m) \in Int /\ Penalty(g) \in Int /\ Penalty(g) <= Penalty(m)
    BY LessPenalty DEF Penalty
  <1> HIDE DEF DiskLeft, MemoryLeft, LoadLeft
  <1>6. Net(m) \in Int /\ Net(g) \in Int /\ Net(m) <= Net(g)
    BY <1>1, <1>2, <1>3, <1>4, <1>5
  <1> HIDE DEF Net
  <1>7. Clamped(m) \in Int /\ Clamped(g) \in Int /\ Clamped(m) <= Clamped(g)
    <2>1. PICK a \in Int, b \in Int : a = Net(m) /\ b = Net(g) /\ a <= b
      BY <1>6
    <2> QED
      BY <2>1, ClampGrows
  <1>8. \A x : Score(x, plan) = 10 * ((Clamped(x) + 500) \div 1000)
    BY DEF Score, Net, DiskLeft, MemoryLeft, LoadLeft
  <1> HIDE DEF Clamped
  <1> QED
    BY <1>7, <1>8

-----------------------------------------------------------------------------
(* The choice *)

LEMMA SafeChoice ==
    ASSUME NEW m \in Machines, NEW plan \in Plans, NEW policy \in Policies
    PROVE  ChoiceIsSafe(m, plan, policy)
  <1> SUFFICES ASSUME Eligible(m, plan, policy)
               PROVE  /\ m.disk.free >= plan.disk + Setting(policy.reserveMb, 2048, 1048576)
                      /\ m.memory.total # Unknown =>
                            100 * m.memory.available > 8 * m.memory.total
                      /\ 10 * m.load < 11 * m.cpus
    BY DEF ChoiceIsSafe
  <1>1. ~(MemoryUsed(m) >= 9200) /\ ~(Load(m) >= 11000)
    BY Pressures DEF Eligible, RuntimeOk, PressureLevel
  <1>2. m.disk.free >= plan.disk + Setting(policy.reserveMb, 2048, 1048576)
    <2>1. m.disk.free \in Int /\ m.disk.total \in Int /\ plan.disk \in Int
      BY MachineAssumption, PlanAssumption DEF Measured, Unknown, Parts
    <2>2. PICK reserve \in Int, setting \in Nat :
            /\ reserve = Reserve100(policy, m.disk.total)
            /\ setting = Setting(policy.reserveMb, 2048, 1048576)
            /\ reserve >= 100 * setting
      BY <2>1, ReserveIs
    <2>3. 100 * (m.disk.free - plan.disk) >= reserve
      BY <2>2 DEF Eligible, RuntimeOk, KeepsReserve
    <2> QED
      BY <2>1, <2>2, <2>3
  <1>3. ASSUME m.memory.total # Unknown
        PROVE  100 * m.memory.available > 8 * m.memory.total
    <2>1. PICK total \in Nat \ {0}, available \in Nat :
            total = m.memory.total /\ available = m.memory.available
      BY <1>3, MachineAssumption DEF Measured
    <2>2. (10000 * (total - available)) \div total < 9200
      BY <1>1, <1>3, <2>1, Pressures DEF MemoryUsed
    <2>3. 10000 * (total - available) < total * 9200
      BY <2>1, <2>2, QuotientBelow
    <2> QED
      BY <2>1, <2>3
  <1>4. 10 * m.load < 11 * m.cpus
    <2>1. PICK load \in Nat, cpus \in Nat \ {0} : load = m.load /\ cpus = m.cpus
      BY MachineAssumption
    <2>2. (10000 * load) \div cpus < 11000
      BY <1>1, <2>1, Pressures DEF Load
    <2>3. 10000 * load < cpus * 11000
      BY <2>1, <2>2, QuotientBelow
    <2> QED
      BY <2>1, <2>3
  <1> QED
    BY <1>2, <1>3, <1>4

LEMMA MonotoneChoice ==
    ASSUME NEW m \in Machines, NEW plan \in Plans, NEW policy \in Policies
    PROVE  BetterStillWins(m, plan, policy)
  <1> SUFFICES ASSUME NEW other \in Machines, NEW first \in BOOLEAN,
                      Wins(m, other, plan, policy, first),
                      NEW g \in Machines, NoWorse(g, m)
               PROVE  Wins(g, other, plan, policy, first)
    BY DEF BetterStillWins
  <1>1. Eligible(m, plan, policy) /\ PressureLevel(m) # "critical"
    BY DEF Wins, Eligible, RuntimeOk
  <1>2. Eligible(g, plan, policy)
    BY <1>1, StillEligible
  <1>3. Score(g, plan) \in Int /\ Score(m, plan) \in Int /\ Score(m, plan) <= Score(g, plan)
    BY <1>1, BetterScore
  <1>4. ASSUME Eligible(other, plan, policy)
        PROVE  \/ Score(g, plan) > Score(other, plan)
               \/ first /\ Score(g, plan) = Score(other, plan)
    <2>1. NoWorse(other, other)
      <3>1. other.used \in [Parts -> Nat]
        BY MachineAssumption
      <3> QED
        BY <3>1, MachineAssumption DEF NoWorse, Measured, Unknown
    <2>2. Score(other, plan) \in Int
      BY <1>4, <2>1, BetterScore DEF Eligible, RuntimeOk
    <2> QED
      BY <1>3, <1>4, <2>2 DEF Wins
  <1> QED
    BY <1>2, <1>4 DEF Wins

\* The query of one row agrees with what reservations take for room.
LEMMA SameRoom ==
    ASSUME TypeOK, NEW n \in Nodes, enabled[n]
    PROVE  HasRoomFor(AsMachine(n), [memory |-> 1, cpu |-> 1, disk |-> 1]) <=> HasRoom(n)
  <1>1. PICK used \in Nat, room \in Nat : used = Used(n) /\ room = capacity[n]
    BY UsedIsNat DEF TypeOK
  <1>2. /\ AsMachine(n).age = IF n \in fresh THEN 120 ELSE 121
        /\ \A part \in Parts : /\ AsMachine(n).capacity[part] = room
                               /\ AsMachine(n).used[part] = used
                               /\ [memory |-> 1, cpu |-> 1, disk |-> 1][part] = 1
    BY <1>1 DEF AsMachine, Parts
  <1>3. HasRoom(n) <=> n \in fresh /\ used < room
    BY <1>1 DEF HasRoom
  <1>4. "disk" \in Parts
    BY DEF Parts
  <1> QED
    BY <1>1, <1>2, <1>3, <1>4 DEF HasRoomFor

\* For any measurements, plans and settings, the node that wins keeps its reserve and
\* is not under critical pressure, and wins again when it measures better.
THEOREM ChoiceSafe == Spec => []ChoiceIsSafeAndMonotone
  <1>1. ChoosesWell
    BY SafeChoice, MonotoneChoice DEF ChoosesWell
  <1>2. TypeOK => ChoiceIsSafeAndMonotone
    BY <1>1, SameRoom DEF ChoiceIsSafeAndMonotone
  <1> HIDE DEF TypeOK, ChoiceIsSafeAndMonotone
  <1> QED
    BY <1>2, TypeCorrect, PTL

-----------------------------------------------------------------------------
(* The reports of heartbeats *)

LEMMA RankIs ==
    /\ Rank["operational"] = 0 /\ Rank["maintenance"] = 1
    /\ Rank["degraded"] = 2 /\ Rank["outage"] = 3
  BY DEF Rank

\* The worst of some words is one of them, and none is worse.
LEMMA WorstIs ==
    ASSUME NEW statuses \in SUBSET ComponentStatuses
    PROVE  /\ Worst(statuses) \in ComponentStatuses
           /\ statuses # {} => Worst(statuses) \in statuses
           /\ \A s \in statuses : Rank[s] <= Rank[Worst(statuses)]
  <1>1. CASE statuses = {}
    BY <1>1 DEF Worst, ComponentStatuses
  <1>2. CASE statuses # {}
    <2>1. \E s \in statuses : \A t \in statuses : Rank[t] <= Rank[s]
      <3>1. CASE "outage" \in statuses
        BY <3>1, RankIs DEF ComponentStatuses
      <3>2. CASE "outage" \notin statuses /\ "degraded" \in statuses
        BY <3>2, RankIs DEF ComponentStatuses
      <3>3. CASE "outage" \notin statuses /\ "degraded" \notin statuses /\ "maintenance" \in statuses
        BY <3>3, RankIs DEF ComponentStatuses
      <3>4. CASE statuses = {"operational"}
        BY <3>4, RankIs
      <3> QED
        BY <1>2, <3>1, <3>2, <3>3, <3>4 DEF ComponentStatuses
    <2>2. /\ Worst(statuses) \in statuses
          /\ \A t \in statuses : Rank[t] <= Rank[Worst(statuses)]
      BY <1>2, <2>1 DEF Worst
    <2> QED
      BY <2>2
  <1> QED
    BY <1>1, <1>2

LEMMA NodeWords ==
    ASSUME NEW fleet \in Fleets, NEW n \in fleet
    PROVE  /\ CurrentNodeStatus(n) \in ComponentStatuses
           /\ n.enabled => CurrentNodeStatus(n) \in {"operational", "degraded", "outage"}
           /\ n.enabled /\ CurrentNodeStatus(n) = "outage" <=> NodeAlert(n) = "critical"
           /\ n.enabled /\ CurrentNodeStatus(n) = "degraded" <=> NodeAlert(n) = "warning"
  <1>1. n.enabled \in BOOLEAN /\ n.age \in Nat \cup {NoHeartbeat}
    BY FleetAssumption
  <1> QED
    BY <1>1 DEF CurrentNodeStatus, NodeAlert, ComponentStatuses, NoHeartbeat

\* The page's word for all nodes, when they can be read, is the headline's.
LEMMA SameHeadline ==
    ASSUME NEW fleet \in Fleets
    PROVE  /\ NodesStatus(fleet, TRUE) = "outage" <=> Headline(fleet) = "critical"
           /\ NodesStatus(fleet, TRUE) = "degraded" <=> Headline(fleet) = "warning"
  <1> DEFINE words == {CurrentNodeStatus(n) : n \in Enabled(fleet)}
             alerts == {NodeAlert(n) : n \in fleet}
  <1>1. /\ "critical" \in alerts <=> "outage" \in words
        /\ "warning" \in alerts <=> "degraded" \in words
    BY NodeWords DEF Enabled
  <1>2. words \subseteq {"operational", "degraded", "outage"}
    BY NodeWords DEF Enabled
  <1>3. Enabled(fleet) = {} <=> words = {}
    OBVIOUS
  <1>4. NodesStatus(fleet, TRUE) = IF words = {} THEN "maintenance" ELSE Worst(words)
    BY <1>3 DEF NodesStatus
  <1> HIDE DEF words, alerts
  <1>5. /\ words # {} => Worst(words) \in words
        /\ \A s \in words : Rank[s] <= Rank[Worst(words)]
    BY <1>2, WorstIs DEF ComponentStatuses
  <1>6. words # {} => /\ Worst(words) = "outage" <=> "outage" \in words
                      /\ Worst(words) = "degraded" <=>
                            "outage" \notin words /\ "degraded" \in words
    <2>1. CASE words # {}
      <3>1. PICK w \in words : w = Worst(words) /\ \A s \in words : Rank[s] <= Rank[w]
        BY <1>5, <2>1
      <3>2. w = "outage" <=> "outage" \in words
        BY <1>2, <3>1, RankIs
      <3>3. w = "degraded" <=> "outage" \notin words /\ "degraded" \in words
        BY <1>2, <3>1, RankIs
      <3> QED
        BY <3>1, <3>2, <3>3
    <2> QED
      BY <2>1
  <1>7. Headline(fleet) = IF "critical" \in alerts THEN "critical"
                          ELSE IF "warning" \in alerts THEN "warning" ELSE "none"
    BY DEF Headline, alerts
  <1> QED
    BY <1>1, <1>4, <1>6, <1>7

LEMMA ComponentWords ==
    ASSUME NEW fleet \in Fleets, NEW page \in Pages, NEW c \in page,
           NEW readable \in BOOLEAN, NEW database \in BOOLEAN
    PROVE  ComponentStatus(c, fleet, readable, database) \in ComponentStatuses
  <1>1. NodesStatus(fleet, readable) \in ComponentStatuses
    <2>1. {CurrentNodeStatus(n) : n \in Enabled(fleet)} \in SUBSET ComponentStatuses
      BY NodeWords DEF Enabled
    <2>2. Worst({CurrentNodeStatus(n) : n \in Enabled(fleet)}) \in ComponentStatuses
      BY <2>1, WorstIs
    <2> QED
      BY <2>2 DEF NodesStatus, ComponentStatuses
  <1>2. NodeStatus(fleet, c.source, readable) \in ComponentStatuses
    <2>1. {CurrentNodeStatus(n) : n \in {x \in fleet : x.id = c.source}} \in SUBSET ComponentStatuses
      BY NodeWords
    <2>2. Worst({CurrentNodeStatus(n) : n \in {x \in fleet : x.id = c.source}}) \in ComponentStatuses
      BY <2>1, WorstIs
    <2> QED
      BY <2>2 DEF NodeStatus, ComponentStatuses
  <1>3. c.manual \in ComponentStatuses
    BY PageAssumption
  <1> QED
    BY <1>1, <1>2, <1>3 DEF ComponentStatus, ComponentStatuses

\* The headline is no better than a component, nor operational under an open incident.
LEMMA HonestHeadline ==
    ASSUME NEW fleet \in Fleets, NEW page \in Pages, NEW incidents \in Incidents,
           NEW readable \in BOOLEAN, NEW database \in BOOLEAN
    PROVE  LET shown == Overall(page, incidents, fleet, readable, database)
           IN  /\ \A c \in page :
                     Rank[ComponentStatus(c, fleet, readable, database)] <= Rank[shown]
               /\ \A i \in incidents : i.status # "resolved" => shown # "operational"
  <1> DEFINE words == {ComponentStatus(c, fleet, readable, database) : c \in page}
             worst == Worst(words)
             active(severity) == \E i \in incidents : i.severity = severity /\ i.status # "resolved"
             shown == Overall(page, incidents, fleet, readable, database)
  <1>1. words \in SUBSET ComponentStatuses
    BY ComponentWords
  <1>2. worst \in ComponentStatuses /\ \A s \in words : Rank[s] <= Rank[worst]
    BY <1>1, WorstIs
  <1>3. shown = CASE active("major") -> "outage"
                  [] ~active("major") /\ active("minor") /\ worst = "operational" -> "degraded"
                  [] ~active("major") /\ ~active("minor") /\ active("maintenance")
                        /\ worst = "operational" -> "maintenance"
                  [] OTHER -> worst
    BY DEF Overall
  <1>4. \A i \in incidents : i.status # "resolved" =>
            active("major") \/ active("minor") \/ active("maintenance")
    BY IncidentAssumption
  <1> HIDE DEF words, worst, active, shown
  <1>5. shown \in ComponentStatuses /\ Rank[worst] <= Rank[shown]
    BY <1>2, <1>3 DEF Rank, ComponentStatuses
  <1>6. \A s \in words : Rank[s] <= Rank[shown]
    BY <1>1, <1>2, <1>5 DEF Rank, ComponentStatuses
  <1>7. active("major") \/ active("minor") \/ active("maintenance") => shown # "operational"
    BY <1>3
  <1> QED
    BY <1>4, <1>6, <1>7 DEF words, shown

\* The four readers of last_seen_at, for one node and its reservations.
LEMMA FourReaders ==
    ASSUME TypeOK, NEW n \in Nodes, NEW age \in Ages, n \in fresh <=> age \in 0..120
    PROVE  LET node == [id |-> n, enabled |-> enabled[n], age |-> age]
           IN  /\ HasRoom(n) => CurrentNodeStatus(node) # "outage" /\ NodeAlert(node) # "critical"
               /\ CurrentNodeStatus(node) = "operational" => Schedulable(node) /\ n \in fresh
               /\ MayBeEnabled(node) =>
                     CurrentNodeStatus([node EXCEPT !.enabled = TRUE]) # "outage"
  <1> DEFINE node == [id |-> n, enabled |-> enabled[n], age |-> age]
             on == [node EXCEPT !.enabled = TRUE]
  <1>1. age \in Nat \cup {NoHeartbeat} /\ enabled[n] \in BOOLEAN
    BY AgeAssumption DEF TypeOK
  <1>2. node.enabled = enabled[n] /\ node.age = age /\ on.enabled = TRUE /\ on.age = age
    OBVIOUS
  <1> HIDE DEF node, on
  <1>3. HasRoom(n) => CurrentNodeStatus(node) # "outage" /\ NodeAlert(node) # "critical"
    BY <1>1, <1>2 DEF HasRoom, CurrentNodeStatus, NodeAlert, NoHeartbeat
  <1>4. CurrentNodeStatus(node) = "operational" => Schedulable(node) /\ n \in fresh
    BY <1>1, <1>2 DEF CurrentNodeStatus, Schedulable, NoHeartbeat
  <1>5. MayBeEnabled(node) => CurrentNodeStatus(on) # "outage"
    BY <1>1, <1>2 DEF CurrentNodeStatus, MayBeEnabled, NoHeartbeat
  <1> QED
    BY <1>3, <1>4, <1>5 DEF node, on

\* For any fleet, page, incidents and ages, what the panel says of its nodes agrees
\* with what it does with them.
THEOREM Reports == Spec => []ReportsAgree
  <1>1. HeadlinesAgree
    BY SameHeadline, HonestHeadline DEF HeadlinesAgree
  <1>2. TypeOK => ReportsAgree
    BY <1>1, FourReaders DEF ReportsAgree
  <1> HIDE DEF TypeOK, ReportsAgree
  <1> QED
    BY <1>2, TypeCorrect, PTL
=============================================================================
