--------------------------- MODULE NodeReservation ---------------------------
(***************************************************************************)
(* Who may put a server on a node, and when.  Provisioning chooses a node  *)
(* from a snapshot and then reserves on it in a transaction that checks    *)
(* everything again; meanwhile staff drain, disable and enable nodes, save *)
(* the operations form, nodes send heartbeats and servers are removed.     *)
(*                                                                         *)
(* A server takes one unit of its node's capacity.  Memory, disk and CPU   *)
(* are checked alike, in the same statement.                               *)
(***************************************************************************)
EXTENDS Integers, FiniteSets

CONSTANTS
    Nodes,         \* registered nodes
    Requests,      \* provisioning requests in progress together
    Admins,        \* staff sessions that change nodes together
    Servers,       \* server rows
    MaxCapacity,   \* largest capacity a node reports (bound)
    None           \* SQL null

ASSUME ServersFinite == IsFiniteSet(Servers)
ASSUME CapacityAssumption == MaxCapacity \in Nat
ASSUME NullAssumption ==
    None \notin Nodes /\ None \notin Requests /\ None \notin Servers

VARIABLES
    enabled,    \* nodes.enabled
    fresh,      \* nodes whose last_seen_at is at most 120 seconds old
    capacity,   \* nodes.capacity_*
    drained,    \* drainNodes of the 'operations' setting
    home,       \* node of a server row that is not deleted
    pc,         \* next statement of a provisioning request
    target,     \* node it chose
    nodeLock,   \* holder of the transaction advisory lock of a node
    rowLock,    \* holder of the FOR UPDATE lock on a node's row
    desk,       \* next statement of a staff request
    site        \* node it is about

nodeVars == <<enabled, fresh, capacity>>
reservation == <<pc, target, nodeLock, rowLock>>
staff == <<desk, site>>
vars == <<nodeVars, drained, home, reservation, staff>>

-----------------------------------------------------------------------------

InTransaction == {"check", "drain", "insert"}

TypeOK ==
    /\ enabled \in [Nodes -> BOOLEAN]
    /\ fresh \in SUBSET Nodes
    /\ capacity \in [Nodes -> 1..MaxCapacity]
    /\ drained \in SUBSET Nodes
    /\ home \in [Servers -> Nodes \cup {None}]
    /\ pc \in [Requests -> {"idle", "lock"} \cup InTransaction]
    /\ target \in [Requests -> Nodes \cup {None}]
    /\ nodeLock \in [Nodes -> Requests \cup {None}]
    /\ rowLock \in [Nodes -> Requests \cup {None}]
    /\ desk \in [Admins -> {"idle", "undrain", "count", "disable", "enable"}]
    /\ site \in [Admins -> Nodes \cup {None}]

\* A node that registers itself is disabled, one that staff add is enabled.
Init ==
    /\ enabled \in [Nodes -> BOOLEAN]
    /\ fresh = Nodes
    /\ capacity \in [Nodes -> 1..MaxCapacity]
    /\ drained = {}
    /\ home = [s \in Servers |-> None]
    /\ pc = [p \in Requests |-> "idle"]
    /\ target = [p \in Requests |-> None]
    /\ nodeLock = [n \in Nodes |-> None]
    /\ rowLock = [n \in Nodes |-> None]
    /\ desk = [a \in Admins |-> "idle"]
    /\ site = [a \in Admins |-> None]

-----------------------------------------------------------------------------
(* Reservation *)

Used(n) == Cardinality({s \in Servers : home[s] = n})

HasRoom(n) == n \in fresh /\ enabled[n] /\ Used(n) < capacity[n]

\* candidateNodes and the scheduler's ranking: any schedulable node may win.
ChooseNode(p, n) ==
    /\ pc[p] = "idle"
    /\ HasRoom(n) /\ n \notin drained
    /\ pc' = [pc EXCEPT ![p] = "lock"]
    /\ target' = [target EXCEPT ![p] = n]
    /\ UNCHANGED <<nodeVars, drained, home, nodeLock, rowLock, staff>>

LockNode(p) ==
    /\ pc[p] = "lock"
    /\ nodeLock[target[p]] = None
    /\ nodeLock' = [nodeLock EXCEPT ![target[p]] = p]
    /\ pc' = [pc EXCEPT ![p] = "check"]
    /\ UNCHANGED <<nodeVars, drained, home, target, rowLock, staff>>

\* Mutant: the row is read without FOR UPDATE.
CheckNodeUnlocked(p) ==
    /\ pc[p] = "check"
    /\ HasRoom(target[p])
    /\ pc' = [pc EXCEPT ![p] = "drain"]
    /\ UNCHANGED <<nodeVars, drained, home, target, nodeLock, rowLock, staff>>

\* The node's row, its servers' sums and the checks on them; the row stays locked.
CheckNode(p) ==
    /\ pc[p] = "check"
    /\ rowLock[target[p]] = None
    /\ HasRoom(target[p])
    /\ rowLock' = [rowLock EXCEPT ![target[p]] = p]
    /\ pc' = [pc EXCEPT ![p] = "drain"]
    /\ UNCHANGED <<nodeVars, drained, home, target, nodeLock, staff>>

CheckDrain(p) ==
    /\ pc[p] = "drain"
    /\ target[p] \notin drained
    /\ pc' = [pc EXCEPT ![p] = "insert"]
    /\ UNCHANGED <<nodeVars, drained, home, target, nodeLock, rowLock, staff>>

EndTransaction(p) ==
    /\ pc' = [pc EXCEPT ![p] = "idle"]
    /\ target' = [target EXCEPT ![p] = None]
    /\ nodeLock' = [n \in Nodes |-> IF nodeLock[n] = p THEN None ELSE nodeLock[n]]
    /\ rowLock' = [n \in Nodes |-> IF rowLock[n] = p THEN None ELSE rowLock[n]]

\* Server, allocation and order link become visible together, at commit.
InsertServer(p, s) ==
    /\ pc[p] = "insert"
    /\ home[s] = None
    /\ home' = [home EXCEPT ![s] = target[p]]
    /\ EndTransaction(p)
    /\ UNCHANGED <<nodeVars, drained, staff>>

\* A check fails, no port is free, the order is linked already, or the panel dies.
RollBack(p) ==
    /\ pc[p] \in InTransaction
    /\ EndTransaction(p)
    /\ UNCHANGED <<nodeVars, drained, home, staff>>

\* Cleanup of a failed provision, or deletion by the owner; no node lock.
RemoveServer(s) ==
    /\ home[s] # None
    /\ home' = [home EXCEPT ![s] = None]
    /\ UNCHANGED <<nodeVars, drained, reservation, staff>>

-----------------------------------------------------------------------------
(* Staff *)

\* Mutant: setNodeDrain takes no lock.
NodeNeverLocked(n) == TRUE
\* setNodeDrain is one transaction under the node's advisory and row locks.
NodeUnlocked(n) == nodeLock[n] = None /\ rowLock[n] = None

Turn(a, step, n) ==
    /\ desk' = [desk EXCEPT ![a] = step]
    /\ site' = [site EXCEPT ![a] = n]

DrainNode(a, n) ==
    /\ desk[a] = "idle"
    /\ NodeUnlocked(n)
    /\ drained' = drained \cup {n}
    /\ UNCHANGED <<nodeVars, home, reservation, staff>>

\* A disabled node cannot be returned to scheduling; the check is a read of its own.
AskUndrain(a, n) ==
    /\ desk[a] = "idle"
    /\ enabled[n]
    /\ Turn(a, "undrain", n)
    /\ UNCHANGED <<nodeVars, drained, home, reservation>>

UndrainNode(a) ==
    /\ desk[a] = "undrain"
    /\ NodeUnlocked(site[a])
    /\ drained' = drained \ {site[a]}
    /\ Turn(a, "idle", None)
    /\ UNCHANGED <<nodeVars, home, reservation>>

\* Disabling drains first, then counts the servers, then writes the row.
DrainToDisable(a, n) ==
    /\ desk[a] = "idle"
    /\ NodeUnlocked(n)
    /\ drained' = drained \cup {n}
    /\ Turn(a, "count", n)
    /\ UNCHANGED <<nodeVars, home, reservation>>

CountServers(a) ==
    /\ desk[a] = "count"
    /\ \/ Used(site[a]) = 0 /\ Turn(a, "disable", site[a])
       \/ Used(site[a]) > 0 /\ Turn(a, "idle", None)
    /\ UNCHANGED <<nodeVars, drained, home, reservation>>

DisableNode(a) ==
    /\ desk[a] = "disable"
    /\ rowLock[site[a]] = None
    /\ enabled' = [enabled EXCEPT ![site[a]] = FALSE]
    /\ Turn(a, "idle", None)
    /\ UNCHANGED <<fresh, capacity, drained, home, reservation>>

\* Enabling looks at heartbeat, capacity and diagnostics first, and does not
\* end the drain.
AskEnable(a, n) ==
    /\ desk[a] = "idle"
    /\ n \in fresh
    /\ capacity[n] > 0
    /\ Turn(a, "enable", n)
    /\ UNCHANGED <<nodeVars, drained, home, reservation>>

EnableNode(a) ==
    /\ desk[a] = "enable"
    /\ rowLock[site[a]] = None
    /\ enabled' = [enabled EXCEPT ![site[a]] = TRUE]
    /\ Turn(a, "idle", None)
    /\ UNCHANGED <<fresh, capacity, drained, home, reservation>>

\* Diagnostics refuse, or the panel dies between two statements.
StaffGiveUp(a) ==
    /\ desk[a] # "idle"
    /\ Turn(a, "idle", None)
    /\ UNCHANGED <<nodeVars, drained, home, reservation>>

\* The operations form replaces the whole setting by its own three fields.
SaveOperations(a) ==
    /\ desk[a] = "idle"
    /\ drained # {}
    /\ drained' = {}
    /\ UNCHANGED <<nodeVars, home, reservation, staff>>

-----------------------------------------------------------------------------
(* Nodes *)

\* finitePositive
ValidCapacity == 1..MaxCapacity

\* Registration is an upsert: it waits for a locked row.  A health check that
\* only writes last_seen_at is the case in which the capacity stays.
Heartbeat(n) ==
    /\ rowLock[n] = None
    /\ fresh' = fresh \cup {n}
    /\ \E c \in ValidCapacity : capacity' = [capacity EXCEPT ![n] = c]
    /\ UNCHANGED <<enabled, drained, home, reservation, staff>>

HeartbeatExpires(n) ==
    /\ n \in fresh
    /\ fresh' = fresh \ {n}
    /\ UNCHANGED <<enabled, capacity, drained, home, reservation, staff>>

-----------------------------------------------------------------------------

Reserve(p) ==
    \/ \E n \in Nodes : ChooseNode(p, n)
    \/ LockNode(p) \/ CheckNode(p) \/ CheckDrain(p) \/ RollBack(p)
    \/ \E s \in Servers : InsertServer(p, s)

Manage(a) ==
    \/ \E n \in Nodes :
          DrainNode(a, n) \/ AskUndrain(a, n) \/ DrainToDisable(a, n) \/ AskEnable(a, n)
    \/ UndrainNode(a) \/ CountServers(a) \/ DisableNode(a) \/ EnableNode(a)
    \/ StaffGiveUp(a) \/ SaveOperations(a)

Next ==
    \/ \E p \in Requests : Reserve(p)
    \/ \E s \in Servers : RemoveServer(s)
    \/ \E a \in Admins : Manage(a)
    \/ \E n \in Nodes : Heartbeat(n) \/ HeartbeatExpires(n)

Spec == Init /\ [][Next]_vars

-----------------------------------------------------------------------------
(* Properties *)

Placed(s, n) == home[s] # n /\ home'[s] = n

\* docs/releases/v0.60.0.md: "Capacity is rechecked under the existing node
\* advisory lock before the reservation is committed."  At the commit the node is
\* enabled, not in the drain list, and not beyond its capacity, although each was
\* checked some statements before and the node was chosen earlier still.
PlacementIsSafe ==
    [][\A s \in Servers, n \in Nodes :
          Placed(s, n) => /\ enabled[n]
                          /\ n \notin drained
                          /\ Used(n)' <= capacity[n]]_vars

\* The disable route: "Move or delete all attached servers before disabling it."
\* With one staff session at a time, a disabled node has no server: the drain
\* that precedes the count keeps reservations out until the row is written.
DisabledNodeIsEmpty ==
    \A n \in Nodes : ~enabled[n] => Used(n) = 0

=============================================================================
