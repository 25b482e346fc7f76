--------------------------- MODULE HeartbeatReports ---------------------------
(***************************************************************************)
(* What the panel says of a node from the age of its last heartbeat.  The  *)
(* scheduler, the enable route, the public status page and the alerts each *)
(* have windows of their own for it; the page and the alerts also fold the *)
(* nodes, the database and the incidents staff report into one word.       *)
(***************************************************************************)
EXTENDS NodeReservation

CONSTANTS
    Ages,        \* ages of a heartbeat, NoHeartbeat among them
    Fleets,      \* sets of nodes, [id, enabled, age]; age is NoHeartbeat or in seconds
    Pages,       \* sets of components of the status page, [source, manual]
    Incidents    \* sets of incidents, [severity, status]

NoHeartbeat == -1

ComponentStatuses == {"operational", "maintenance", "degraded", "outage"}

\* The ages and the words that the columns may hold, by their types and checks.
ASSUME AgeAssumption == Ages \subseteq Nat \cup {NoHeartbeat}
ASSUME FleetAssumption ==
    \A fleet \in Fleets : \A n \in fleet :
        n.enabled \in BOOLEAN /\ n.age \in Nat \cup {NoHeartbeat}
ASSUME PageAssumption == \A page \in Pages : \A c \in page : c.manual \in ComponentStatuses
ASSUME IncidentAssumption ==
    \A incidents \in Incidents : \A i \in incidents :
        i.severity \in {"major", "minor", "maintenance"}

-----------------------------------------------------------------------------
(* The status page *)

\* Mutant: a node that never sent a heartbeat counts as just seen.
CurrentNodeStatusLenient(node) ==
    CASE ~node.enabled -> "maintenance"
      [] node.age > 180 -> "outage"
      [] node.age > 90 /\ node.age <= 180 -> "degraded"
      [] OTHER -> "operational"

CurrentNodeStatus(node) ==
    CASE ~node.enabled -> "maintenance"
      [] node.enabled /\ (node.age = NoHeartbeat \/ node.age > 180) -> "outage"
      [] node.enabled /\ node.age > 90 /\ node.age <= 180 -> "degraded"
      [] OTHER -> "operational"

Rank == [operational |-> 0, maintenance |-> 1, degraded |-> 2, outage |-> 3]

Worst(statuses) ==
    IF statuses = {} THEN "operational"
    ELSE CHOOSE s \in statuses : \A t \in statuses : Rank[t] <= Rank[s]

Enabled(fleet) == {n \in fleet : n.enabled}

\* The inventory is one query; when it fails every node component is down.
NodesStatus(fleet, readable) ==
    CASE ~readable -> "outage"
      [] readable /\ Enabled(fleet) = {} -> "maintenance"
      [] OTHER -> Worst({CurrentNodeStatus(n) : n \in Enabled(fleet)})

\* A component may watch one node by its id, gone or not.
NodeStatus(fleet, id, readable) ==
    IF ~readable \/ \A n \in fleet : n.id # id THEN "outage"
    ELSE Worst({CurrentNodeStatus(n) : n \in {x \in fleet : x.id = id}})

ComponentStatus(component, fleet, readable, database) ==
    CASE component.source = "panel" -> "operational"
      [] component.source = "database" -> IF database THEN "operational" ELSE "outage"
      [] component.source = "nodes" -> NodesStatus(fleet, readable)
      [] component.source = "manual" -> component.manual
      [] OTHER -> NodeStatus(fleet, component.source, readable)

\* A minor incident or a maintenance one shows only when nothing else does.
Overall(page, incidents, fleet, readable, database) ==
    LET worst == Worst({ComponentStatus(c, fleet, readable, database) : c \in page})
        active(severity) == \E i \in incidents : i.severity = severity /\ i.status # "resolved"
    IN  CASE active("major") -> "outage"
          [] ~active("major") /\ active("minor") /\ worst = "operational" -> "degraded"
          [] ~active("major") /\ ~active("minor") /\ active("maintenance")
                /\ worst = "operational" -> "maintenance"
          [] OTHER -> worst

-----------------------------------------------------------------------------
(* The alerts, with the default windows *)

NodeAlert(node) ==
    CASE node.enabled /\ (node.age = NoHeartbeat \/ node.age > 180) -> "critical"
      [] node.enabled /\ node.age > 90 /\ node.age <= 180 -> "warning"
      [] OTHER -> "none"

\* The list starts with the most severe alert.
Headline(fleet) ==
    LET alerts == {NodeAlert(n) : n \in fleet}
    IN  IF "critical" \in alerts THEN "critical"
        ELSE IF "warning" \in alerts THEN "warning" ELSE "none"

-----------------------------------------------------------------------------
(* The scheduler and the enable route *)

Schedulable(node) == node.enabled /\ node.age # NoHeartbeat /\ node.age <= 120
MayBeEnabled(node) == node.age # NoHeartbeat /\ node.age <= 120

-----------------------------------------------------------------------------
(* Properties *)

\* The page's node component is down exactly when an alert is critical, degraded
\* exactly when one warns; the headline never looks better than any component,
\* and not operational while an incident is open, failed queries or not.
HeadlinesAgree ==
    \A fleet \in Fleets :
        /\ NodesStatus(fleet, TRUE) = "outage" <=> Headline(fleet) = "critical"
        /\ NodesStatus(fleet, TRUE) = "degraded" <=> Headline(fleet) = "warning"
        /\ \A page \in Pages, incidents \in Incidents, readable, database \in BOOLEAN :
              LET shown == Overall(page, incidents, fleet, readable, database)
              IN  /\ \A c \in page :
                        Rank[ComponentStatus(c, fleet, readable, database)] <= Rank[shown]
                  /\ \A i \in incidents : i.status # "resolved" => shown # "operational"

\* The four readers of last_seen_at agree where they must: a node reservations may
\* take is not shown as down and raises no critical alert, one shown as operational
\* has a heartbeat they accept, and one that is enabled is not shown as down at once.
ReportsAgree ==
    /\ HeadlinesAgree
    /\ \A n \in Nodes, age \in Ages :
          LET node == [id |-> n, enabled |-> enabled[n], age |-> age]
          IN  (n \in fresh <=> age \in 0..120) =>
                 /\ HasRoom(n) => CurrentNodeStatus(node) # "outage" /\ NodeAlert(node) # "critical"
                 /\ CurrentNodeStatus(node) = "operational" => Schedulable(node) /\ n \in fresh
                 /\ MayBeEnabled(node) =>
                       CurrentNodeStatus([node EXCEPT !.enabled = TRUE]) # "outage"
=============================================================================
