------------------------- MODULE MCNodeReservation --------------------------
(* Instances of NodeReservation for TLC, with the hosts NodeChoice ranks and *)
(* the fleets HeartbeatReports describes.                                    *)
EXTENDS NodeChoice, HeartbeatReports, TLC

Symmetry ==
    Permutations(Nodes) \cup Permutations(Requests) \cup Permutations(Servers)

\* Hosts beside the windows for load, memory and disk.
Host(answers, age, load, available, free, memory) ==
    [answers |-> answers, age |-> age, load |-> load, cpus |-> 4,
     memory |-> [total |-> 16000, available |-> available],
     disk |-> [total |-> IF free = Unknown THEN Unknown ELSE 40000, free |-> free],
     capacity |-> [memory |-> 16000, cpu |-> 4, disk |-> 40000],
     used |-> [memory |-> memory, cpu |-> 1, disk |-> 10000]]

MCMachines ==
    {Host(TRUE, 60, l, a, f, u) : l \in {0, 3, 4, 5}, a \in {1280, 1281, 2880, 8000},
                                  f \in {Unknown, 4020, 6020, 20000}, u \in {0, 14000}}
    \cup {Host(FALSE, 60, 0, 8000, 20000, 0), Host(TRUE, 121, 0, 8000, 20000, 0)}
    \cup {[Host(TRUE, 60, l, 8000, 20000, 0) EXCEPT !.memory.total = Unknown] : l \in {0, 5}}

MCPlans == {[memory |-> 2000, cpu |-> 1, disk |-> d] : d \in {0, 2000}}
MCPolicies ==
    {[reserveMb |-> Unknown, minFreePercent |-> Unknown], [reserveMb |-> 5000, minFreePercent |-> 60]}

\* Up to two nodes, on either side of every window.
MCAges == {NoHeartbeat, 0, 90, 91, 120, 121, 180, 181}
MCNodes ==
    {[id |-> i, enabled |-> e, age |-> a] : i \in {"node a", "node b"}, e \in BOOLEAN, a \in MCAges}
MCFleets == {{m, n} : m, n \in MCNodes} \cup {{}}

Components ==
    {[source |-> s, manual |-> "operational"] : s \in {"panel", "database", "nodes", "node a"}}
    \cup {[source |-> "manual", manual |-> m] : m \in {"maintenance", "degraded"}}
MCPages == {p \in SUBSET Components : Cardinality(p) <= 2}

MCIncidents ==
    {{}} \cup {{[severity |-> v, status |-> s]} : v \in {"major", "minor", "maintenance"},
                                                 s \in {"investigating", "resolved"}}
         \cup {{[severity |-> "minor", status |-> "identified"],
                [severity |-> "maintenance", status |-> "monitoring"]}}
=============================================================================
