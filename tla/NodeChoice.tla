------------------------------ MODULE NodeChoice ------------------------------
(***************************************************************************)
(* Which node a new server goes to: what CrakNode measures of its host,    *)
(* the panel's check of it, the score, and the choice.  NodeReservation    *)
(* takes the choice as free among the nodes with room; here it is what the *)
(* code computes from one answer of each node.                             *)
(*                                                                         *)
(* Percentages and scores are in hundredths, sizes in MB.                  *)
(***************************************************************************)
EXTENDS NodeReservation, FiniteSetsExt

CONSTANTS
    Machines,   \* what a node's host may measure
    Plans,      \* sizes a customer may ask for
    Policies    \* settings of the disk reserve

Unknown == -1    \* not measured: NaN, null, or no such file

Parts == {"memory", "cpu", "disk"}
Measured == Nat \cup {Unknown}

\* A host has a CPU, and memory if it can be read; the panel takes what it is told.
ASSUME MachineAssumption ==
    \A m \in Machines :
        /\ m.answers \in BOOLEAN
        /\ m.age \in Nat /\ m.load \in Nat /\ m.cpus \in Nat \ {0}
        /\ m.memory.total \in Measured \ {0} /\ m.memory.available \in Nat
        /\ m.disk.total \in Measured /\ m.disk.free \in Measured
        /\ m.capacity \in [Parts -> Nat] /\ m.used \in [Parts -> Nat]
ASSUME PlanAssumption == Plans \subseteq [Parts -> Nat]
ASSUME PolicyAssumption == Policies \subseteq [reserveMb : Int, minFreePercent : Int]

Clamp(value, low, high) == Max({low, Min({high, value})})
Ratio(free, total) == IF total > 0 THEN Clamp((10000 * free) \div total, 0, 10000) ELSE 0

-----------------------------------------------------------------------------
(* CrakNode *)

\* meminfo that cannot be read leaves 0, so the host counts as empty.
MemoryUsed(machine) ==
    IF machine.memory.total = Unknown THEN 0
    ELSE (10000 * (machine.memory.total - machine.memory.available)) \div machine.memory.total

Load(machine) == (10000 * machine.load) \div machine.cpus

PressureLevel(machine) ==
    IF MemoryUsed(machine) >= 9200 \/ Load(machine) >= 11000 THEN "critical"
    ELSE IF MemoryUsed(machine) >= 8200 \/ Load(machine) >= 8500 THEN "high"
    ELSE "normal"

-----------------------------------------------------------------------------
(* checkNodeRuntimeCapacity *)

\* numberEnv: a setting that is not a number is the default, others are clamped.
Setting(value, default, high) ==
    IF value = Unknown THEN default ELSE Clamp(value, 0, high)

Reserve100(policy, total) ==
    Max({100 * Setting(policy.reserveMb, 2048, 1048576),
         total * Setting(policy.minFreePercent, 10, 50)})

\* Mutant: the reserve is compared with what is free now.
KeepsReserveNow(machine, plan, policy) ==
    100 * machine.disk.free >= Reserve100(policy, machine.disk.total)

KeepsReserve(machine, plan, policy) ==
    100 * (machine.disk.free - plan.disk) >= Reserve100(policy, machine.disk.total)

RuntimeOk(machine, plan, policy) ==
    /\ machine.answers
    /\ PressureLevel(machine) # "critical"
    /\ machine.disk.free >= 0 /\ machine.disk.total > 0
    /\ KeepsReserve(machine, plan, policy)

-----------------------------------------------------------------------------
(* scoreNodeForRequest *)

Left(machine, plan, part) == Max({0, machine.capacity[part] - machine.used[part] - plan[part]})
FreePart(machine, plan, part) == Ratio(Left(machine, plan, part), machine.capacity[part])

Penalty(machine) == IF PressureLevel(machine) = "high" THEN 1400 ELSE 0

\* Rounded to a tenth after the clamp: near scores tie.
Score(machine, plan) ==
    LET raw == 30 * FreePart(machine, plan, "memory") + 25 * FreePart(machine, plan, "cpu")
               + 15 * FreePart(machine, plan, "disk")
               + 15 * Ratio(machine.disk.free - plan.disk, machine.disk.total)
               + 10 * Clamp(10000 - MemoryUsed(machine), 0, 10000)
               + 5 * Clamp(10000 - Load(machine), 0, 10000)
    IN  10 * ((Clamp(raw - 100 * Penalty(machine), 0, 1000000) + 500) \div 1000)

-----------------------------------------------------------------------------
(* candidateNodes and chooseNode, for nodes that are enabled and not drained *)

HasRoomFor(machine, plan) ==
    /\ machine.age <= 120
    /\ \A part \in Parts : machine.capacity[part] - machine.used[part] >= plan[part]

Eligible(machine, plan, policy) == HasRoomFor(machine, plan) /\ RuntimeOk(machine, plan, policy)

\* Of the first and the second machine by name, the second needs a better score.
Wins(machine, other, plan, policy, first) ==
    /\ Eligible(machine, plan, policy)
    /\ Eligible(other, plan, policy) =>
          \/ Score(machine, plan) > Score(other, plan)
          \/ first /\ Score(machine, plan) = Score(other, plan)

-----------------------------------------------------------------------------
(* Properties *)

\* No measurement of g is worse than that of m.
NoWorse(g, m) ==
    /\ m.answers => g.answers
    /\ g.age <= m.age /\ g.load <= m.load /\ g.cpus = m.cpus
    /\ g.memory.total = m.memory.total /\ g.memory.available >= m.memory.available
    /\ g.disk.total = m.disk.total /\ g.disk.free >= m.disk.free
    /\ g.capacity = m.capacity
    /\ \A part \in DOMAIN g.used : g.used[part] <= m.used[part]

\* The node chosen keeps the reserve with the new disk full, and its host is not
\* at 92 % of its memory or 110 % of its CPUs, if those are measured.
ChoiceIsSafe(m, plan, policy) ==
    Eligible(m, plan, policy) =>
        /\ m.disk.free >= plan.disk + Setting(policy.reserveMb, 2048, 1048576)
        /\ m.memory.total # Unknown => 100 * m.memory.available > 8 * m.memory.total
        /\ 10 * m.load < 11 * m.cpus

\* The winner still wins when it has more room, less load or less memory in use:
\* the weights, the penalty, the clamps and the rounding never reverse an order.
BetterStillWins(m, plan, policy) ==
    \A other \in Machines, first \in BOOLEAN : Wins(m, other, plan, policy, first) =>
        \A g \in Machines : NoWorse(g, m) => Wins(g, other, plan, policy, first)

ChoosesWell ==
    \A m \in Machines, plan \in Plans, policy \in Policies :
        ChoiceIsSafe(m, plan, policy) /\ BetterStillWins(m, plan, policy)

\* What the query sees of a node of NodeReservation, a server being one unit of each.
AsMachine(n) ==
    [age |-> IF n \in fresh THEN 120 ELSE 121,
     capacity |-> [memory |-> capacity[n], cpu |-> capacity[n], disk |-> capacity[n]],
     used |-> [memory |-> Used(n), cpu |-> Used(n), disk |-> Used(n)]]

\* docs/releases/v0.60.0.md: "critically pressured and unsafe-disk nodes remain
\* excluded."  The choice is safe and monotone, and the nodes it is made from are
\* those with room in NodeReservation, whatever reservations and staff have done.
ChoiceIsSafeAndMonotone ==
    /\ ChoosesWell
    /\ \A n \in Nodes : enabled[n] =>
          (HasRoomFor(AsMachine(n), [memory |-> 1, cpu |-> 1, disk |-> 1]) <=> HasRoom(n))
=============================================================================
