------------------------------ MODULE HostHealth ------------------------------
(***************************************************************************)
(* What the updater agent says of its host, and the alerts the panel makes *)
(* of it.  The agent reads /proc, the root filesystem and Docker, each of  *)
(* which may fail, and answers with numbers and one word; the panel looks  *)
(* at the numbers again, with thresholds of its own.                       *)
(*                                                                         *)
(* Sizes are in MiB, percentages in tenths, as the agent rounds them.      *)
(***************************************************************************)
EXTENDS UpdaterAgent, Integers

Unmeasured == -1    \* None, null, or a field that is not there

GiB == 1024

Tenths(part, whole) ==
    IF whole = 0 THEN Unmeasured ELSE (2000 * part + whole) \div (2 * whole)

-----------------------------------------------------------------------------
(* Readings; host.lost has the names of those that failed *)

Total(counters) == MapThenSumSet(LAMBDA i : counters[i], DOMAIN counters)
Idle(counters) == counters[4] + (IF Len(counters) > 4 THEN counters[5] ELSE 0)

\* Two snapshots of /proc/stat; the counters may stand still or step back.
CpuPercent(before, after) ==
    LET elapsed == Total(after) - Total(before)
        busy == elapsed - (Idle(after) - Idle(before))
    IN  Max({0, Min({1000, (1000 * busy) \div Max({1, elapsed})})})

\* /proc/meminfo has MemAvailable on newer kernels only; without a total, or
\* unreadable, there is no percentage.
MemoryPercent(info) ==
    LET field(key, default) == IF key \in DOMAIN info THEN info[key] ELSE default
        total == field("MemTotal", 0)
    IN  Tenths(Max({0, total - field("MemAvailable", field("MemFree", 0))}), total)

\* docker's decimal units are taken as binary ones; anything else counts nothing.
SizeBytes(size) ==
    CASE size.unit = "kB" -> size.amount \div 1024
      [] size.unit = "MB" -> size.amount
      [] size.unit = "GB" -> size.amount * GiB
      [] size.unit = "TB" -> size.amount * GiB * GiB
      [] OTHER -> 0

\* docker system df that fails has no records.
Reclaimable(host) ==
    IF "df" \in host.lost THEN 0
    ELSE MapThenSumSet(LAMBDA i : SizeBytes(host.df[i]), DOMAIN host.df)

OneShotServices == {"migrate"}

\* Mutant: the test for "up" comes first, and "Up 2 hours (unhealthy)" passes it.
ClassifyUpFirst(service, raw) ==
    IF raw \in {"up", "up, starting", "up, unhealthy"} THEN "healthy"
    ELSE IF service \in OneShotServices /\ raw = "exited (0)" THEN "completed"
    ELSE IF raw \in {"exited (0)", "exited (1)", "dead"} THEN "error" ELSE "unknown"

ClassifyService(service, raw) ==
    CASE service \in OneShotServices /\ raw = "exited (0)" -> "completed"
      [] raw \in {"up, unhealthy", "dead", "exited (1)"} \/
         (raw = "exited (0)" /\ service \notin OneShotServices) -> "error"
      [] raw \in {"up", "up, starting"} -> "healthy"
      [] OTHER -> "unknown"

\* docker ps that fails has no services.
Broken(host) ==
    "services" \notin host.lost /\
        \E s \in host.services : ClassifyService(s.service, s.raw) = "error"

-----------------------------------------------------------------------------
(* collect_metrics *)

DiskPercent(host) == Tenths(host.disk.used, host.disk.total)

CleanupRecommended(host) ==
    \/ Reclaimable(host) >= 20 * GiB
    \/ /\ Reclaimable(host) >= 8 * GiB
       /\ DiskPercent(host) >= 700 \/ host.disk.free < 20 * GiB

Critical(host) ==
    \/ DiskPercent(host) >= 900
    \/ host.disk.free < 8 * GiB
    \/ MemoryPercent(host.memory) >= 950
    \/ Broken(host)

Warned(host) ==
    \/ Critical(host)
    \/ DiskPercent(host) >= 800
    \/ MemoryPercent(host.memory) >= 900
    \/ CleanupRecommended(host)
    \/ host.lost \cap {"df", "services"} # {}

HealthStatus(host) ==
    IF Critical(host) THEN "critical" ELSE IF Warned(host) THEN "warning" ELSE "healthy"

\* A filesystem that cannot be read ends the request without an answer.
Answers(host) == "disk" \notin host.lost

Metrics(host) ==
    [health |-> HealthStatus(host), disk |-> DiskPercent(host),
     memory |-> MemoryPercent(host.memory),
     cpu |-> IF "stat" \in host.lost THEN Unmeasured
             ELSE CpuPercent(host.stat[1], host.stat[2])]

-----------------------------------------------------------------------------
(* The panel *)

Bounded(value, default, low, high) ==
    IF value = Unmeasured THEN default ELSE Min({high, Max({low, value})})

\* Thresholds as staff saved them, each on its own; Unmeasured is not a number.
Thresholds(saved) ==
    [diskWarning |-> Bounded(saved.diskWarning, 800, 500, 980),
     diskCritical |-> Bounded(saved.diskCritical, 900, 600, 990),
     memoryWarning |-> Bounded(saved.memoryWarning, 800, 500, 980),
     memoryCritical |-> Bounded(saved.memoryCritical, 900, 600, 990),
     cpuCritical |-> Bounded(saved.cpuCritical, 950, 600, 1000)]

Alert(kind, value, warning, critical) ==
    IF value >= critical THEN {<<kind, "critical">>}
    ELSE IF value >= warning THEN {<<kind, "warning">>} ELSE {}

\* What is not measured is 0, so it raises nothing; no answer is an alert.
HostAlerts(host, settings) ==
    IF ~Answers(host) THEN {<<"agent", "warning">>}
    ELSE LET seen == [m \in {"disk", "memory", "cpu"} |-> Max({0, Metrics(host)[m]})]
         IN  Alert("disk", seen["disk"], settings.diskWarning, settings.diskCritical)
             \cup Alert("memory", seen["memory"], settings.memoryWarning, settings.memoryCritical)
             \cup Alert("cpu", seen["cpu"], settings.cpuCritical, settings.cpuCritical)

-----------------------------------------------------------------------------
(* Bounded inputs *)

CONSTANT Hosts    \* readings of a host, failed ones included

\* Blocks that only root may use are neither used nor free.
ASSUME HostAssumption ==
    \A host \in Hosts :
        /\ host.disk.used \in Nat /\ host.disk.free \in Nat /\ host.disk.total \in Nat
        /\ host.disk.used + host.disk.free <= host.disk.total
        /\ \A key \in DOMAIN host.memory : host.memory[key] \in Nat
        /\ host.services \subseteq [service : STRING, raw : STRING]

Default == [diskWarning |-> Unmeasured, diskCritical |-> Unmeasured, memoryWarning |-> Unmeasured,
            memoryCritical |-> Unmeasured, cpuCritical |-> Unmeasured]

HealthyHostWorks(host) ==
    HealthStatus(host) = "healthy" =>
        /\ 5 * host.disk.used < 4 * host.disk.total /\ host.disk.free >= 8 * GiB
        /\ host.lost \cap {"df", "services"} = {}
        /\ \A s \in host.services :
              \/ s.raw \notin {"dead", "exited (1)", "exited (0)", "up, unhealthy"}
              \/ s = [service |-> "migrate", raw |-> "exited (0)"]

AlertsFollowHealth(host) ==
    LET alerts == HostAlerts(host, Thresholds(Default))
    IN  /\ HealthStatus(host) = "healthy" =>
              \A a \in alerts : a[1] # "disk" /\ a # <<"memory", "critical">>
        /\ <<"disk", "critical">> \in alerts => HealthStatus(host) = "critical"
        /\ <<"cpu", "critical">> \in alerts => "stat" \notin host.lost

HostsAreJudgedAlike ==
    \A host \in Hosts : Answers(host) => HealthyHostWorks(host) /\ AlertsFollowHealth(host)

\* The agent and the panel judge one host with two sets of thresholds.  Whatever
\* readings failed, a host that an agent which is up calls healthy has 20 % and
\* 8 GiB of its disk free, answers of Docker, no service that is down or fails its
\* health check, and no alert of the panel for its disk, nor a critical one for its
\* memory; a critical alert for the disk means the agent says critical too.
HealthyMeansWorking == up => HostsAreJudgedAlike
=============================================================================
