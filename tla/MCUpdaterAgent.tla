---------------------------- MODULE MCUpdaterAgent ----------------------------
(* Two start requests, one service restart, one crash, one failed write; and *)
(* hosts at and beside every threshold, any of their readings failing.       *)
EXTENDS HostHealth, TLC

Disks ==
    {[total |-> 100 * GiB, used |-> u, free |-> 100 * GiB - u - r] : r \in {0, 5 * GiB},
        u \in {70 * GiB, 80 * GiB - 1, 80 * GiB, 90 * GiB - 50, 90 * GiB - 60}}
    \cup {[total |-> 0, used |-> 0, free |-> 0],
          [total |-> 200 * GiB, used |-> 150 * GiB, free |-> 8 * GiB - 1]}

Memories ==
    {[k \in {"MemTotal", key} |-> IF k = "MemTotal" THEN 16000 ELSE f] :
        key \in {"MemAvailable", "MemFree"}, f \in {800, 1600, 1609}}
    \cup {<<>>}

Usages ==
    {<<[amount |-> 8, unit |-> "GB"]>>, <<[amount |-> 20, unit |-> "B"]>>,
     <<[amount |-> 12, unit |-> "GB"], [amount |-> 8192, unit |-> "MB"]>>}

Statuses == {"up", "up, starting", "up, unhealthy", "exited (0)", "exited (1)", "dead", "restarting"}

\* /proc/stat before and after, with and without iowait: busy, and a clock step.
Stats ==
    {<<<<10, 0, 10, 100>>, <<105, 0, 10, 105>>>>,
     <<<<10, 0, 10, 100, 5>>, <<10, 0, 10, 90, 15>>>>}

Losses == {{}, {"disk"}, {"df"}, {"services", "stat"}, {"df", "services"}}

MCHosts ==
    {[lost |-> l, disk |-> d, memory |-> m, df |-> u, services |-> {[service |-> x, raw |-> r]}, stat |-> c] :
        l \in Losses, d \in Disks, m \in Memories, u \in Usages,
        x \in {"migrate", "panel"}, r \in Statuses, c \in Stats}
=============================================================================
