\* Two start requests, a service restart, a crash of the agent, a failed write;
\* hosts beside every threshold.
SPECIFICATION Spec
CONSTANTS
    Jobs = {j1, j2}
    Restarts = {r1}
    HistoryLength = 2
    MaxCrashes = 1
    MaxFaults = 1
    None = None
    Hosts <- MCHosts
INVARIANTS
    OneJob
    VerdictIsTrue
    HistoryIsTrue
    HealthyMeansWorking
PROPERTIES
    JobSettles
    PageFollows
