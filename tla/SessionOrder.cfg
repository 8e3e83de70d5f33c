\* A throughput case and a memory case with a partial curve, one machine: the
\* order in which cases are run, retried and given up.
CONSTANTS
    t = t
    m = m
    here = here
    there = there
    v1 = v1
    v2 = v2
    Cases = {t, m}
    MemoryCases = {m}
    QueueCases = {}
    MemoryPoints = 2
    Placements = {here}
    Workers <- MCWorkers
    Iperfs = {v1}
    BugTypes = {"panic"}
    PipeCapacity = 1
    Jobs <- OneSelection
SPECIFICATION Spec
INVARIANTS TypeOK Resumable LastReportSettled
PROPERTIES CleanStart FailFastStops VerdictsFinal
