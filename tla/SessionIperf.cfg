\* Two throughput cases selected together or apart, one machine whose iperf3
\* may be replaced between invocations.
CONSTANTS
    t = t
    m = m
    here = here
    there = there
    v1 = v1
    v2 = v2
    Cases = {t, m}
    MemoryCases = {}
    QueueCases = {}
    MemoryPoints = 1
    Placements = {here}
    Workers <- MCWorkers
    Iperfs = {v1, v2}
    BugTypes = {}
    PipeCapacity = 1
    Jobs <- AllSelections
SPECIFICATION Spec
INVARIANTS MeasuredHere
