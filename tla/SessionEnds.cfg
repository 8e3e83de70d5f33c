\* One memory case on two machines, with fairness: every invocation ends.
CONSTANTS
    t = t
    m = m
    here = here
    there = there
    v1 = v1
    v2 = v2
    Cases = {m}
    MemoryCases = {m}
    QueueCases = {}
    MemoryPoints = 2
    Placements = {here, there}
    Workers <- MCWorkers
    Iperfs = {v1}
    BugTypes = {"panic"}
    PipeCapacity = 1
    Jobs <- OneSelection
SPECIFICATION FairSpec
PROPERTIES InvocationEnds
