\* A case whose queue count follows the machine and a memory case, selected
\* one at a time; two machines that differ in their worker count.
CONSTANTS
    t = t
    m = m
    here = here
    there = there
    v1 = v1
    v2 = v2
    Cases = {t, m}
    MemoryCases = {m}
    QueueCases = {t}
    MemoryPoints = 1
    Placements = {here, there}
    Workers <- MCWorkers
    Iperfs = {v1}
    BugTypes = {"udp-no-payload"}
    PipeCapacity = 1
    Jobs <- SingleSelections
SPECIFICATION Spec
INVARIANTS SuccessIsComplete MeasuredHere
