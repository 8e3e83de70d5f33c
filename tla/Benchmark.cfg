\* Cases of every kind with two tunnel processes and a curve of two points.
CONSTANTS
    t1 = t1
    t2 = t2
    Kinds = {"tcp", "udp", "memory"}
    Tunnels = {t1, t2}
    MemoryPoints = 2
SPECIFICATION FairSpec
INVARIANTS TypeOK NobodyForgotten NothingRuns CleanOrReported MeasuresAlone EndPossible
PROPERTIES Returns
