\* Two devices, one of them with two environments; one environment has two
\* cases, one of them of several queues, the others have one case each.
CONSTANTS
    a = a
    b = b
    c = c
    x = x
    y = y
    d1 = d1
    d2 = d2
    Envs = {a, b, c}
    Devices = {d1, d2}
    Cases = {x, y}
    Queue <- MCQueue
    Wanted <- MCWanted
    MultiQueue <- MCMultiQueue
    Machine <- MCMachine
    Found <- MCFound
SPECIFICATION Spec
INVARIANTS TypeOK SuccessMeansAll ProgressRight
PROPERTIES NoStartAfterFailure VerdictsStay ClosedOnlyComplete
