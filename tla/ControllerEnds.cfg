\* The same two devices with one case in each environment, under fairness.
CONSTANTS
    a = a
    b = b
    c = c
    x = x
    y = y
    d1 = d1
    d2 = d2
    Envs = {a, b, c}
    Devices = {d1, d2}
    Cases = {x}
    Queue <- MCQueue
    Wanted <- MCWanted
    MultiQueue <- MCMultiQueue
    Machine <- MCMachine
    Found <- MCFoundEnds
SPECIFICATION FairSpec
PROPERTIES RunEnds
