\* Two environments, two releases of each software, one kill, power failure
\* or download by another invocation.
CONSTANTS
    hev = hev
    box = box
    iperf3 = iperf3
    linux = linux
    win = win
    win64 = win64
    near = near
    far = far
    Software = {hev, box, iperf3}
    Target = {linux, win, win64}
    Assets <- MCAssets
    Digested = {hev, iperf3}
    Helped <- MCHelped
    Disturbances = 1
    Place = {near, far}
    TargetOf <- MCTargetOf
    HasIperf = {}
    Order <- MCOrder
    Jobs <- MCJobs
    SoftwareBy <- MCSoftwareBy
    FromPackage = {"box"}
    Wishes <- MCWishes
    Iperf = iperf3
    SingBox = box
    Socks = {hev}
    Emulated <- MCEmulated
SPECIFICATION Spec
INVARIANTS OneVersion OnlyWhole Runnable
