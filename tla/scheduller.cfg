\* Three tasks, two seconds; intervals wrap at five seconds.
SPECIFICATION Spec
CONSTANTS
    k1 = k1
    k2 = k2
    k3 = k3
    Tasks = {k1, k2, k3}
    Start <- MCStart
    MaxTime = 4
    Wrap = 5
    Off = Off
SYMMETRY MCSymmetry
INVARIANTS TypeOK TimerMeansTask SweepIsFilter LateIsFinal DueByStart
PROPERTIES FutureKept
