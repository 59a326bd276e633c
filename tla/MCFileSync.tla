------------------------------ MODULE MCFileSync ------------------------------
EXTENDS FileSync, TLC

\* Devices are alike, and so are contents.
Symmetry == Permutations(Devices) \cup Permutations(Contents)

\* With three devices: behaviours are followed until a CHECK ends a client or
\* events coalesce, after which Converges claims nothing.
Intact == mixed = {} /\ \A d \in Devices : hpc[d] # "ended"

\* A rash change and a start are not followed together.
OneTrouble == rash = 0 \/ starts = 0

\* Users who wait: lost answers are the only trouble.
Waits == rash = 0
=============================================================================
