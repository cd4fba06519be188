-------------------------- MODULE MCDeviceRegistry --------------------------
EXTENDS DeviceRegistry, TLC

CONSTANTS s1, s2, s3, t1, t2, m1

OneSn    == {s1}
TwoSns   == {s1, s2}
ThreeSns == {s1, s2, s3}

OneTask  == {t1}
TwoTasks == {t1, t2}

NoImporter  == {}
OneImporter == {m1}

NoOps      == {}
OnlyDelete == {"delete"}

NoFaults     == {}
InformFaults == {"db", "push", "crash"}
LiveFaults   == {"db", "push", "lockTTL", "crash"}

\* Sound for the run that only checks invariants.
Symmetry == Permutations(ThreeSns) \cup Permutations(TwoTasks)

=============================================================================
