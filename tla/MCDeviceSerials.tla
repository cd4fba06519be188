--------------------------- MODULE MCDeviceSerials ---------------------------
EXTENDS DeviceSerials, TLC

CONSTANTS s1, t1, t2, m1

OneSn       == {s1}
TwoTasks    == {t1, t2}
OneImporter == {m1}

\* No PUT claims an initialization that did not take place.
HonestOps  == {"create", "edit", "put", "delete"}
EditFaults == {"overlap", "importTTL", "db"}

\* Sound for a run that checks no liveness.
Symmetry == Permutations(TwoTasks)

=============================================================================
