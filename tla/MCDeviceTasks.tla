---------------------------- MODULE MCDeviceTasks ----------------------------
EXTENDS DeviceTasks, TLC

CONSTANTS e1, e2, r1, r2

TwoElements == {e1, e2}
\* Two devices, and one device that is listed twice.
TwoLists == {<<e1, e2>>, <<e1, e1>>}
TwoRequests == {r1, r2}
\* A reset goes through the same steps as a reboot.
ThreeKinds == {"upgrade", "rollback", "reboot"}

=============================================================================
