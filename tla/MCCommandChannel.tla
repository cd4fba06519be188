-------------------------- MODULE MCCommandChannel --------------------------
(* Two commands of different kinds for one device and one for another, and a *)
(* request more than devices: one whose device is gone.                      *)
EXTENDS CommandChannel

CONSTANTS d1, d2, c1, c2, c3, x1, x2, x3

OneDevice    == {d1}
TwoDevices   == {d1, d2}
TwoCmds      == {c1, c2}
ThreeCmds    == {c1, c2, c3}
TwoHandlers  == {x1, x2}

AllFaults == {"track", "push", "resend", "pop", "lookup", "save",
              "record", "cut", "crash", "queueTTL", "lockTTL"}
NoFaults  == {}
OnlyCut   == {"cut"}

MCRpc      == [c \in Cmd |-> IF c = c1 THEN "GPV" ELSE "OTHER"]
MCProducer == [c \in Cmd |-> IF c = c2 THEN {"service"} ELSE {"sender", "scheduler"}]
MCDeviceOf == [c \in Cmd |-> IF c = c3 THEN d2 ELSE d1]

=============================================================================
