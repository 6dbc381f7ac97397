---------------------------- MODULE MCOwnership ----------------------------
(* Small instances of Ownership for TLC: the faults each run injects.      *)
EXTENDS Ownership, TLC

Faults(c, h, l, e, d) ==
    [k \in Kinds |-> CASE k = "crash" -> c [] k = "shutdown" -> h [] k = "lapse" -> l
                       [] k = "error" -> e [] k = "delete" -> d]

FleetFaults    == {Faults(1, 0, 0, 2, 0)}
TeardownFaults == {Faults(0, 1, 1, 1, 0), Faults(0, 0, 1, 1, 1), Faults(0, 1, 0, 1, 1),
                   Faults(0, 1, 1, 0, 1)}
GracefulFaults == {Faults(0, 1, 0, 0, 0)}
DeleteFaults   == {Faults(0, 0, 0, 0, 1)}

WorkerSymmetry == Permutations(Workers)
=============================================================================
