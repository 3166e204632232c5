------------------------ MODULE MCPropertyLifecycle ------------------------
(* Small instances of PropertyLifecycle: instants 1 and 3 are check-in     *)
(* hours, 2 and 4 check-out hours, with two instants to a day.             *)
EXTENDS PropertyLifecycle, TLC

TwoNights == {<<1, 2>>, <<3, 4>>}           \* back to back
OneNight == {<<1, 2>>}
Overlapping == {<<1, 2>>, <<1, 4>>, <<3, 4>>}
NoSuchHour == {<<3, 4>>}                    \* a check-in in a clock change
Confirming == {"CONFIRMED", "CANCELLED"}
AllSeverities == {"MEDIUM", "HIGH", "CRITICAL"}

Symmetry == Permutations(Tasks)
SymmetryWithIncidents == Permutations(Tasks) \cup Permutations(Incidents)
=============================================================================
