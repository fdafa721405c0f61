-------------------------- MODULE MCAppointments --------------------------
(* Small instances of Appointments for TLC.                                *)
EXTENDS Appointments, TLC

\* From instant 1 to instant 2, at one offset.
At(z) == [from |-> 1, to |-> 2, fromZone |-> z, toZone |-> z, format |-> "aware"]
UTCOnly == {At(0)}
TwoOffsets == {At(0), At(1)}

Symmetry == Permutations(Calls) \cup Permutations(Ids)
=============================================================================
