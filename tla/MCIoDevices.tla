---------------------------- MODULE MCIoDevices -----------------------------
(* Small instances of IoDevices. *)
EXTENDS IoDevices, TLC

CONSTANTS p1, p2, p3, disco, teclado

MCPids == {p1, p2, p3}
MCSockets == {1, 2}
MCNames == {disco, teclado}

\* Two instances of one device, which stay.
TwoInstances == [device |-> [s \in MCSockets |-> disco], mortal |-> {}]

\* Two devices, one of which may end.
TwoDevices == [device |-> [s \in MCSockets |-> IF s = 1 THEN disco ELSE teclado], mortal |-> {1}]

Both == {TwoInstances, TwoDevices}
Instances == {TwoInstances}

Symmetry == Permutations(MCPids)
=============================================================================
