--------------------------- MODULE MCSmbiosUpload ---------------------------
(* Values for SmbiosUpload's constants that TLC can enumerate. *)
EXTENDS SmbiosUpload

\* A byte is told apart by the record it came from and its place in it.
MCByte == {"zero", "a", "b", "x"} \X (0 .. 5)
MCNUL == <<"zero", 0>>

Rec(t, h, n, g) ==
    [type |-> t, handle |-> h, len |-> n, bytes |-> [k \in 0 .. n - 1 |-> <<g, k>>]]

Small   == Rec(17, 1, 3, "a")
Large   == Rec(4, 2, 5, "b")
Deleted == Rec(Invalidated, 3, 2, "x")

MCRecord == {Small, Large, Deleted}
MCBlobs  == {<<Small>>, <<Deleted, Large>>}
=============================================================================
