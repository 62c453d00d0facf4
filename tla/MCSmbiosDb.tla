---------------------------- MODULE MCSmbiosDb ----------------------------
(* Values for SmbiosDb's constants that TLC can enumerate. *)
EXTENDS SmbiosDb

CONSTANTS Tag, Lengths

\* A byte is told apart by the record it came from and its place in it.
MCByte == ((Tag \cup {"zero"}) \X (0 .. 8))

MCRecord ==
    {[type |-> t, handle |-> h, len |-> n, bytes |-> [k \in 0 .. n - 1 |-> <<g, k>>]] :
        t \in {17, Invalidated}, h \in {1}, n \in Lengths, g \in Tag}

MCNUL == <<"zero", 0>>
=============================================================================
