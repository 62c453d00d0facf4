----------------------------- MODULE MCChifLoop -----------------------------
(***************************************************************************)
(* An instance of ChifLoop for TLC: one packet of every kind, three        *)
(* descriptors; three segments, of which the first two are the roots of    *)
(* engines too.                                                            *)
(***************************************************************************)
EXTENDS ChifLoop

CONSTANTS X, Y

Seg(id, ignore, mux) == [id |-> id, ignore |-> ignore, mux |-> mux]

Eng(id, segments) == [id |-> id, segments |-> segments]

\* In place, out of place, one too many; a segment of two engines, one that
\* is ignored, one named twice.
MCPlatforms ==
    { << >>,
      <<Eng(0, <<Seg(0, FALSE, X), Seg(2, FALSE, Y)>>), Eng(1, <<Seg(2, FALSE, X), Seg(2, TRUE, Y)>>)>>,
      <<Eng(1, <<Seg(0, FALSE, Y)>>), Eng(1, <<Seg(1, TRUE, X), Seg(2, FALSE, X), Seg(2, FALSE, Y)>>),
        Eng(2, <<Seg(0, FALSE, X)>>)>> }

MCMappings ==
    {<< >>, <<<<X, 7>>, <<Y, 8>>, <<X, 9>>>>, <<BadLine, <<X, 7>>, <<Y, 8>>>>, <<<<Y, 8>>, <<Y, 9>>>>}

P(service, command, first) == [service |-> service, command |-> command, first |-> first]

MCPackets ==
    {P(SMIF_SERVICE_ID, c, 0) : c \in {\h0002, \h0174, \h0035, \h0001, GetNetwork, GetNic,
                                       GetIpv6, GetEvByIndex, GetEv, EvStatus, AddEvent, GetRecords}}
        \cup {P(SMIF_SERVICE_ID, EvCommand, op) : op \in {SetEV, DelEV, ClearEV, 8}}
        \cup {P(SMIF_SERVICE_ID, IoBits, op) : op \in {SMIF_GET_CPLD, 4, 11}}
        \cup {P(ROM_SERVICE_ID, c, 0) : c \in {4, 9}}
        \cup {P(TRITON_SERVICE_ID, c, 0) : c \in {6, 7}}
        \cup {P(CHIF_SERVICE_ID_EMBMEDIA, c, 3) : c \in {4, 5}}
        \cup {P(CHIF_SERVICE_ID_HEALTH, 1, 28), P(9, 1, 0)}

MCI2cPackets ==
    {[address |-> a, segment |-> s, read_len |-> n] :
        a \in Addresses, s \in 0 .. I2C_SEGMENT_COUNT, n \in ReadLens}
        \cup {[address |-> BadAddress, segment |-> I2C_SEGMENT_COUNT, read_len |-> 0]}

MCMuxes == {ZeroMux, X, Y}

MCBytes == {1, 2}
=============================================================================
