--------------------------- MODULE MCSmbiosReader ---------------------------
(* Values for SmbiosReader's constants that TLC can enumerate.             *)
EXTENDS SmbiosReader

Row(t, h, n, kd, m, p) ==
    [type |-> t, handle |-> h, length |-> n, hlen |-> n, kind |-> kd, h17 |-> m, h4 |-> p]

\* Types: 0 a module (17), 1 a processor (4), 2 TYPE_MEM_LOC, 3 TYPE_CPQ_PROC,
\* 4 TYPE_DIMM_I2C, 5 TYPE_MUX, 6 the last type of all, which ALL leaves out.
Module(h)         == Row(0, h, 2, 0, 0, 0)
Processor(h)      == Row(1, h, 2, 0, 0, 0)
Location(h, m)    == Row(2, h, 2, 0, m, 0)
CpqProc(h, p)     == Row(3, h, 2, 0, 0, p)
Map(h, kd, m, p)  == Row(4, h, 2, kd, m, p)
Mux(h, n)         == Row(5, h, n, 0, 0, 0)
Last_(h)          == Row(6, h, 2, 0, 0, 0)
Long(t, h)        == Row(t, h, 4, 0, 0, 0)

Table(ours, rows) == [ours |-> ours, rows |-> rows]

\* A file an earlier firmware left; then two boots of this one.
MCTables == <<
    Table(FALSE, <<Module(7), Map(1, 1, 7, 8), ZeroRow, ZeroRow, ZeroRow, ZeroRow>>),
    Table(TRUE,  <<Location(2, 7), Map(1, 1, 7, 8), Map(3, 2, 7, 9), Module(7), Processor(8), CpqProc(6, 8)>>),
    Table(TRUE,  <<Mux(8, 2), Long(0, 5), Mux(7, 2), Module(9), Mux(4, 2), Last_(3)>>) >>

MCGarbage == {Map(7, 1, 7, 7), ZeroRow}

MCCommands ==
    {[do |-> "ALL"], [do |-> "TYPE", keys |-> <<0>>], [do |-> "TYPE", keys |-> <<6>>],
     [do |-> "MUX", keys |-> <<5>>], [do |-> "HANDLE", keys |-> <<7>>], [do |-> "HANDLE", keys |-> <<5>>],
     [do |-> "DIMM", keys |-> <<1>>], [do |-> "DIMM", keys |-> <<2, 3>>]}
=============================================================================
