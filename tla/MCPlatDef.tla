----------------------------- MODULE MCPlatDef -----------------------------
(***************************************************************************)
(* Instances of PlatDef for TLC: tables of five units behind the table's   *)
(* own record, with every choice of headers from a small set, so that the  *)
(* walks also lead into the middle of records and past the end.            *)
(***************************************************************************)
EXTENDS PlatDef

CONSTANTS Cells      \* how many units behind the first are chosen freely

Rec(type, size) == [Zero EXCEPT !.type = type, !.size = size]

Start == PLATDEF_BLOB_START

Table == Rec(TableData, 1)
End   == Rec(EndOfTable, 1)

Tables(first, headers) ==
    {[u \in Start..Start + Cells |-> IF u = Start THEN first ELSE f[u - Start]] :
        f \in [1..Cells -> headers]}

\* Sensors, fans, supplies: the kinds that are trimmed; records of no known
\* type, of no size, and of two units.  The last unit is an
\* end, of type 0, or a supply.
MCFiles ==
    {t \in Tables(Table,
        {End, Rec(0, 1), Rec(99, 1), Rec(3, 1), Rec(5, 1),
         Rec(5, 2), Rec(9, 0), [Rec(2, 1) EXCEPT !.hidden = TRUE], Rec(2, 1)}) :
        t[Start + Cells].type \in {EndOfTable, 0, 5}}

\* Devices, for 0x0202: slots, mega cells and others, and a record of no size.
Device(what) == [Rec(21, 1) EXCEPT !.device = what]

MCDeviceFiles ==
    Tables(Table,
        {End, Rec(5, 1), Rec(9, 1), Device("slot"), Device("other"), Device("megacell"), Rec(99, 0)})

\* A legacy file: an old table of one to three units, and a new one.
MCLegacyFiles ==
    UNION {Tables([Table EXCEPT !.legacy = TRUE, !.total = old],
              {End, Rec(9, 1), [Table EXCEPT !.total = 2],
               [Table EXCEPT !.total = 3], [Table EXCEPT !.total = 7]}) : old \in 0..3}

MCAllFiles == MCFiles \cup MCLegacyFiles \cup MCDeviceFiles
=============================================================================
