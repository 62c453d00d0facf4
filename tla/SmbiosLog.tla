----------------------------- MODULE SmbiosLog -----------------------------
(***************************************************************************)
(* What the in-memory SMBIOS database promises, without its index, its     *)
(* byte array or its offsets: an upload is a bounded log of the records    *)
(* the host sent.  A record that arrives is appended whole, or it is       *)
(* refused, and it is refused only if it is an invalidated one (type 218), *)
(* or the log has its maximal number of records, or the room left is       *)
(* smaller than the record.  A record once in the log stays there,         *)
(* unchanged and in its place, until the next upload begins.               *)
(***************************************************************************)
EXTENDS Integers, Sequences

CONSTANTS
    NumRec,         \* how many records the log may hold
    SzData,         \* how many bytes, counted in whole DWORDs, it may hold
    Record,         \* the records the host may send
    Invalidated,    \* the type of a deleted record, never logged
    Rounded(_)      \* the room a record of so many bytes takes

VARIABLES
    log,            \* the records of the current upload, oldest first
    used            \* the room they take

vars == <<log, used>>

Init == log = << >> /\ used = 0

\* A new upload forgets the previous one.
Begin == log' = << >> /\ used' = 0

HasRoom(r) == Len(log) < NumRec /\ used + r.len <= SzData

Wanted(r) == r.len > 0 /\ r.type # Invalidated

Keep(r) ==
    /\ Wanted(r)
    /\ HasRoom(r)
    /\ log' = Append(log, r)
    /\ used' = used + Rounded(r.len)

Refuse(r) ==
    /\ ~ (Wanted(r) /\ HasRoom(r))
    /\ UNCHANGED vars

Next == Begin \/ \E r \in Record : Keep(r) \/ Refuse(r)

Spec == Init /\ [][Next]_vars
=============================================================================
