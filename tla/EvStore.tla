------------------------------ MODULE EvStore ------------------------------
(***************************************************************************)
(* The environment variables (EVs) the host's firmware keeps in the BMC:   *)
(* src/src/ev.cpp and its callers SmifPkt_012b, 012c, 0130 and 0132 of     *)
(* src/src/smif.cpp.                                                       *)
(*                                                                         *)
(* EVs are in a file, one after the other, each a header (name and size)   *)
(* and its data; the daemon keeps a linked list of names with the offset   *)
(* of each header, and rewrites the whole file for every set and delete.   *)
(* A rewrite is a sequence of steps: one for each library call that        *)
(* changes a file and one for each node of the list, with a stop of the    *)
(* daemon possible between any two.                                        *)
(*                                                                         *)
(* A file is a sequence of cells, offsets count cells: a header is one     *)
(* cell (sizeof(struct ev) = 34 bytes), a datum another.  The list is a    *)
(* sequence of nodes; `back' says whether a node's backward pointer leads  *)
(* to its predecessor (it is NULL otherwise), which is all that insque()   *)
(* and remque() depend on.  Names are NUL-terminated within their 32       *)
(* bytes, as the code expects of all but the name to delete.               *)
(***************************************************************************)
EXTENDS Integers, Sequences, SequencesExt, FiniteSets

CONSTANTS
    Name,           \* names the host uses
    CQHMEM,         \* the name whose data get-by-index replaces
    JunkName,       \* the name read where no header is
    Data,           \* data the host sets, non-empty sequences of data cells
    MemData,        \* what get-by-index answers for CQHMEM
    Absent,         \* no such file
    Missing,        \* no such EV
    EV_DATA_MAX_LEN,    \* the most data an EV may have
    MAX_SZ,             \* EV_FILE_MAX_SIZE - EV_FILE_HEADER, in cells
    SIZE_MOD,           \* 2^32: rem_sz is a uint32_t
    Faults,         \* which of "open", "write" may fail
    DeletesFirst,   \* whether the host deletes the first EV of the list
    MaxNodes,       \* bound: EVs in the list
    MaxCrashes,     \* bound: restarts of the daemon
    MaxFaults       \* bound: failing library calls

Hdr(name, size) == [kind |-> "hdr", name |-> name, size |-> size]
JunkCell == [kind |-> "dat", of |-> JunkName]

\* The longest datum the host sends; junk sizes need be no larger.
MaxLen == Max({Len(d) : d \in Data})

\* What a file is made of.
DataCell == UNION {{d[k] : k \in DOMAIN d} : d \in Data}
Header   == {Hdr(name, size) : name \in Name \cup {JunkName}, size \in 0 .. MaxLen}
Cell     == Header \cup DataCell \cup {JunkCell}

ASSUME EvAssumption ==
    /\ JunkName \notin Name
    /\ Data \subseteq Seq(DataCell) /\ << >> \notin Data
    /\ \E d \in Data : \A f \in Data : Len(f) <= Len(d)
    /\ \A c \in DataCell : c.kind = "dat"
    /\ Absent \notin Seq(Cell) \cup Cell /\ Missing \notin Seq(Cell)
    /\ EV_DATA_MAX_LEN \in Nat /\ MAX_SZ \in Nat /\ SIZE_MOD \in Nat \ {0}
    /\ Faults \subseteq {"open", "write"} /\ DeletesFirst \in BOOLEAN
    /\ MaxNodes \in Nat /\ MaxCrashes \in Nat /\ MaxFaults \in Nat

VARIABLES
    evs,            \* EV_FILE, /home/root/evs.dat
    tmp,            \* EV_TMP, /home/root/evs.tmp
    list,           \* the nodes from head on
    pc,             \* the step that comes next
    op,             \* the set or delete being carried out
    n,              \* the node the rewrite has come to
    out,            \* what has been written to the new file
    e,              \* the local struct ev: the last header read
    buf,            \* the local data buffer, with what it still holds
    off,            \* where initEV() reads next
    reply,          \* the last answer, until the next set or delete begins
    skewed,         \* history: list and file were left in disagreement
    want,           \* history: the contents the store may have just now
    guarded,        \* history: no second rewrite since a copy was left behind
    crashes, faults

files   == <<evs, tmp>>
rewrite == <<op, n, out, e, buf>>
history == <<skewed, want, guarded>>
bounds  == <<crashes, faults>>
vars    == <<files, list, pc, rewrite, off, reply, history, bounds>>

-----------------------------------------------------------------------------
(* Cells and files.                                                        *)

EvRecord(name, data) == <<Hdr(name, Len(data))>> \o data

\* fread(&e, sizeof(struct ev), 1, fp) at an offset: nothing at the end of
\* the file, and whatever the bytes happen to mean where no header is.
HeadersAt(file, at) ==
    IF at >= Len(file) THEN {}
    ELSE IF file[at + 1].kind = "hdr" THEN {file[at + 1]}
         ELSE {Hdr(JunkName, size) : size \in {0, MaxLen}}

\* fread() of the data behind the header: as much as the file has.
DataAt(file, at, size) == SubSeq(file, at + 2, Min({at + 1 + size, Len(file)}))

\* The buffer after fread() has put data at its start.
Filled(data) ==
    [k \in 1 .. MaxLen |-> IF k <= Len(data) THEN data[k] ELSE buf[k]]

JunkBuf == [k \in 1 .. MaxLen |-> JunkCell]

-----------------------------------------------------------------------------
(* The list.                                                               *)

Node(name, offset, back) == [name |-> name, offset |-> offset, back |-> back]

Named(name) == {k \in DOMAIN list : list[k].name = name}

\* remque(): the neighbours are joined through the node's own pointers, and
\* head is a variable of its own that is not among them.  A node without a
\* backward pointer stays reachable; its successor loses its own.
RemQue(nodes, k) ==
    IF nodes[k].back
    THEN [j \in 1 .. Len(nodes) - 1 |->
             IF j = k THEN [nodes[j + 1] EXCEPT !.back = TRUE]
             ELSE IF j < k THEN nodes[j] ELSE nodes[j + 1]]
    ELSE [j \in 1 .. Len(nodes) |->
             IF j = k + 1 THEN [nodes[j] EXCEPT !.back = FALSE] ELSE nodes[j]]

-----------------------------------------------------------------------------
(* What a file says, read from its start as initEV() does.                 *)

\* The nodes initEV() would build; for a file with no header out of place.
Walk(file) ==
    LET from[at \in 0 .. Len(file)] ==
            IF at = Len(file) THEN << >>
            ELSE LET h == file[at + 1] IN
                 IF h.kind # "hdr" THEN << >>
                 ELSE <<Node(h.name, at, at > 0)>>
                      \o (IF at + 1 + h.size > Len(file) THEN << >>
                          ELSE from[at + 1 + h.size])
    IN  from[0]

\* Whole records only, from the first cell to the last.
WellFormed(file) ==
    LET ok[at \in 0 .. Len(file)] ==
            \/ at = Len(file)
            \/ /\ file[at + 1].kind = "hdr"
               /\ at + 1 + file[at + 1].size <= Len(file)
               /\ ok[at + 1 + file[at + 1].size]
    IN  ok[0]

EmptyDict == [name \in Name |-> Missing]

\* The store a file stands for: of each name the first record counts.
DictOf(file) ==
    LET from[at \in 0 .. Len(file)] ==
            IF at = Len(file) THEN EmptyDict
            ELSE LET h == file[at + 1]
                     next == at + 1 + (IF h.kind = "hdr" THEN h.size ELSE 0) IN
                 IF h.kind # "hdr" \/ next > Len(file) THEN EmptyDict
                 ELSE IF h.name \notin Name THEN from[next]
                 ELSE [from[next] EXCEPT ![h.name] = DataAt(file, at, h.size)]
    IN  from[0]

-----------------------------------------------------------------------------
(* The daemon starts: initEV().                                            *)

NoOp == [cmd |-> "none", name |-> JunkName, data |-> << >>]
NoReply == [cmd |-> "none"]

Idle == op' = NoOp /\ n' = 0 /\ out' = << >> /\ e' = Absent /\ buf' = JunkBuf

Init ==
    /\ evs = << >> /\ tmp = Absent
    /\ list = << >>
    /\ pc = "load" /\ off = 0
    /\ op = NoOp /\ n = 0 /\ out = << >> /\ e = Absent /\ buf = JunkBuf
    /\ reply = NoReply
    /\ skewed = FALSE /\ want = {EmptyDict} /\ guarded = TRUE
    /\ crashes = 0 /\ faults = 0

LoadNext ==
    /\ pc = "load"
    /\ \/ /\ off < Len(evs)
          /\ \E h \in HeadersAt(evs, off) :
                /\ list' = Append(list, Node(h.name, off, off > 0))
                /\ off' = off + 1 + h.size
          /\ UNCHANGED <<pc, skewed>>
       \/ /\ off >= Len(evs)
          /\ pc' = "idle"
          /\ skewed' = ~ WellFormed(evs)
          /\ UNCHANGED <<list, off>>
    /\ UNCHANGED <<files, rewrite, reply, want, guarded, bounds>>

-----------------------------------------------------------------------------
(* Set and delete: SmifPkt_012c(), setEV() and delEV().                    *)

Answer(cmd, code) == reply' = [cmd |-> cmd, code |-> code]

Refuse(cmd, code) ==
    /\ Answer(cmd, code)
    /\ UNCHANGED <<files, list, pc, rewrite, off, history, bounds>>

\* More data than an EV may have: ErrorCode 4.  A name to delete that is not
\* NUL-terminated: 3.  Flags that are neither of the three: 5.
SetTooLarge ==
    /\ pc = "idle"
    /\ \E d \in Data : Len(d) > EV_DATA_MAX_LEN
    /\ Refuse("set", 4)

DeleteBadName == pc = "idle" /\ Refuse("del", 3)

BadFlags == pc = "idle" /\ Refuse("flags", 5)

\* Wrong: as if a rename() of a file that is not there took the copy along.
RenameOver == tmp' = evs /\ evs' = Absent

\* rename(EV_FILE, EV_TMP), whose result is not looked at.
RenameAway ==
    /\ tmp' = IF evs = Absent THEN tmp ELSE evs
    /\ evs' = Absent

\* A rewrite overwrites the copy an earlier one left behind.
Exposed == evs = Absent \/ (WellFormed(evs) /\ DictOf(evs) \in want)

Start(cmd, name, data) ==
    /\ op' = [cmd |-> cmd, name |-> name, data |-> data]
    /\ RenameAway
    /\ pc' = "create"
    /\ guarded' = (guarded /\ ~ skewed /\ Exposed)
    /\ want' = want \cup
         {[d EXCEPT ![name] = IF cmd = "set" THEN data ELSE Missing] : d \in want}
    /\ reply' = NoReply
    /\ UNCHANGED <<list, n, out, e, buf, off, skewed, bounds>>

SetStart(name, data) ==
    /\ pc = "idle"
    /\ Len(data) <= EV_DATA_MAX_LEN
    /\ Named(name) # {} \/ Len(list) < MaxNodes
    /\ Start("set", name, data)

\* Flags 2, and flags 1 with a size of 0, which falls through to it.
DeleteStart(name) ==
    /\ pc = "idle"
    /\ Named(name) # {}
    /\ 1 \in Named(name) => DeletesFirst
    /\ Start("del", name, << >>)

\* "not found" is a success.
DeleteMissing(name) ==
    /\ pc = "idle"
    /\ Named(name) = {}
    /\ Refuse("del", 0)

\* fopen(EV_FILE, "w"); setEV() tries it twice.  On failure the rename is
\* not undone.
Create ==
    /\ pc = "create"
    /\ \/ /\ evs' = << >>
          /\ pc' = "copy" /\ n' = 1
          /\ UNCHANGED <<op, out, e, buf, reply, faults>>
       \/ /\ "open" \in Faults /\ faults < MaxFaults
          /\ faults' = faults + 1
          /\ Answer(op.cmd, 1)
          /\ pc' = "idle" /\ Idle
          /\ UNCHANGED evs
    /\ UNCHANGED <<tmp, list, off, history, crashes>>

Rewriting == pc = "copy" /\ n <= Len(list)

Matches == list[n].name = op.name

\* Wrong: the node keeps its place in the old file.
NodeKept(written) ==
    /\ out' = out \o written
    /\ n' = n + 1
    /\ UNCHANGED <<files, list, pc, op, off, reply, history, bounds>>

\* What every turn of the loop does: the node gets its place in the new file.
NodeMoved(written) ==
    /\ list' = [list EXCEPT ![n].offset = Len(out)]
    /\ out' = out \o written
    /\ n' = n + 1
    /\ UNCHANGED <<files, pc, op, off, reply, history, bounds>>

CopyMatching ==
    /\ Rewriting /\ Matches
    /\ NodeMoved(IF op.cmd = "set" THEN EvRecord(op.name, op.data) ELSE << >>)
    /\ buf' = Filled(op.data)
    /\ UNCHANGED e

\* A record is copied; setEV() writes no data at all if it read none.
CopyOther ==
    /\ Rewriting /\ ~ Matches
    /\ \E h \in HeadersAt(tmp, list[n].offset) :
         LET data == DataAt(tmp, list[n].offset, h.size) IN
         /\ NodeMoved(<<h>> \o (IF op.cmd = "set" /\ data = << >> THEN << >>
                                ELSE SubSeq(Filled(data), 1, h.size)))
         /\ buf' = Filled(data)
         /\ e' = h

\* There is no header where the node points.  delEV() writes the header it
\* read last, or the uninitialised one, with what is in the buffer.
CopyNothing ==
    /\ Rewriting /\ ~ Matches
    /\ op.cmd = "del"
    /\ HeadersAt(tmp, list[n].offset) = {}
    /\ \E h \in IF e # Absent THEN {e} ELSE {Hdr(JunkName, 0), Hdr(JunkName, MaxLen)} :
         NodeMoved(<<h>> \o SubSeq(buf, 1, h.size))
    /\ UNCHANGED <<e, buf>>

\* setEV() calls exit(0), which writes out what the new file has so far.
Restart ==
    /\ list' = << >> /\ pc' = "load" /\ off' = 0
    /\ Idle
    /\ skewed' = FALSE

ExitInSet ==
    /\ Rewriting /\ ~ Matches
    /\ op.cmd = "set"
    /\ HeadersAt(tmp, list[n].offset) = {}
    /\ evs' = out
    /\ Restart
    /\ guarded' = FALSE
    /\ UNCHANGED <<tmp, reply, want, bounds>>

\* Wrong: the copy is removed before the new file is closed.
FinishSetEarly ==
    /\ pc = "copy" /\ n > Len(list) /\ op.cmd = "set"
    /\ \/ Named(op.name) # {} /\ UNCHANGED <<list, out>>
       \/ /\ Named(op.name) = {}
          /\ list' = Append(list, Node(op.name, Len(out), list # << >>))
          /\ out' = out \o EvRecord(op.name, op.data)
    /\ pc' = "close" /\ tmp' = Absent
    /\ UNCHANGED <<evs, op, n, e, buf, off, reply, history, bounds>>

\* The end of the loop: a new EV is appended, a deleted one unlinked.  If its
\* name was there twice only the last of them is.
FinishSet ==
    /\ pc = "copy" /\ n > Len(list) /\ op.cmd = "set"
    /\ \/ Named(op.name) # {} /\ UNCHANGED <<list, out>>
       \/ /\ Named(op.name) = {}
          /\ list' = Append(list, Node(op.name, Len(out), list # << >>))
          /\ out' = out \o EvRecord(op.name, op.data)
    /\ pc' = "close"
    /\ UNCHANGED <<files, op, n, e, buf, off, reply, history, bounds>>

FinishDelete ==
    /\ pc = "copy" /\ n > Len(list) /\ op.cmd = "del"
    /\ list' = RemQue(list, Max(Named(op.name)))
    /\ skewed' = (skewed \/ \E k \in DOMAIN list' : list'[k].name = op.name)
    /\ pc' = "close"
    /\ UNCHANGED <<files, rewrite, off, reply, want, guarded, bounds>>

\* fclose() writes the file (the fsync() before it finds nothing to write
\* but full buffers); what does not fit is lost unnoticed.
Close ==
    /\ pc = "close"
    /\ \/ evs' = out /\ UNCHANGED <<faults, skewed, guarded>>
       \/ /\ "write" \in Faults /\ faults < MaxFaults
          /\ faults' = faults + 1
          /\ \E p \in Prefixes(out) \ {out} : evs' = p
          /\ skewed' = TRUE /\ guarded' = FALSE
    /\ pc' = "remove"
    /\ UNCHANGED <<tmp, list, rewrite, off, reply, want, crashes>>

RemoveTmp ==
    /\ pc = "remove"
    /\ tmp' = Absent
    /\ Answer(op.cmd, 0)
    /\ want' = {[d EXCEPT ![op.name] = IF op.cmd = "set" THEN op.data ELSE Missing]
                   : d \in want}
    /\ pc' = "idle" /\ Idle
    /\ UNCHANGED <<evs, list, off, skewed, guarded, bounds>>

\* Wrong: head still has the nodes of the old file.
ClearFile ==
    /\ pc = "idle"
    /\ evs' = << >>
    /\ Answer("clear", 0)
    /\ skewed' = FALSE /\ want' = {EmptyDict} /\ guarded' = TRUE
    /\ UNCHANGED <<list, tmp, pc, rewrite, off, bounds>>

\* Flags 4: clearEV().
ClearEV ==
    /\ pc = "idle"
    /\ evs' = << >> /\ list' = << >>
    /\ Answer("clear", 0)
    /\ skewed' = FALSE /\ want' = {EmptyDict} /\ guarded' = TRUE
    /\ UNCHANGED <<tmp, pc, rewrite, off, bounds>>
-----------------------------------------------------------------------------
(* Reading: SmifPkt_0130(), 012b() and 0132().                             *)

\* A header of which the data are short, or there is none: ErrorCode 1.
ReadAt(file, at) ==
    IF file = Absent THEN {[code |-> 1]}
    ELSE IF HeadersAt(file, at) = {} THEN {[code |-> 1]}
    ELSE {IF Len(DataAt(file, at, h.size)) < h.size THEN [code |-> 1]
          ELSE [code |-> 0, name |-> h.name, data |-> DataAt(file, at, h.size)]
             : h \in HeadersAt(file, at)}

\* getEVbyName(): the first node of that name; ErrorCode 2 if there is none.
\* The answer carries the name asked for, not the one in the file.
ByName(name) ==
    IF Named(name) = {} THEN {[code |-> 2]}
    ELSE {IF r.code = 0 THEN [r EXCEPT !.name = name] ELSE r
             : r \in ReadAt(evs, list[Min(Named(name))].offset)}

\* getEVbyIndex(), and the data SmifPkt_012b() puts in for CQHMEM.
ByIndex(i) ==
    IF i + 1 \notin DOMAIN list THEN {[code |-> 2]}
    ELSE {IF r.code = 0 /\ r.name = CQHMEM THEN [r EXCEPT !.data = MemData] ELSE r
             : r \in ReadAt(evs, list[i + 1].offset)}

Status ==
    LET st_size == IF evs = Absent THEN 0 ELSE Len(evs) IN
    [code |-> 0, rem_sz |-> (MAX_SZ - st_size) % SIZE_MOD,
     present_evs |-> Len(list)]

Read(r) ==
    /\ pc = "idle"
    /\ reply' = r
    /\ UNCHANGED <<files, list, pc, rewrite, off, history, bounds>>

GetByName(name) == \E r \in ByName(name) : Read([cmd |-> "get", answer |-> r])

GetByIndex(i) == \E r \in ByIndex(i) : Read([cmd |-> "index", answer |-> r])

GetStatus == Read([cmd |-> "status", answer |-> Status])

-----------------------------------------------------------------------------
(* The daemon is stopped between two steps and started again.  Of a file    *)
(* that is being written some part is there; fopen(EV_FILE, "a+") makes it *)
(* if it is not.                                                           *)

Crash ==
    /\ crashes < MaxCrashes
    /\ crashes' = crashes + 1
    /\ \/ pc \in {"copy", "close"} /\ \E p \in Prefixes(out) : evs' = p
       \/ /\ pc \notin {"copy", "close"}
          /\ evs' = IF evs = Absent THEN << >> ELSE evs
    /\ Restart
    /\ reply' = NoReply
    /\ UNCHANGED <<tmp, want, guarded, faults>>

Next ==
    \/ LoadNext
    \/ SetTooLarge \/ DeleteBadName \/ BadFlags
    \/ \E name \in Name, data \in Data : SetStart(name, data)
    \/ \E name \in Name : DeleteStart(name) \/ DeleteMissing(name)
    \/ Create
    \/ CopyMatching \/ CopyOther \/ CopyNothing \/ ExitInSet
    \/ FinishSet \/ FinishDelete
    \/ Close \/ RemoveTmp
    \/ ClearEV
    \/ \E name \in Name : GetByName(name)
    \/ \E i \in 0 .. MaxNodes : GetByIndex(i)
    \/ GetStatus
    \/ Crash

Spec == Init /\ [][Next]_vars
-----------------------------------------------------------------------------
(* Properties.                                                             *)

IsFile(f) == f = Absent \/ (f \in Seq(Cell))

\* Every node has a name, an offset in its file and a backward pointer that
\* is set or not; the files are headers and data (ev.cpp:27-37, ev.hpp:33-43).
EvTypeOK ==
    /\ IsFile(evs) /\ IsFile(tmp) /\ evs = Absent => tmp # Absent
    /\ \A k \in DOMAIN list :
          /\ list[k].name \in Name \cup {JunkName}
          /\ list[k].offset \in Nat /\ list[k].back \in BOOLEAN
    /\ pc \in {"load", "idle", "create", "copy", "close", "remove"}
    /\ n \in Nat /\ off \in Nat
    /\ out \in Seq(Cell) /\ buf \in [1 .. MaxLen -> Cell]
    /\ e = Absent \/ e \in Cell

\* The file in which the EVs are: where the rewrite could not make a new one
\* (ev.cpp:283-285, 379-381) the old one has been renamed.
Current == IF pc \in {"create", "copy", "close"} \/ evs = Absent THEN tmp ELSE evs

\* What the host reads is what the file holds: whatever sets, deletes, clears,
\* failures to open the file and restarts went before, the list setEV() and
\* delEV() keep up to date (ev.cpp:294, 335, 389, 412) leads getEVbyName() to
\* the data of exactly the EVs in the file, and counts them.  It is only the
\* deletion of the first EV and a file cut short that leave them apart.
ReadsAgree ==
    (pc = "idle" /\ ~ skewed /\ evs # Absent) =>
        /\ Status.present_evs = Len(Walk(evs))
        /\ LET d == DictOf(evs) IN
           \A name \in Name :
              ByName(name) = IF d[name] = Missing THEN {[code |-> 2]}
                             ELSE {[code |-> 0, name |-> name, data |-> d[name]]}

\* Wherever the daemon is stopped in a rewrite, EV_FILE or EV_TMP has all the
\* EVs, either as they were or as they are to be (the order of rename(),
\* fclose() and remove(), ev.cpp:275-352, 374-419).  initEV() does not look
\* at EV_TMP, so the next rewrite overwrites the one whole copy: from then on
\* nothing is promised until the EVs are cleared.
OneWholeCopy ==
    guarded => \E file \in {evs, tmp} \ {Absent} :
                  WellFormed(file) /\ DictOf(file) \in want

\* A set or a delete changes the one EV it names and nothing else, all at once
\* when the new file is closed, or not at all when it cannot be opened
\* (ev.cpp:264-422); where the daemon is not stopped and the first EV of the
\* list is not deleted.
Dict == INSTANCE EvDict WITH dict <- DictOf(Current)

ImplementsDict == Dict!Spec

\* "remove del ev from head" (ev.cpp:412): after a delete that was answered
\* with success the list has no EV of that name.
DeletedIsGone ==
    [][(op.cmd = "del" /\ reply'.cmd = "del" /\ reply'.code = 0 /\ pc' = "idle")
          => \A k \in DOMAIN list' : list'[k].name # op.name]_vars
=============================================================================
