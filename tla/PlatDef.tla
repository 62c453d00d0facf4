------------------------------ MODULE PlatDef ------------------------------
(***************************************************************************)
(* The platform definition: src/src/platdef_api.cpp, its start in          *)
(* src/src/uefi_util.cpp and the command 0x0202 of src/src/smif.cpp that   *)
(* reads it.  (The searches by ID and by type of the same file belong to   *)
(* 0x0200, which is answered "not implemented", smif.cpp:2286-2288; no     *)
(* command reaches them, and they are left out.)                           *)
(*                                                                         *)
(* The definition is a table of records in memory, each with a header that *)
(* has the record's type and its size in units of 16 bytes.  At start the  *)
(* daemon walks over it twice: to count the records of every kind, and to  *)
(* note where they are, in one array with a section for each kind.  The    *)
(* host's command 0x0202 looks up records in that directory.  One turn of  *)
(* a loop is one step.                                                     *)
(*                                                                         *)
(* A position is a number of units from the start of the array `platdef'.  *)
(* The data that does not steer the walks is left out of the records.      *)
(***************************************************************************)
EXTENDS Integers, Sequences, SequencesExt, FiniteSets

CONSTANTS
    Files,                  \* the tables the file may hold, uncompressed
    PLATDEF_BLOB_START,     \* where the table begins
    PLATDEF_SIZE,           \* limits for the two tables of a legacy file
    PLATDEF_MEM_REGION_SIZE,
    PLATDEF_MAX_RECORDS,
    PLATDEF_MAX_FAN_PWM,
    PLATDEF_MAX_TEMP_SENSOR,
    PLATDEF_MAX_POWER_SUPPLY,
    PLATDEF_MAX_REDUNDANCY_RULE,
    PLATDEF_MAX_HEALTH_DEVICES,
    MAX_NUM_ENTITIES,       \* entries in an answer to 0x0202
    UINT8_MOD, UINT16_MOD   \* 2^8 and 2^16

\* The value of a header where the array holds zeros.
Zero == [type |-> 0, size |-> 0, hidden |-> FALSE,
         legacy |-> FALSE, total |-> 0, device |-> "other"]

IsHeader(h) ==
    /\ h.type \in 0..255 /\ h.size \in 0..255
    /\ h.hidden \in BOOLEAN /\ h.legacy \in BOOLEAN /\ h.total \in Nat
    /\ h.device \in {"slot", "megacell", "other"}

ASSUME PlatDefAssumption ==
    /\ PLATDEF_BLOB_START \in Nat \ {0}
    /\ PLATDEF_SIZE \in Nat /\ PLATDEF_MEM_REGION_SIZE \in Nat
    /\ PLATDEF_MAX_RECORDS \in Nat
    /\ PLATDEF_MAX_FAN_PWM \in Nat /\ PLATDEF_MAX_TEMP_SENSOR \in Nat
    /\ PLATDEF_MAX_POWER_SUPPLY \in Nat /\ PLATDEF_MAX_REDUNDANCY_RULE \in Nat
    /\ PLATDEF_MAX_HEALTH_DEVICES \in Nat
    /\ MAX_NUM_ENTITIES \in Nat
    /\ UINT8_MOD \in Nat \ {0} /\ UINT16_MOD \in Nat
    /\ PLATDEF_MAX_RECORDS + 1 < UINT16_MOD
    /\ \A f \in Files :
          /\ PLATDEF_BLOB_START \in DOMAIN f /\ IsFiniteSet(DOMAIN f)
          /\ \A u \in DOMAIN f : u \in Nat /\ IsHeader(f[u])

VARIABLES
    file,           \* the table as it was in the file
    mem,            \* the table in memory, from PLATDEF_BLOB_START on
    record_count, count, first_index, records,  \* the members of *meta
    pc,             \* the loop that runs, or "ready"
    p,              \* blob_ptr
    j, index,       \* assign_all_first_indexes(): the next kind and index
    result,         \* what platdef_meta_load() returned
    got,            \* the records found for the request so far
    i,              \* the index of the directory lookup that comes next
    answer,         \* the last answer, until the next request
    walk            \* history: the positions the first pass has counted

meta    == <<record_count, count, first_index, records>>
loading == <<j, index, result, walk>>
asking  == <<got, i, answer>>
vars    == <<file, mem, meta, pc, p, loading, asking>>

-----------------------------------------------------------------------------
(* Records and their kinds.                                                *)

Undefined  == 0
TableData  == 1
TempSensor == 2
EndOfTable == 255

\* The kinds, numbered in the order of assign_all_first_indexes().  The types
\* from FanPWM to PeciSegment have one kind each, the next higher number.
Kinds == 1..24
table_data == 1
visible_temp_sensor == 2
hidden_temp_sensor == 3
fan_pwm == 4
fan_device == 5
power_supply == 6
redundancy_rule == 7
indicator == 8
power_meter == 9
processor == 10
status == 11
system_device == 22
patch_and_replacement == 24

None == 0       \* a type without a kind

Kind(h) ==
    CASE h.type = TableData -> table_data
      [] h.type = TempSensor -> IF h.hidden THEN hidden_temp_sensor ELSE visible_temp_sensor
      [] h.type \in 3..22 -> h.type + 1
      [] h.type \in {240, 241} -> patch_and_replacement
      [] OTHER -> None

\* What is read at u.  The array is zero where the table is not.
At(u) == IF u \in DOMAIN mem THEN mem[u] ELSE Zero

NextRecord(u) == u + At(u).size

\* Where both passes over the table stop.
Stops(u) == At(u).type \in {EndOfTable, Undefined}

\* An entry of the array that was never written is 0, which is not NULL.
NULL == -1

get_record(k, n) ==
    IF n < count[k] THEN records[first_index[k] + n] ELSE NULL

-----------------------------------------------------------------------------
(* platdef_meta_load().                                                    *)

ZeroCounts == [k \in Kinds |-> 0]

Init ==
    /\ file \in Files
    /\ mem = file
    /\ record_count = 0 /\ count = ZeroCounts /\ first_index = ZeroCounts
    /\ records = [n \in 0..PLATDEF_MAX_RECORDS - 1 |-> 0]
    /\ pc = "legacy" /\ p = PLATDEF_BLOB_START
    /\ j = 1 /\ index = 0 /\ result = "none"
    /\ got = << >> /\ i = 0 /\ answer = [rc |-> "none"]
    /\ walk = << >>

\* The second table of a legacy file, if both are as they should be.
SecondTable(t) == PLATDEF_BLOB_START + t.total

IsLegacy ==
    LET t == At(PLATDEF_BLOB_START)
    IN  /\ t.type = TableData /\ t.legacy
        /\ t.total # 0 /\ SecondTable(t) <= PLATDEF_SIZE
        /\ At(SecondTable(t)).type = TableData
        /\ SecondTable(t) + At(SecondTable(t)).total < PLATDEF_MEM_REGION_SIZE

\* Wrong: moves as much as the old table has.
MovedOldSize ==
    LET t == At(PLATDEF_BLOB_START)
    IN  [u \in DOMAIN mem |->
            IF u < PLATDEF_BLOB_START + t.total
            THEN At(SecondTable(t) + (u - PLATDEF_BLOB_START))
            ELSE mem[u]]

Moved ==
    LET from == SecondTable(At(PLATDEF_BLOB_START))
        end  == PLATDEF_BLOB_START + At(from).total
    IN  [u \in DOMAIN mem |->
            IF u < end THEN At(from + (u - PLATDEF_BLOB_START)) ELSE mem[u]]

\* Moves the new table over the old one.
HandleLegacy ==
    /\ pc = "legacy" /\ pc' = "count"
    /\ mem' = IF IsLegacy THEN Moved ELSE mem
    /\ UNCHANGED <<file, meta, p, loading, asking>>

Increment(c, k) == IF k \in Kinds THEN [c EXCEPT ![k] = @ + 1] ELSE c

\* Wrong: lets one record too many in.
CountOneMore ==
    /\ pc = "count" /\ ~Stops(p)
    /\ record_count <= PLATDEF_MAX_RECORDS
    /\ record_count' = record_count + 1
    /\ count' = Increment(count, Kind(At(p)))
    /\ p' = NextRecord(p) /\ walk' = Append(walk, p)
    /\ UNCHANGED <<file, mem, first_index, records, pc, j, index, result, asking>>

\* Wrong: counts only the records whose type it knows.
CountKnown ==
    /\ pc = "count" /\ ~Stops(p)
    /\ record_count < PLATDEF_MAX_RECORDS
    /\ count' = Increment(count, Kind(At(p)))
    /\ p' = NextRecord(p)
    /\ IF Kind(At(p)) = None
       THEN UNCHANGED <<record_count, walk>>
       ELSE record_count' = record_count + 1 /\ walk' = Append(walk, p)
    /\ UNCHANGED <<file, mem, first_index, records, pc, j, index, result, asking>>

\* One turn of the loop of populate_record_counts().  A type out of the
\* specification is counted as a record and passed over.
CountRecord ==
    /\ pc = "count" /\ ~Stops(p)
    /\ record_count < PLATDEF_MAX_RECORDS
    /\ record_count' = record_count + 1
    /\ count' = Increment(count, Kind(At(p)))
    /\ p' = NextRecord(p)
    /\ walk' = Append(walk, p)
    /\ UNCHANGED <<file, mem, first_index, records, pc, j, index, result, asking>>

\* The loop ends with the table, or at an undefined record, which has been
\* counted; platdef_meta_load() goes on.
CountEnd ==
    /\ pc = "count" /\ Stops(p)
    /\ record_count' = IF At(p).type = Undefined THEN record_count + 1 ELSE record_count
    /\ IF record_count' > PLATDEF_MAX_RECORDS
       THEN pc' = "ready" /\ result' = "error"
       ELSE pc' = "assign" /\ UNCHANGED result
    /\ UNCHANGED <<file, mem, count, first_index, records, p, j, index, walk, asking>>

\* One record too many: the loop is left, and platdef_meta_load() with it.
CountTooMany ==
    /\ pc = "count" /\ ~Stops(p) /\ record_count >= PLATDEF_MAX_RECORDS
    /\ record_count' = record_count + 1
    /\ pc' = "ready" /\ result' = "error"
    /\ UNCHANGED <<file, mem, count, first_index, records, p, j, index, walk, asking>>

\* assign_first_index() for the next kind.
AssignFirst ==
    /\ pc = "assign" /\ j \in Kinds
    /\ first_index' = [first_index EXCEPT ![j] = index]
    /\ index' = index + count[j]
    /\ j' = j + 1
    /\ UNCHANGED <<file, mem, record_count, count, records, pc, p, result, walk, asking>>

\* Wrong: leaves the counts of the first pass as they are.
AssignKeepsCounts ==
    /\ pc = "assign" /\ j \notin Kinds
    /\ p' = PLATDEF_BLOB_START /\ pc' = "point"
    /\ UNCHANGED <<file, mem, meta, loading, asking>>

\* clear_record_counts(), and back to the start of the table.
AssignEnd ==
    /\ pc = "assign" /\ j \notin Kinds
    /\ count' = ZeroCounts
    /\ p' = PLATDEF_BLOB_START /\ pc' = "point"
    /\ UNCHANGED <<file, mem, record_count, first_index, records, loading, asking>>

\* One turn of the loop of populate_record_pointers(), with populate_record().
PointRecord ==
    /\ pc = "point" /\ ~Stops(p)
    /\ LET k == Kind(At(p))
       IN  /\ count' = Increment(count, k)
           /\ records' = IF k \in Kinds
                         THEN [records EXCEPT ![first_index[k] + count[k]] = p]
                         ELSE records
    /\ p' = NextRecord(p)
    /\ UNCHANGED <<file, mem, record_count, first_index, pc, loading, asking>>

PointEnd ==
    /\ pc = "point" /\ Stops(p)
    /\ pc' = "trim"
    /\ UNCHANGED <<file, mem, meta, p, loading, asking>>

AtMost(n, limit) == IF n > limit THEN limit ELSE n

num_temp_sensors == count[visible_temp_sensor] + count[hidden_temp_sensor]

\* The number of visible sensors when there are too many of both: UINT16, and
\* less than 0 if there are too many hidden ones.
VisibleTrimmed ==
    IF num_temp_sensors > PLATDEF_MAX_TEMP_SENSOR
    THEN (count[visible_temp_sensor] - (num_temp_sensors - PLATDEF_MAX_TEMP_SENSOR)) % UINT16_MOD
    ELSE count[visible_temp_sensor]

FansTrimmed ==
    AtMost(IF count[fan_pwm] > 0 THEN count[fan_pwm] - 1 ELSE 0, PLATDEF_MAX_FAN_PWM)

num_devices ==
    count[indicator] + num_temp_sensors + count[fan_device]
      + AtMost(count[power_supply], PLATDEF_MAX_POWER_SUPPLY)
      + count[power_meter] + count[status]

\* The rest of platdef_meta_load().  The last fan record is not a fan but a
\* value for all.
Trim ==
    /\ pc = "trim" /\ pc' = "ready"
    /\ count' = [count EXCEPT
                    ![fan_pwm] = FansTrimmed,
                    ![visible_temp_sensor] = VisibleTrimmed,
                    ![power_supply] = AtMost(@, PLATDEF_MAX_POWER_SUPPLY),
                    ![redundancy_rule] = AtMost(@, PLATDEF_MAX_REDUNDANCY_RULE)]
    /\ result' = IF num_devices > PLATDEF_MAX_HEALTH_DEVICES THEN "error" ELSE "ok"
    /\ UNCHANGED <<file, mem, record_count, first_index, records, p, j, index, walk, asking>>

Load ==
    \/ HandleLegacy \/ CountRecord \/ CountEnd \/ CountTooMany
    \/ AssignFirst \/ AssignEnd \/ PointRecord \/ PointEnd \/ Trim

-----------------------------------------------------------------------------
(* 0x0202: platdef_get_APML_data(), which begins where `pc' is "ready" and *)
(* leads back there.  An answer that is full has count 0.                  *)

AskApml ==
    /\ pc = "ready" /\ pc' = "supplies"
    /\ got' = << >> /\ i' = 0
    /\ answer' = [rc |-> "none"]
    /\ UNCHANGED <<file, mem, meta, p, loading>>

Answer(rc, found) ==
    /\ pc' = "ready"
    /\ answer' = [rc |-> rc, got |-> found]
    /\ got' = << >> /\ i' = 0
    /\ UNCHANGED <<file, mem, meta, p, loading>>

Full == Len(got) >= MAX_NUM_ENTITIES

\* One turn of one of the first two loops, which end before their count.
Entity(k) ==
    /\ i < count[k] /\ ~Full
    /\ got' = Append(got, get_record(k, i)) /\ i' = i + 1
    /\ UNCHANGED <<file, mem, meta, pc, p, loading, answer>>

\* Wrong: the next loop begins where the last one ended.
OnwardFromHere(k, where) ==
    /\ i >= count[k]
    /\ pc' = where
    /\ UNCHANGED <<file, mem, meta, p, loading, got, i, answer>>

Onward(k, where) ==
    /\ i >= count[k]
    /\ pc' = where /\ i' = 0
    /\ UNCHANGED <<file, mem, meta, p, loading, got, answer>>

Supplies == pc = "supplies" /\ (Entity(power_supply) \/ Onward(power_supply, "processors"))

Processors == pc = "processors" /\ (Entity(processor) \/ Onward(processor, "devices"))

\* Wrong: goes on only from devices that it reports.
DevicesReported ==
    /\ pc = "devices" /\ get_record(system_device, i) # NULL /\ ~Full
    /\ IF At(get_record(system_device, i)).device \in {"slot", "megacell"}
       THEN got' = Append(got, get_record(system_device, i)) /\ i' = (i + 1) % UINT8_MOD
       ELSE UNCHANGED <<got, i>>
    /\ UNCHANGED <<file, mem, meta, pc, p, loading, answer>>

\* system_device() takes the index as a UINT8, so that is all `i' need hold:
\* where there are as many devices as a UINT8 counts, no index is behind the
\* last of them, and the loop begins again with the first.
Devices ==
    /\ pc = "devices" /\ get_record(system_device, i) # NULL /\ ~Full
    /\ got' = IF At(get_record(system_device, i)).device \in {"slot", "megacell"}
              THEN Append(got, get_record(system_device, i))
              ELSE got
    /\ i' = (i + 1) % UINT8_MOD
    /\ UNCHANGED <<file, mem, meta, pc, p, loading, answer>>

DevicesEnd ==
    pc = "devices" /\ get_record(system_device, i) = NULL /\ Answer("ok", got)

ApmlFull ==
    /\ Full
    /\ \/ pc = "supplies" /\ i < count[power_supply]
       \/ pc = "processors" /\ i < count[processor]
       \/ pc = "devices" /\ get_record(system_device, i) # NULL
    /\ Answer("error", << >>)

Serve == Supplies \/ Processors \/ Devices \/ DevicesEnd \/ ApmlFull

Handler == Load \/ Serve

Next == Handler \/ AskApml

Spec == Init /\ [][Next]_vars

\* The one thread goes on with what it has begun.
FairSpec == Spec /\ WF_vars(Handler)

-----------------------------------------------------------------------------
(* Properties.                                                             *)

\* The records the first pass has counted that are of kind k.
OfKind(k) == {n \in DOMAIN walk : Kind(At(walk[n])) = k}

\* How many records of its kind come before record n of the walk.
Rank(n) == Cardinality({m \in OfKind(Kind(At(walk[n]))) : m < n})

Loops == {"legacy", "count", "assign", "point", "trim"}

Serving == {"supplies", "processors", "devices"}

PlatDefTypeOK ==
    /\ pc \in Loops \cup Serving \cup {"ready"}
    /\ record_count \in 0..PLATDEF_MAX_RECORDS + 1
    /\ count \in [Kinds -> 0..UINT16_MOD - 1]
    /\ first_index \in [Kinds -> 0..PLATDEF_MAX_RECORDS]
    /\ DOMAIN records = 0..PLATDEF_MAX_RECORDS - 1
    /\ \A n \in DOMAIN records : records[n] \in Nat
    /\ DOMAIN mem = DOMAIN file /\ \A u \in DOMAIN mem : IsHeader(mem[u])
    /\ p \in Nat /\ index \in 0..PLATDEF_MAX_RECORDS
    /\ j \in 1..25 /\ i \in Nat /\ got \in Seq(Nat)
    /\ result \in {"none", "ok", "error"}

\* What the two passes and the array between them are for.  Once the table
\* is loaded, the n-th lookup of a kind gives the n-th record of that kind in
\* the table, for every n up to the kind's count, and the counts are complete
\* but for the kinds that are trimmed on purpose.  The count of the visible
\* sensors is as it should be unless there are too many hidden ones.
Sorted(k) ==
    \A n \in OfKind(k) :
        Rank(n) < count[k] => get_record(k, Rank(n)) = walk[n]

Complete(k) == count[k] = Cardinality(OfKind(k))

TrimmedKinds == {visible_temp_sensor, fan_pwm, power_supply, redundancy_rule}

DirectoryRight ==
    result = "ok" =>
        /\ \A k \in Kinds : Sorted(k)
        /\ \A k \in Kinds \ TrimmedKinds : Complete(k)
        /\ \A k \in TrimmedKinds \ {visible_temp_sensor} :
               count[k] <= Cardinality(OfKind(k))

\* No more sensors are accepted than the structures parallel to the table have
\* room for: "Truncate number of temp sensors to avoid structure overruns"
\* (platdef_api.cpp:465).
SensorsBounded ==
    result = "ok" => num_temp_sensors <= PLATDEF_MAX_TEMP_SENSOR

\* If the file has a legacy table and, behind it, a new one, the records that
\* are loaded are the new table's, and the two passes see the same bytes.
NewTable(f) == PLATDEF_BLOB_START + f[PLATDEF_BLOB_START].total

HasNewTable(f) ==
    LET t == f[PLATDEF_BLOB_START]
    IN  /\ t.type = TableData /\ t.legacy /\ t.total > 0
        /\ NewTable(f) \in DOMAIN f /\ NewTable(f) <= PLATDEF_SIZE
        /\ f[NewTable(f)].type = TableData
        /\ NewTable(f) + f[NewTable(f)].total < PLATDEF_MEM_REGION_SIZE

LegacySuperseded ==
    HasNewTable(file) =>
        \A n \in DOMAIN walk :
            walk[n] < PLATDEF_BLOB_START + file[NewTable(file)].total =>
                At(walk[n]) = file[walk[n] + (NewTable(file) - PLATDEF_BLOB_START)]

\* The answer to 0x0202 has every power supply, every processor, every slot
\* and every mega cell of the directory, each kind in the table's order, and
\* no record twice.
ApmlComplete ==
    answer.rc = "ok" /\ result = "ok" =>
        LET wanted(k) == {n \in OfKind(k) : Rank(n) < count[k]}
            devices == {n \in wanted(system_device) : At(walk[n]).device # "other"}
            reported == wanted(power_supply) \cup wanted(processor) \cup devices
        IN  /\ ToSet(answer.got) = {walk[n] : n \in reported}
            /\ Len(answer.got) = Cardinality(reported)
            /\ \A m, n \in DOMAIN answer.got :
                  m < n /\ Kind(At(answer.got[m])) = Kind(At(answer.got[n]))
                      => answer.got[m] < answer.got[n]

\* The passes over the table end, whatever the sizes in it: a record of size 0
\* is counted again and again, until there are too many.
LoadEnds == <>(pc \notin Loops)

\* The one way an answer never comes: the devices are as many as a UINT8
\* counts or more, none of the first so many is reported, and the answer is
\* not full, so that nothing ends the search.
Endless ==
    /\ pc = "devices" /\ ~Full
    /\ count[system_device] >= UINT8_MOD
    /\ \A n \in 0..UINT8_MOD - 1 :
          At(get_record(system_device, n)).device \notin {"slot", "megacell"}

\* A request is answered, or the search of the devices is endless; no other
\* table keeps the daemon from its answer, one with as many devices but a slot
\* or a mega cell among the first of them included: that one comes up again
\* until the answer is full.
Answered == pc \in Serving ~> (pc = "ready" \/ Endless)

=============================================================================
