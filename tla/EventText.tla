------------------------------ MODULE EventText ------------------------------
(***************************************************************************)
(* The host adds an event to one of the BMC's logs: SmifPkt_0146() of      *)
(* src/src/smif.cpp, decode_text() and its helpers of                      *)
(* src/src/generic_decoder.cpp, dbus_send() of src/src/dbus_send.cpp.      *)
(*                                                                         *)
(* The host sends numbers; the text is made here, from generated tables    *)
(* (DataExtract.c) that give each event a message with placeholders, the   *)
(* variables that fill them, and names for the values of a variable that   *)
(* is an enumeration.  decode_text() walks the message, gathers a format   *)
(* string and up to 16 allocated arguments, and calls snprintf().          *)
(*                                                                         *)
(* A message is a sequence of parts: text, a percent sign that is text, or *)
(* a placeholder with a number of one or two digits.  The code sees its    *)
(* characters.  A value is shown as it is, or by its name, or as unknown.  *)
(***************************************************************************)
EXTENDS Integers, Sequences, SequencesExt, FiniteSets

CONSTANTS
    EvtTypes,       \* the values of evtType the host sends
    Severity,       \* the values of severity that have a case
    OtherSeverity,  \* any other
    DescData,       \* for each log, its messages: List_IML_Desc_Data, ...
    VarData,        \* for each log, its variables: List_IML_Var_Data, ...
    Event,          \* the classes and codes the host sends
    Values,         \* the values the host sends, one for each variable
    ONE_DIGIT,      \* 9: placeholders whose number has one digit
    MAX_ARGS,       \* 16: the size of argVal
    None,           \* a null pointer, or no such thing
    MaxFaults       \* bound: failing calls of malloc() and of the bus

\* The logs of a request (smif.cpp:49) and those of the bus (DataExtract.h:95).
EVT_IML == 1
EVT_IEL == 2
EVT_SL  == 4

EVT_TYPE_IML == 1
EVT_TYPE_IEL == 2
EVT_TYPE_SL  == 3

Log == {EVT_IML, EVT_IEL, EVT_SL}

Representations == {"integer", "hex", "string"}

\* What the generated tables are made of: a message in which a percent sign
\* is text takes no arguments.
IsText(t) ==
    /\ t.parts \in Seq([kind : {"text", "percent", "arg"}, digits : 0 .. 2])
    /\ t.args \in Seq([varNum : Nat \ {0}, replaceWith : {"value", "desc"}])
    /\ Len(t.args) <= MAX_ARGS
    /\ \A k \in DOMAIN t.parts :
          /\ t.parts[k].kind = "arg" => t.parts[k].digits \in {1, 2}
          /\ t.parts[k].kind = "percent" => t.args = << >>

IsVariables(d) == d.details \in Seq([rep : Representations, names : Seq([value : Nat, desc : STRING])])

\* What is shown in the place of an argument: a value as digits or text, a
\* name, [UNKNOWN].
Shown(v)   == [as |-> "value", of |-> v]
Named(d)   == [as |-> "name", of |-> d]
UNKNOWN    == [as |-> "unknown", of |-> None]
NullText   == [as |-> "null", of |-> None]

ASSUME TextAssumption ==
    /\ ONE_DIGIT \in Nat /\ MAX_ARGS \in Nat /\ MaxFaults \in Nat
    /\ EvtTypes \subseteq Nat /\ OtherSeverity \notin Severity
    /\ UNKNOWN # None
    /\ \A l \in Log : /\ \A k \in DOMAIN DescData[l] : IsText(DescData[l][k])
                      /\ \A j \in DOMAIN VarData[l] : IsVariables(VarData[l][j])

\* Only a number is replaced by a name.
ASSUME EnumAssumption ==
    \A l \in Log : \A k \in DOMAIN DescData[l], j \in DOMAIN VarData[l] :
        DescData[l][k].event = VarData[l][j].event =>
            \A m \in DOMAIN DescData[l][k].args :
                LET a == DescData[l][k].args[m]
                IN  a.replaceWith = "desc" /\ a.varNum <= Len(VarData[l][j].details) =>
                        VarData[l][j].details[a.varNum].rep # "string"

\* Whatever bytes the host sends, each variable of a table has a value.
ASSUME ValuesAssumption ==
    \A vs \in Values, l \in Log : \A j \in DOMAIN VarData[l] :
        \A n \in DOMAIN VarData[l][j].details :
            LET d == VarData[l][j].details[n]
            IN  /\ d.rep # "string" => vs[n] \in Nat
                /\ Shown(vs[n]) # None
                /\ \A i \in DOMAIN d.names : Named(d.names[i].desc) # None

VARIABLES
    pc,             \* the step that comes next
    req,            \* the request
    textData,       \* the message found
    varData,        \* its variables
    ptr,            \* how much of the message has been walked
    argCount,       \* placeholders met
    enumDescFound,  \* enumDescFound
    buf,            \* the format string
    argVal,         \* argVal, from 1 on
    live,           \* how many arguments are allocated and not freed
    message,        \* the text sent
    logged,         \* the entry the bus was last asked to create
    faults          \* how many calls have failed

walk == <<ptr, argCount, enumDescFound, buf>>
vars == <<pc, req, textData, varData, walk, argVal, live, message, logged, faults>>

-----------------------------------------------------------------------------
(* Messages.                                                               *)

TextChar == "text"
Percent  == "%"
Digit    == "digit"
Spec_s   == "%s"

CharsOf(part) ==
    CASE part.kind = "text"    -> <<TextChar>>
      [] part.kind = "percent" -> <<Percent>>
      [] part.kind = "arg"     -> <<Percent>> \o [d \in 1 .. part.digits |-> Digit]

Chars(t) == FlattenSeq([k \in DOMAIN t.parts |-> CharsOf(t.parts[k])])

\* What the text as a whole can be besides its parts.
NoSuchEvent == [as |-> "no_event", of |-> None]
Verbatim   == [as |-> "message", of |-> None]
Garbled    == [as |-> "garbled", of |-> None]

\* find_index_iml_data_extract() and its like: the first one, or none.
find_index(list, event) ==
    {k \in DOMAIN list : /\ list[k].event = event
                         /\ \A j \in DOMAIN list : list[j].event = event => k <= j}

\* atoi() of a value that was printed in decimal, or in hexadecimal: the
\* digits up to the first that is a letter.
atoi(v, rep) ==
    LET high == v \div 16
        low  == v % 16
    IN  CASE rep = "integer" -> v
          [] rep = "string"  -> 0
          [] rep = "hex"     -> IF high = 0 THEN (IF low > 9 THEN 0 ELSE low)
                                ELSE IF high > 9 THEN 0
                                ELSE IF low > 9 THEN high ELSE 10 * high + low

-----------------------------------------------------------------------------
(* A request arrives, and its message is looked up.                        *)

Request == [evtType : EvtTypes, severity : Severity \cup {OtherSeverity},
            event : Event, values : Values]

Idle ==
    /\ req = None /\ textData = None /\ varData = None
    /\ ptr = 0 /\ argCount = 0 /\ enumDescFound = FALSE /\ buf = << >>
    /\ argVal = [n \in 1 .. MAX_ARGS |-> None]
    /\ message = << >> /\ logged = None

Init == pc = "idle" /\ Idle /\ live = 0 /\ faults = 0

Receive(r) ==
    /\ pc = "idle"
    /\ pc' = "find" /\ req' = r
    /\ UNCHANGED <<textData, varData, walk, argVal, live, message, logged, faults>>

\* Nothing to decode: the log is unknown, or the event is (whose text is
\* sent and whose error is dropped).
FindNothing ==
    /\ pc = "find"
    /\ \/ req.evtType \notin Log
       \/ req.evtType \in Log /\ find_index(DescData[req.evtType], req.event) = {}
    /\ message' = <<NoSuchEvent>>
    /\ pc' = "journal"
    /\ UNCHANGED <<req, textData, varData, walk, argVal, live, logged, faults>>

\* get_description_data() and get_variable_data().  A message without
\* variables is sent as it is, percent signs and all.
FindText ==
    /\ pc = "find"
    /\ req.evtType \in Log
    /\ \E k \in find_index(DescData[req.evtType], req.event) :
          textData' = DescData[req.evtType][k]
    /\ LET found == find_index(VarData[req.evtType], req.event)
       IN  \/ /\ found = {}
              /\ message' = <<Verbatim>> /\ pc' = "journal"
              /\ UNCHANGED varData
           \/ \E k \in found :
              /\ varData' = VarData[req.evtType][k] /\ pc' = "walk"
              /\ UNCHANGED message
    /\ UNCHANGED <<req, walk, argVal, live, logged, faults>>

-----------------------------------------------------------------------------
(* The walk over the message, a character or placeholder at a time.        *)

Here == Chars(textData)[ptr + 1]
Walking == pc = "walk" /\ ptr < Len(Chars(textData))

Arg     == textData.args[argCount + 1]
HasArg  == argCount < Len(textData.args) /\ Arg.varNum <= Len(varData.details)
Detail  == varData.details[Arg.varNum]
Value   == req.values[Arg.varNum]

\* Wrong: a percent sign that is kept is met again.
CopyCharStays ==
    /\ Walking
    /\ Here = Percent => ~ HasArg
    /\ buf' = IF Here = Percent THEN buf ELSE Append(buf, Here)
    /\ ptr' = IF Here = Percent THEN ptr ELSE ptr + 1
    /\ UNCHANGED <<pc, req, textData, varData, argCount, enumDescFound, argVal, live,
                   message, logged, faults>>

\* A character that is no placeholder the tables know goes into the format.
CopyChar ==
    /\ Walking
    /\ Here = Percent => ~ HasArg
    /\ buf' = Append(buf, Here)
    /\ argCount' = IF Here = Percent THEN argCount + 1 ELSE argCount
    /\ ptr' = ptr + 1
    /\ UNCHANGED <<pc, req, textData, varData, enumDescFound, argVal, live, message, logged, faults>>

\* Wrong: the number of a placeholder has one digit.
SkipOne == 2

\* The percent sign and the digits of the number; by the count of
\* placeholders, not by the digits there are.
Skip == IF argCount < ONE_DIGIT THEN 2 ELSE 3

\* The argument is in place; a value that gave way to a name was freed.
Place(found, val) ==
    /\ argVal' = [argVal EXCEPT ![argCount + 1] = val]
    /\ enumDescFound' = found
    /\ live' = IF val = None THEN live ELSE live + 1
    /\ buf' = Append(buf, Spec_s)
    /\ ptr' = ptr + Skip
    /\ argCount' = argCount + 1
    /\ UNCHANGED <<pc, req, textData, varData, message, logged>>

\* The names that the value's digits stand for, in the order of the table.
NamesHere == {j \in DOMAIN Detail.names : Detail.names[j].value = atoi(Value, Detail.rep)}

\* malloc() succeeds, or the pointer is null.
Allocated(val) ==
    {val} \cup (IF faults < MaxFaults THEN {None} ELSE {})

ShowValue ==
    /\ Walking /\ Here = Percent /\ HasArg
    /\ Arg.replaceWith # "desc"
    /\ Place(enumDescFound, Shown(Value))
    /\ UNCHANGED faults

ShowName ==
    /\ Walking /\ Here = Percent /\ HasArg
    /\ Arg.replaceWith = "desc"
    /\ \E j \in NamesHere :
        /\ \A k \in NamesHere : j <= k
        /\ \E val \in Allocated(Named(Detail.names[j].desc)) :
            /\ Place(TRUE, val)
            /\ faults' = IF val = None THEN faults + 1 ELSE faults

\* No name: enumDescFound may be set from an earlier placeholder, and the
\* value stays.
ShowUnknown ==
    /\ Walking /\ Here = Percent /\ HasArg
    /\ Arg.replaceWith = "desc" /\ NamesHere = {}
    /\ \E val \in IF enumDescFound THEN {Shown(Value)} ELSE Allocated(UNKNOWN) :
        /\ Place(enumDescFound, val)
        /\ faults' = IF val = None THEN faults + 1 ELSE faults

\* extract_variable_value() fails: decode_text() returns at once, the text
\* stays empty and the arguments so far are not freed.
ExtractFails ==
    /\ Walking /\ Here = Percent /\ HasArg
    /\ faults < MaxFaults /\ faults' = faults + 1
    /\ message' = << >>
    /\ pc' = "journal"
    /\ UNCHANGED <<req, textData, varData, walk, argVal, live, logged>>

-----------------------------------------------------------------------------
(* snprintf(), the log, the answer.                                        *)

\* The n-th conversion takes the n-th pointer, null pointers included.
ArgShown(n) == IF argVal[n] = None THEN NullText ELSE argVal[n]

Formatted ==
    [k \in DOMAIN buf |->
        IF buf[k] = Spec_s
        THEN ArgShown(Cardinality({j \in 1 .. k : buf[j] = Spec_s}))
        ELSE buf[k]]

\* Wrong: the loop over argVal ends one too early.
FreedButLast == {n \in 1 .. argCount - 1 : argVal[n] # None}

\* What the loop over argVal frees.
Freed == {n \in 1 .. MAX_ARGS : argVal[n] # None}

\* A percent sign in the format makes its outcome undefined.
Format ==
    /\ pc = "walk"
    /\ ptr >= Len(Chars(textData))
    /\ message' \in IF Percent \in ToSet(buf) THEN {<<Garbled>>, Formatted} ELSE {Formatted}
    /\ live' = live - Cardinality(Freed)
    /\ pc' = "journal"
    /\ UNCHANGED <<req, textData, varData, walk, argVal, logged, faults>>

\* sd_journal_send(): a severity without a case leaves two of the pointers
\* it is given unset, and the daemon may stop.
Journal ==
    /\ pc = "journal"
    /\ pc' \in {"send"} \cup (IF req.severity = OtherSeverity THEN {"stopped"} ELSE {})
    /\ UNCHANGED <<req, textData, varData, walk, argVal, live, message, logged, faults>>

log_map == [n \in {EVT_TYPE_IML, EVT_TYPE_IEL, EVT_TYPE_SL} |->
                CASE n = EVT_TYPE_IML -> "IML" [] n = EVT_TYPE_IEL -> "IEL" [] n = EVT_TYPE_SL -> "SL"]

Junk == "junk"

\* dbus_send(): the map's entry, or what is behind the map's end when it has
\* none for the log (or the severity): text that happens to be there, an
\* exception, a stop.  An exception, the bus's own too, is logged and dropped.
DbusSend ==
    /\ pc = "send"
    /\ \/ /\ req.evtType \in DOMAIN log_map
          /\ logged' = [log |-> log_map[req.evtType], text |-> message]
          /\ pc' = "answer" /\ UNCHANGED faults
       \/ /\ req.evtType \notin DOMAIN log_map \/ req.severity = OtherSeverity
          /\ \/ logged' = [log |-> Junk, text |-> message] /\ pc' = "answer"
             \/ logged' = None /\ pc' \in {"answer", "stopped"}
          /\ UNCHANGED faults
       \/ /\ faults < MaxFaults /\ faults' = faults + 1
          /\ logged' = None /\ pc' = "answer"
    /\ UNCHANGED <<req, textData, varData, walk, argVal, live, message>>

\* Wrong: argVal is static, and not cleared.
ResetButArgs ==
    /\ req' = None /\ textData' = None /\ varData' = None
    /\ ptr' = 0 /\ argCount' = 0 /\ enumDescFound' = FALSE /\ buf' = << >>
    /\ message' = << >> /\ logged' = None
    /\ UNCHANGED argVal

\* What a call of the handler leaves when it is over: it has no static data.
Reset ==
    /\ req' = None /\ textData' = None /\ varData' = None
    /\ ptr' = 0 /\ argCount' = 0 /\ enumDescFound' = FALSE /\ buf' = << >>
    /\ argVal' = [n \in 1 .. MAX_ARGS |-> None]
    /\ message' = << >> /\ logged' = None

\* 0x8146 with error code 0, whatever decode_text() returned.
Answer ==
    /\ pc = "answer"
    /\ pc' = "idle"
    /\ Reset
    /\ UNCHANGED <<live, faults>>

\* systemd starts the daemon again.
Restart ==
    /\ pc = "stopped"
    /\ pc' = "idle"
    /\ Reset
    /\ live' = 0
    /\ UNCHANGED faults

-----------------------------------------------------------------------------

Handler ==
    \/ FindNothing \/ FindText
    \/ CopyChar \/ ShowValue \/ ShowName \/ ShowUnknown \/ ExtractFails
    \/ Format \/ Journal \/ DbusSend \/ Answer

Next == (\E r \in Request : Receive(r)) \/ Handler \/ Restart

\* The handler goes on with a request; nothing makes the host send one.
Spec == Init /\ [][Next]_vars /\ WF_vars(Handler)
-----------------------------------------------------------------------------
(* Properties.                                                             *)

\* Type invariant: the walk stays near the message, its arguments are in
\* argVal, and nothing of one request is there for the next.
EventTypeOK ==
    /\ pc \in {"idle", "find", "walk", "journal", "send", "answer", "stopped"}
    /\ pc # "idle" => req \in Request
    /\ pc = "idle" => Idle
    /\ live \in Nat /\ faults \in 0 .. MaxFaults
    /\ DOMAIN argVal = 1 .. MAX_ARGS
    /\ \A n \in 1 .. MAX_ARGS : argVal[n] # None => n <= argCount
    /\ pc = "walk" => ptr \in 0 .. Len(Chars(textData)) + 1

IsArg(t, k) == t.parts[k].kind = "arg"

\* The placeholder at part k is the how many-eth of the message.
Nth(t, k) == Cardinality({j \in 1 .. k : IsArg(t, j)})

\* A message and its variables fit: no percent sign that is text, an
\* argument for each placeholder, a variable for each argument.
Fitting ==
    /\ textData # None /\ varData # None
    /\ \A k \in DOMAIN textData.parts :
          /\ textData.parts[k].kind # "percent"
          /\ IsArg(textData, k) =>
                /\ Nth(textData, k) <= Len(textData.args)
                /\ textData.parts[k].digits = IF Nth(textData, k) > ONE_DIGIT THEN 2 ELSE 1
    /\ \A m \in DOMAIN textData.args : textData.args[m].varNum <= Len(varData.details)

DetailOf(m) == varData.details[textData.args[m].varNum]
ValueOf(m)  == req.values[textData.args[m].varNum]

IsEnum(m) == textData.args[m].replaceWith = "desc"

NamesOf(m) == {j \in DOMAIN DetailOf(m).names : DetailOf(m).names[j].value = ValueOf(m)}

\* What the tables say is to be shown for the m-th placeholder.
Intended(m) ==
    CASE ~ IsEnum(m) -> Shown(ValueOf(m))
      [] IsEnum(m) /\ NamesOf(m) # {} ->
            Named(DetailOf(m).names[CHOOSE j \in NamesOf(m) : \A i \in NamesOf(m) : j <= i].desc)
      [] IsEnum(m) /\ NamesOf(m) = {} -> UNKNOWN

Rendering ==
    [k \in DOMAIN textData.parts |->
        IF IsArg(textData, k) THEN Intended(Nth(textData, k)) ELSE TextChar]

\* Values that the code shows otherwise: one without a name that comes
\* after one with a name (enumDescFound is never reset), and one above 9 of
\* an enumeration that is printed in hexadecimal before it is looked up.
Misread(m) ==
    /\ IsEnum(m)
    /\ \/ DetailOf(m).rep = "hex" /\ ValueOf(m) > 9
       \/ NamesOf(m) = {} /\ \E l \in 1 .. m - 1 : IsEnum(l) /\ NamesOf(l) # {}

LogName == [l \in Log |->
                CASE l = EVT_IML -> "IML" [] l = EVT_IEL -> "IEL" [] l = EVT_SL -> "SL"]

\* Where message and tables fit, the entry that the host is told of is in the
\* log it named, and its text has in the place of each placeholder what the
\* tables say of its value, in the right order and with nothing left of the
\* placeholders' own digits; except for values misread, and for the third
\* log (KeptInItsLog).
RendersRight ==
    pc = "answer" /\ Fitting /\ faults = 0
        /\ req.evtType \in {EVT_IML, EVT_IEL} /\ req.severity \in Severity
        /\ ~ (\E m \in DOMAIN textData.args : Misread(m))
    => logged = [log |-> LogName[req.evtType], text |-> Rendering]

\* Every argument allocated is freed, by the end of the request, whichever
\* way through decode_text() was taken; a malloc() that failed excepted
\* (decode_text() then returns with the others allocated).
AllFreed == pc = "idle" /\ faults = 0 => live = 0

\* Every request is answered, unless the daemon stops.
EventAnswered == pc = "find" ~> pc \in {"idle", "stopped"}

-----------------------------------------------------------------------------
(* What a comment says, and the code does not do.                          *)

\* smif.cpp:379, "0x01 - IML, 0x02 - IEL, 0x04 - SL": an event goes to the
\* log the request says.
KeptInItsLog ==
    pc = "answer" /\ req.evtType \in Log /\ req.severity \in Severity /\ faults = 0
        => logged # None /\ logged.log = LogName[req.evtType]
=============================================================================
