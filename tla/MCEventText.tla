---------------------------- MODULE MCEventText ----------------------------
(* Tables for EventText that TLC can enumerate, after real ones.           *)
EXTENDS EventText

Text    == [kind |-> "text", digits |-> 0]
Pct     == [kind |-> "percent", digits |-> 0]
Ph(d)   == [kind |-> "arg", digits |-> d]
Msg(e, parts, args) == [event |-> e, parts |-> parts, args |-> args]
A(v, r) == [varNum |-> v, replaceWith |-> r]

Number  == [rep |-> "integer", names |-> << >>]
String  == [rep |-> "string", names |-> << >>]
Enum(r) == [rep |-> r, names |-> <<[value |-> 0, desc |-> "zero"], [value |-> 1, desc |-> "one"]>>]

\* Two enumerations and a string, as EVT_MACHINE_OVERHEAT_STORAGE has; an
\* argument without a placeholder, as EVT_PS_MISMATCH.
TwoEnums == Msg("two_enums", <<Ph(1), Text, Ph(2), Ph(2)>>,
                <<A(1, "desc"), A(2, "desc"), A(3, "value"), A(3, "value")>>)

\* EVT_NIC_CONFIG_CHANGE: an enumeration in hexadecimal.
HexEnum == Msg("hex_enum", <<Text, Ph(1), Text>>, <<A(2, "desc")>>)

\* SECLOG_DCPMM_DEVICE_UNLOCKED: placeholders without arguments.
NoArgs  == Msg("no_args", <<Text, Ph(1), Text>>, << >>)

\* "80% of": a percent sign, and no variables.
PerCent == Msg("per_cent", <<Text, Pct, Text>>, << >>)

MCEvent == {"two_enums", "hex_enum", "no_args", "per_cent", "unknown"}

MCDescData == [l \in Log |-> IF l = EVT_IML THEN <<PerCent, TwoEnums, HexEnum>>
                                         ELSE <<NoArgs, PerCent>>]

MCVarData ==
    [l \in Log |->
        IF l = EVT_IML
        THEN <<[event |-> "two_enums", details |-> <<Enum("integer"), Enum("integer"), String>>],
               [event |-> "hex_enum", details |-> <<Number, Enum("hex")>>]>>
        ELSE <<[event |-> "no_args", details |-> <<Number, Number>>]>>]

MCValues == {<<a, b, c>> : a \in {0, 1, 10}, b \in {0, 2, 10, 26}, c \in {"s"}}
=============================================================================
