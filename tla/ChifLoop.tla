------------------------------ MODULE ChifLoop ------------------------------
(***************************************************************************)
(* The daemon as a whole: main(), ChifHandler() and UnknownHandler() of    *)
(* src/src/main.cpp, SmifHandler() and its small commands (src/src/smif.   *)
(* cpp), RomHandler() (src/src/sysrom.cpp), TritonHandler() (src/src/      *)
(* triton.cpp), and the handlers of src/src/misc.cpp.                      *)
(*                                                                         *)
(* One process reads one packet at a time and answers it, or does not.     *)
(* What its commands share is the process itself: the descriptors it may   *)
(* open.  Two commands leave one open each time; others need one or two,   *)
(* and fail, lose the EVs, or end the process when there is none.  Then    *)
(* systemd starts it again.  The I2C command is I2cTransaction; the EVs    *)
(* are seen here as where they are kept, in detail they are EvStore.       *)
(***************************************************************************)
EXTENDS I2cTransaction

CONSTANTS
    Packets,        \* the packets the host sends: [service, command, first]
    I2cPackets,     \* what it sends with the command 0x0072
    FD_LIMIT        \* descriptors the process may open beside the device's

Packet   == [service : Int, command : Nat, first : Nat]
Response == [service : Int, command : Nat, code : Int \cup {None}]

ASSUME LoopAssumption ==
    /\ FD_LIMIT \in Nat
    /\ I2cPackets \subseteq Request
    /\ Packets \subseteq Packet
    /\ None \notin Packet \cup Response

VARIABLES
    pc,             \* where main() is
    recv,           \* the packet that is being handled
    resp,           \* the answer to it
    free,           \* descriptors the process may still open
    evs,            \* where the EVs that were set are: in the file, set
                    \* aside, set aside behind a new file, or lost
    skewed,         \* the list in memory may have an EV that the file has not
    asked,          \* history: how often this process was asked for what
                    \* leaves a descriptor open
    most,           \* history: the most any process was, since a clear
    spoilt          \* history: a rewrite was left by exit(), or cut short by
                    \* a full file system, since a clear

store    == <<evs, skewed>>
history  == <<asked, most, spoilt>>
loopVars == <<pc, recv, resp, free, store, history>>
chifVars == <<i2cVars, loopVars>>

-----------------------------------------------------------------------------
(* Services, commands and answers.                                         *)

SMIF_SERVICE_ID         == 0
ROM_SERVICE_ID          == 2
TRITON_SERVICE_ID       == 12
CHIF_SERVICE_ID_HEALTH  == 16
CHIF_SERVICE_ID_BLACKBOX == 17
CHIF_SERVICE_ID_EMBMEDIA == 18

\* command | 0x8000
Reply(command) == IF command < 32768 THEN command + 32768 ELSE command

\* SMIF commands whose answer is always the same, by their error code.
AnswersZero ==
    {\h0002, \h0008, \h0050, \h0055, \h012d, \h0133, \h0136, \h0139, \h013a,
     \h0143, \h0151, \h0153, \h0182, \h0209}

NotImplemented ==
    {\h0035, \h0056, \h0076, \h011c, \h0150, \h0155, \h0158, \h0159, \h0161,
     \h0173, \h0176, \h0177, \h0178, \h0179, \h0200, \h0204}

Fixed(command) ==
    CASE command \in AnswersZero \cup NotImplemented -> 0
      [] command = \h006e -> 1
      [] command = \h0174 -> 5
      [] OTHER -> None

GetNetwork == \h0006
GetNic     == \h0063
I2cCommand == \h0072
IoBits     == \h0088
GetIpv6    == \h0120
GetEvByIndex == \h012b
GetEv      == \h0130
EvCommand  == \h012c
EvStatus   == \h0132
AddEvent   == \h0146
GetRecords == \h0202

\* The operations of 0x0088, and its status.
IoOperations   == 1 .. 10
SMIF_GET_CPLD  == 3
SMIF_BAD_OP    == 1
SMIF_BAD_INDEX == 2
SMIF_BAD       == 3

\* The operations of 0x012c: its flags.
SetEV   == 1
DelEV   == 2
ClearEV == 4

\* An answer to the packet that is being handled.
Answered(command, code) ==
    [service |-> recv.service, command |-> command, code |-> code]

-----------------------------------------------------------------------------
(* The process.                                                            *)

Fresh ==
    /\ pc = "loading"
    /\ recv = None /\ resp = None
    /\ free = FD_LIMIT
    /\ asked = 0

ChifInit ==
    /\ I2cInit /\ Fresh
    /\ evs = "file" /\ skewed = FALSE
    /\ most = 0 /\ spoilt = FALSE

\* init_platdef(), load_i2c_mapping().
Loading ==
    /\ pc = "loading" /\ Load
    /\ UNCHANGED loopVars

\* initEV(), then the loop begins.
Loaded ==
    /\ pc = "loading" /\ phase = "ready"
    /\ pc' = "reading"
    /\ UNCHANGED <<i2cVars, recv, resp, free, store, history>>

\* ChifHandler() zeroes resp before anything else.
ReadPacket(p) ==
    /\ pc = "reading"
    /\ recv' = p
    /\ resp' = None /\ pc' = "handling"
    /\ UNCHANGED <<i2cVars, free, store, history>>

ReadI2c(r) ==
    /\ pc = "reading"
    /\ recv' = [service |-> SMIF_SERVICE_ID, command |-> I2cCommand, first |-> 0]
    /\ Receive(r)
    /\ resp' = None /\ pc' = "i2c"
    /\ UNCHANGED <<free, store, history>>

\* read() fails, or a fault that ends the process between two requests; only
\* that ends a loop that does not end.
Stop ==
    /\ pc \in {"reading", "looping"}
    /\ pc' = "down"
    /\ UNCHANGED <<i2cVars, recv, resp, free, store, history>>

\* Wrong: what is started ends at once.
NotRestarted == pc = "down" /\ I2cRestart /\ UNCHANGED loopVars

\* Restart=always.  Where the file of EVs is missing initEV() makes an empty
\* one; the copy stays where it is.  Of a file that was cut short it may make
\* a list that does not match it.
Restarted ==
    /\ pc = "down"
    /\ I2cRestart
    /\ pc' = "loading"
    /\ recv' = None /\ resp' = None
    /\ free' = FD_LIMIT
    /\ evs' = IF evs = "aside" THEN "stale" ELSE evs
    /\ skewed' \in {FALSE, spoilt}
    /\ asked' = 0 /\ UNCHANGED <<most, spoilt>>

-----------------------------------------------------------------------------
(* Handlers.                                                               *)

Handling(service) == pc = "handling" /\ recv.service = service

Smif(command) == Handling(SMIF_SERVICE_ID) /\ recv.command = command

\* out_size > 0.
Respond(answer) == resp' = answer /\ pc' = "writing" /\ UNCHANGED <<i2cVars, recv>>

\* out_size <= 0: the loop goes on without a write.
Ignore ==
    /\ recv' = None /\ resp' = None /\ pc' = "reading"
    /\ UNCHANGED <<i2cVars, free, store, history>>

Keep == UNCHANGED <<free, store, history>>

\* One more of the requests that leave a descriptor open.
Ask ==
    /\ asked' = IF asked < FD_LIMIT THEN asked + 1 ELSE asked
    /\ most' = IF most < asked' THEN asked' ELSE most
    /\ UNCHANGED spoilt

\* A command without a state of its own.
FixedAnswer ==
    /\ Handling(SMIF_SERVICE_ID) /\ Fixed(recv.command) # None
    /\ Respond(Answered(Reply(recv.command), Fixed(recv.command)))
    /\ Keep

Known ==
    {GetNetwork, GetNic, I2cCommand, IoBits, GetIpv6, GetEvByIndex, GetEv, EvCommand,
     EvStatus, AddEvent, GetRecords}

\* SmifPkt_badcmd() puts its error code in the request: the answer's stays 0.
BadCommand ==
    /\ Handling(SMIF_SERVICE_ID)
    /\ recv.command \notin Known /\ Fixed(recv.command) = None
    /\ Respond(Answered(65535, 0))
    /\ Keep

\* A socket for the address of eth0, not closed.  Without one the answer is
\* made of what was on the stack.
NetworkInfo ==
    /\ Smif(GetNetwork)
    /\ free' = IF free = 0 THEN 0 ELSE free - 1
    /\ Ask
    /\ Respond(Answered(Reply(recv.command), 0))
    /\ UNCHANGED store

\* Wrong: it is not.
NicConfigLeaks ==
    /\ Smif(GetNic)
    /\ free' = IF free = 0 THEN 0 ELSE free - 1
    /\ Respond(Answered(Reply(recv.command), 0))
    /\ UNCHANGED <<store, history>>

\* The same, but the socket is closed.
NicConfig ==
    /\ Smif(GetNic)
    /\ Respond(Answered(Reply(recv.command), 0))
    /\ Keep

\* findIpv6Addrs(): 1 if there is no address, or no way to ask.
Ipv6Config ==
    /\ Smif(GetIpv6)
    /\ \E found \in {f \in BOOLEAN : f => free > 0} :
          Respond(Answered(Reply(recv.command), IF found THEN 0 ELSE 1))
    /\ Keep

\* An index that no register has is refused.  gpio_xreg_get() reads from a
\* file that it has not looked at.
ReadRegister ==
    /\ Smif(IoBits) /\ recv.first = SMIF_GET_CPLD
    /\ \/ \E code \in {SMIF_BAD_INDEX, SMIF_BAD} :
              Respond(Answered(Reply(recv.command), code))
       \/ free > 0 /\ Respond(Answered(Reply(recv.command), 0))
       \/ free = 0 /\ pc' = "down" /\ UNCHANGED <<i2cVars, recv, resp>>
    /\ Keep

\* The other operations do nothing, and succeed.
OtherIoBits ==
    /\ Smif(IoBits) /\ recv.first # SMIF_GET_CPLD
    /\ Respond(Answered(Reply(recv.command), IF recv.first \in IoOperations THEN 0 ELSE SMIF_BAD_OP))
    /\ Keep

\* getSizeOfEVfile() opens the file and does not close it.
ReadEvStatus ==
    /\ Smif(EvStatus)
    /\ free' = IF free > 0 /\ evs # "aside" THEN free - 1 ELSE free
    /\ Ask
    /\ Respond(Answered(Reply(recv.command), 0))
    /\ UNCHANGED store

\* Wrong: the file stays open where the EV is not found in it.
ReadEvLeaks ==
    /\ Smif(GetEv) \/ Smif(GetEvByIndex)
    /\ \E code \in IF free = 0 \/ evs = "aside" THEN {1, 2} ELSE {0, 2} :
          /\ Respond(Answered(Reply(recv.command), code))
          /\ free' = IF free > 0 /\ code = 2 THEN free - 1 ELSE free
    /\ UNCHANGED <<store, history>>

\* getEVbyName(), getEVbyIndex(): there is no file, it cannot be opened, or no such EV.
ReadEv ==
    /\ Smif(GetEv) \/ Smif(GetEvByIndex)
    /\ \E code \in IF free = 0 \/ evs = "aside" THEN {1, 2} ELSE {0, 2} :
          Respond(Answered(Reply(recv.command), code))
    /\ Keep

\* setEV() and delEV(): the file is set aside, then the copy is opened and a
\* new file.  Where that fails the copy stays open, and set aside.
RewriteFails ==
    /\ Smif(EvCommand) /\ recv.first \in {SetEV, DelEV}
    /\ free < 2
    /\ evs' = CASE evs = "file" -> "aside" [] evs = "stale" -> "lost" [] OTHER -> evs
    /\ free' = 0
    /\ Respond(Answered(Reply(recv.command), 1))
    /\ UNCHANGED <<skewed, history>>

\* After a failure, and the new start that brings descriptors back, the empty
\* file replaces the copy.  A delete of the first EV leaves it in the list.
Rewrite ==
    /\ Smif(EvCommand) /\ recv.first \in {SetEV, DelEV}
    /\ free >= 2
    /\ evs' = IF evs = "stale" THEN "lost" ELSE evs
    /\ skewed' \in IF recv.first = DelEV THEN {skewed, TRUE} ELSE {skewed}
    /\ Respond(Answered(Reply(recv.command), 0))
    /\ UNCHANGED <<free, history>>

\* The new file is cut short by a full file system, which nobody looks at.
RewriteCut ==
    /\ Smif(EvCommand) /\ recv.first \in {SetEV, DelEV}
    /\ free >= 2
    /\ evs' = "lost" /\ skewed' = TRUE /\ spoilt' = TRUE
    /\ Respond(Answered(Reply(recv.command), 0))
    /\ UNCHANGED <<free, asked, most>>

\* setEV() finds no header where an EV of the list should be, and calls
\* exit(0): what it had written is the file, what was there is set aside.
ExitInRewrite ==
    /\ Smif(EvCommand) /\ recv.first = SetEV
    /\ free >= 2 /\ skewed
    /\ evs' = IF evs = "file" THEN "stale" ELSE "lost"
    /\ spoilt' = TRUE
    /\ pc' = "down"
    /\ UNCHANGED <<i2cVars, recv, resp, free, skewed, asked, most>>

\* An EV that is not there: nothing is rewritten.
DeleteMissing ==
    /\ Smif(EvCommand) /\ recv.first = DelEV
    /\ Respond(Answered(Reply(recv.command), 0))
    /\ Keep

\* Data too large (0x04), a name without its end (0x03; a set of no data is
\* a delete), another flag (0x05).
EvErrors(op) ==
    CASE op = SetEV   -> {3, 4}
      [] op = DelEV   -> {3}
      [] op = ClearEV -> {}
      [] OTHER        -> {5}

EvRefused ==
    /\ Smif(EvCommand)
    /\ \E code \in EvErrors(recv.first) : Respond(Answered(Reply(recv.command), code))
    /\ Keep

\* clearEV() does not look at what fopen() returns.
ClearEVs ==
    /\ Smif(EvCommand) /\ recv.first = ClearEV
    /\ \/ /\ free > 0
          /\ evs' = "file" /\ skewed' = FALSE
          /\ most' = asked /\ spoilt' = FALSE
          /\ Respond(Answered(Reply(recv.command), 0))
       \/ /\ free = 0
          /\ pc' = "down" /\ UNCHANGED <<i2cVars, recv, resp, store, most, spoilt>>
    /\ UNCHANGED <<free, asked>>

\* EventText: answered, unless the look-up of the log's name ends the process.
QuickEvent ==
    /\ Smif(AddEvent)
    /\ \/ Respond(Answered(Reply(recv.command), 0))
       \/ pc' = "down" /\ UNCHANGED <<i2cVars, recv, resp>>
    /\ Keep

\* PlatDef: answered,
PlatformRecords ==
    /\ Smif(GetRecords)
    /\ Respond(Answered(Reply(recv.command), 0))
    /\ Keep

\* or the search for a device that is a slot or a mega cell does not end:
\* there are 256 or more, and none is one.
EndlessRecords ==
    /\ Smif(GetRecords)
    /\ pc' = "looping"
    /\ UNCHANGED <<i2cVars, recv, resp>> /\ Keep

\* SmbiosUpload: RomHandler() answers with the header of the request whether
\* the file could be opened or not, since -1 is true.
RomCommand ==
    /\ Handling(ROM_SERVICE_ID)
    /\ IF recv.command \in {3, 4, 5, 6, 7, 12}
       THEN Respond(Answered(recv.command, None)) /\ Keep
       ELSE Ignore

TritonCommand ==
    /\ Handling(TRITON_SERVICE_ID)
    /\ IF recv.command = 6 THEN Respond(Answered(Reply(recv.command), None)) /\ Keep
                           ELSE Ignore

\* GenResponse(): the command of the answer is the first byte of the message.
GenCommand ==
    /\ \/ Handling(CHIF_SERVICE_ID_EMBMEDIA) /\ recv.command \in {1, 4, 6}
       \/ Handling(CHIF_SERVICE_ID_HEALTH) /\ recv.first \in {0, 17, 18, 28, 29}
       \/ Handling(CHIF_SERVICE_ID_BLACKBOX) /\ recv.command \in {0, 32768}
    /\ Respond(Answered(recv.first, 0))
    /\ Keep

GenIgnored ==
    /\ \/ Handling(CHIF_SERVICE_ID_EMBMEDIA) /\ recv.command \notin {1, 4, 6}
       \/ Handling(CHIF_SERVICE_ID_HEALTH) /\ recv.first \notin {0, 17, 18, 28, 29}
       \/ Handling(CHIF_SERVICE_ID_BLACKBOX) /\ recv.command \notin {0, 32768}
    /\ Ignore

\* UnknownHandler(): 0xFFFF0000, as a signed number.
UnknownService ==
    /\ pc = "handling"
    /\ recv.service \notin {SMIF_SERVICE_ID, ROM_SERVICE_ID, TRITON_SERVICE_ID,
                            CHIF_SERVICE_ID_HEALTH, CHIF_SERVICE_ID_BLACKBOX,
                            CHIF_SERVICE_ID_EMBMEDIA}
    /\ Respond([Answered(Reply(recv.command), -65536) EXCEPT !.service = SMIF_SERVICE_ID])
    /\ Keep

\* The I2C command, with a descriptor for the pipe or without.
I2cStep ==
    /\ pc = "i2c" /\ phase # "ready"
    /\ \/ RefuseArgument \/ SelectBus \/ GiveUp \/ Answer
       \/ NoProgram
       \/ free > 0 /\ RunProgram
    /\ pc' = IF phase' = "thrown" THEN "down" ELSE pc
    /\ UNCHANGED <<recv, resp, free, store, history>>

I2cDone ==
    /\ pc = "i2c" /\ phase = "ready"
    /\ resp' = Answered(Reply(recv.command), ErrorCode) /\ pc' = "writing"
    /\ Forget
    /\ UNCHANGED recv /\ Keep

\* write(); what it returns makes no difference.
WriteAnswer ==
    /\ pc = "writing"
    /\ recv' = None /\ resp' = None /\ pc' = "reading"
    /\ UNCHANGED <<i2cVars, free, store, history>>

Handler ==
    \/ FixedAnswer \/ BadCommand
    \/ NetworkInfo \/ NicConfig \/ Ipv6Config \/ ReadRegister \/ OtherIoBits
    \/ ReadEvStatus \/ ReadEv \/ RewriteFails \/ Rewrite \/ RewriteCut
    \/ ExitInRewrite \/ DeleteMissing
    \/ EvRefused \/ ClearEVs
    \/ QuickEvent \/ PlatformRecords \/ EndlessRecords
    \/ RomCommand \/ TritonCommand \/ GenCommand \/ GenIgnored \/ UnknownService
    \/ I2cStep \/ I2cDone

Daemon == Loading \/ Loaded \/ Handler \/ WriteAnswer

Host ==
    \/ \E p \in Packets : ReadPacket(p)
    \/ \E r \in I2cPackets : ReadI2c(r)

ChifNext == Daemon \/ Restarted \/ Host \/ Stop

\* The process is scheduled, the programs it runs end, systemd restarts it.
ChifSpec ==
    /\ ChifInit /\ [][ChifNext]_chifVars
    /\ WF_chifVars(Daemon) /\ WF_chifVars(Restarted)

-----------------------------------------------------------------------------
(* Properties.                                                             *)

\* The transaction has its types.  The daemon is in one of its places; an
\* answer that is to be written is there; it never has more descriptors than
\* it may, and every one that is gone was asked for (or is the copy of a set
\* that failed).
ChifTypeOK ==
    /\ I2cTypeOK
    /\ pc \in {"loading", "reading", "handling", "i2c", "looping", "writing", "down"}
    /\ pc = "writing" => resp # None
    /\ pc \in {"handling", "i2c", "looping", "writing"} => recv # None
    /\ evs \in {"file", "aside", "stale", "lost"}
    /\ skewed \in BOOLEAN /\ spoilt \in BOOLEAN
    /\ free \in 0 .. FD_LIMIT
    /\ asked \in 0 .. FD_LIMIT /\ most \in 0 .. FD_LIMIT
    /\ free > 0 => FD_LIMIT - free <= asked

\* What a command that closes its descriptors does never adds up: the EVs
\* leave their file only after a process that was asked for the network or
\* the room for EVs so often that one descriptor or none was left
\* (smif.cpp:674, ev.cpp:443, ev.cpp:278); or, with descriptors enough, where
\* a set met a list that does not match the file and ended the process
\* (ev.cpp:298), or the file system was full.  (Where the daemon is stopped
\* in a rewrite is EvStore's.)
EvsKeptWhileDescriptorsLast == evs # "file" => most >= FD_LIMIT - 1 \/ spoilt

\* Whatever is asked, with or without descriptors, the daemon reads the next
\* packet some time: no command keeps it, and one that ends it does not do
\* so for good (main.cpp:203, Restart=always of the service file).  There is
\* one that may keep it for ever, 0x0202 where 256 or more devices are none a
\* slot or a mega cell (platdef_api.cpp:573, PlatDef's Endless).
KeepsReading == []<>(pc = "reading") \/ <>[](pc = "looping")
=============================================================================
