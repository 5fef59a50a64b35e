--------------------------- MODULE TerminalInput ---------------------------
(***************************************************************************)
(* What is typed in the web terminal, from the MQTT message to the guest.  *)
(* handle_inbound_message runs on the MQTT thread: it hands a line over to *)
(* the CPU thread and waits until the line has been read, keeps one        *)
(* control character, and loads programs to be read as if they were typed. *)
(* altair_read_terminal gives one character per call to the thread that    *)
(* runs the guest's instruction, if that uses a port of the 2SIO card:     *)
(*   "cpu"   altair_thread, while the CPU runs;                            *)
(*   "mqtt"  the MQTT thread, that single-steps a stopped CPU for a line   *)
(*           typed as a command of the CPU monitor;                        *)
(*   "loop"  the event loop, that does it for the physical panels.         *)
(* Accesses of two threads to the same variable are steps of their own.    *)
(*                                                                         *)
(* Not here: the serial console, which command a line is and what else     *)
(* commands do (ControlPanel), where the characters go that the guest      *)
(* prints (MqttConnection), and how many of them are held back as the echo *)
(* of what was typed.                                                      *)
(***************************************************************************)
EXTENDS Naturals, Sequences

CONSTANTS
    Messages,       \* what arrives: lines, control characters, LOAD commands
    NUL, CR, LF,    \* bytes
    Printable,      \* every other byte
    MaxMessages,    \* bounds the messages received
    MaxSteps        \* bounds the single steps made

Line(chars, cr) == [kind |-> "line", chars |-> chars, cr |-> cr]
Load(file) == [kind |-> "load", chars |-> file, cr |-> FALSE]
Control(char) == [kind |-> "control", chars |-> <<char>>, cr |-> FALSE]
Monitor == [kind |-> "monitor", chars |-> <<>>, cr |-> FALSE]

ASSUME TerminalAssumption ==
    /\ MaxMessages \in Nat /\ MaxSteps \in Nat
    /\ NUL \notin Printable \cup {CR, LF}
    /\ \A m \in Messages :
          \/ m.chars \in Seq(Printable) /\ m.cr \in BOOLEAN /\ m = Line(m.chars, m.cr)
          \/ m.chars \in Seq(Printable) /\ Len(m.chars) >= 2 /\ m = Load(m.chars)
          \/ \E c \in Printable : m = Control(c)
          \/ m = Monitor

\* The threads that run the guest's instructions.
Readers == {"cpu", "mqtt", "loop"}

VARIABLES
    cpu_operating_mode,
    steps,                                              \* single steps made
    mqttPc, inbound, received,                          \* the MQTT thread
    input_data, altairInputBufReadIndex,                \* the line
    terminalInputMessageLen, haveTerminalInputMessage,
    haveCtrlPending, haveCtrlCharacter,
    ptrBasicApp, appLoadPtr, basicAppLength, haveAppLoad,
    at, port, retVal,                                   \* of each reader
    character,                                          \* latch of the 2SIO
    typed, gotLine, gotApp, crAfter, loaded, overlapped, raced \* ghosts

modeVars == <<cpu_operating_mode, steps, raced>>
mqttVars == <<mqttPc, inbound, received>>
lineVars == <<input_data, altairInputBufReadIndex, terminalInputMessageLen,
              haveTerminalInputMessage>>
ctrlVars == <<haveCtrlPending, haveCtrlCharacter>>
appVars == <<ptrBasicApp, appLoadPtr, basicAppLength, haveAppLoad>>
readVars == <<at, port, retVal, character>>
gotVars == <<gotLine, gotApp>>
sentVars == <<typed, crAfter, loaded, overlapped>>
vars == <<modeVars, mqttVars, lineVars, ctrlVars, appVars, readVars,
          gotVars, sentVars>>

\* A character, and the place altair_read_terminal took it from.
Char(from, byte) == [from |-> from, byte |-> byte]
NoChar == Char("none", NUL)

Init ==
    /\ cpu_operating_mode = "running"
    /\ mqttPc = "idle" /\ inbound = Monitor /\ received = 0
    /\ input_data = <<>> /\ altairInputBufReadIndex = 0
    /\ terminalInputMessageLen = 0 /\ haveTerminalInputMessage = FALSE
    /\ haveCtrlPending = FALSE /\ haveCtrlCharacter = NoChar
    /\ ptrBasicApp = <<>> /\ appLoadPtr = 0 /\ basicAppLength = 0
    /\ haveAppLoad = FALSE
    /\ at = [t \in Readers |-> "idle"] /\ port = [t \in Readers |-> "none"]
    /\ retVal = [t \in Readers |-> NoChar] /\ character = NoChar /\ steps = 0
    /\ typed = <<>> /\ gotLine = <<>> /\ gotApp = <<>> /\ crAfter = 0
    /\ loaded = <<>> /\ overlapped = FALSE /\ raced = FALSE

-----------------------------------------------------------------------------
(***************************************************************************)
(* The MQTT thread.                                                        *)
(***************************************************************************)
\* Where the handler goes first.  A line that arrives while the CPU is stopped is a
\* command of the CPU monitor, or nothing.
FirstStep(m) ==
    CASE m.kind = "load"    -> "loading"
      [] m.kind = "control" -> "ctrl"
      [] m.kind = "monitor" -> "monitor"
      [] m.kind = "line"    ->
            IF m.chars # <<>>
            THEN IF cpu_operating_mode = "stopped" THEN "command" ELSE "line"
            ELSE IF cpu_operating_mode # "stopped" /\ m.cr THEN "ctrl" ELSE "idle"

Receive(m) ==
    /\ mqttPc = "idle"
    /\ received < MaxMessages
    /\ received' = received + 1
    /\ inbound' = m
    /\ mqttPc' = FirstStep(m)
    /\ UNCHANGED <<modeVars, lineVars, ctrlVars, appVars,
                   readVars, gotVars, sentVars>>

\* Mutant: the index is not reset.
HandLineOverAnyIndex ==
    /\ mqttPc = "line"
    /\ input_data' = inbound.chars
    /\ terminalInputMessageLen' = Len(inbound.chars)
    /\ haveTerminalInputMessage' = TRUE
    /\ typed' = typed \o inbound.chars
    /\ mqttPc' = "lock"
    /\ UNCHANGED <<modeVars, inbound, received, altairInputBufReadIndex,
                   ctrlVars, appVars, readVars, gotVars,
                   crAfter, loaded, overlapped>>

\* No reader looks at these variables until the flag is raised.
HandLineOver ==
    /\ mqttPc = "line"
    /\ input_data' = inbound.chars
    /\ altairInputBufReadIndex' = 0
    /\ terminalInputMessageLen' = Len(inbound.chars)
    /\ haveTerminalInputMessage' = TRUE
    /\ typed' = typed \o inbound.chars
    /\ mqttPc' = "lock"
    /\ UNCHANGED <<modeVars, inbound, received,
                   ctrlVars, appVars, readVars, gotVars,
                   crAfter, loaded, overlapped>>

\* Mutant: the thread does not wait for the line to be read.
WaitProcessedNot ==
    /\ mqttPc = "lock"
    /\ mqttPc' = IF inbound.cr THEN "ctrl" ELSE "idle"
    /\ UNCHANGED <<modeVars, inbound, received, lineVars, ctrlVars, appVars, readVars,
                   gotVars, sentVars>>

\* The lock is taken and given back by the wait, in one step; whether the line
\* has been read already is not looked at.
WaitProcessed ==
    /\ mqttPc = "lock"
    /\ mqttPc' = "waiting"
    /\ UNCHANGED <<modeVars, inbound, received, lineVars, ctrlVars, appVars, readVars,
                   gotVars, sentVars>>

\* Mutant: the message is taken for its first character.
SetCtrlCharacterWhole ==
    /\ mqttPc = "ctrl"
    /\ haveCtrlCharacter' = Char("ctrl", inbound.chars)
    /\ mqttPc' = "pending"
    /\ UNCHANGED <<modeVars, inbound, received, lineVars, haveCtrlPending, appVars,
                   readVars, gotVars, sentVars>>

\* A carriage return at the end of a line is sent as a control character.
SetCtrlCharacter ==
    /\ mqttPc = "ctrl"
    /\ haveCtrlCharacter' = IF inbound.kind = "line" THEN Char("cr", CR)
                                                     ELSE Char("ctrl", Head(inbound.chars))
    /\ crAfter' = IF inbound.kind = "line" THEN Len(typed) ELSE crAfter
    /\ mqttPc' = "pending"
    /\ UNCHANGED <<modeVars, inbound, received, lineVars, haveCtrlPending, appVars,
                   readVars, gotVars, typed, loaded, overlapped>>

SetCtrlPending ==
    /\ mqttPc = "pending"
    /\ haveCtrlPending' = TRUE
    /\ mqttPc' = "idle"
    /\ UNCHANGED <<modeVars, inbound, received, lineVars, haveCtrlCharacter, appVars,
                   readVars, gotVars, sentVars>>

ToggleMonitor ==
    /\ mqttPc = "monitor"
    /\ cpu_operating_mode' =
          IF cpu_operating_mode = "running" THEN "stopped" ELSE "running"
    /\ mqttPc' = "idle"
    /\ UNCHANGED <<steps, raced, inbound, received, lineVars, ctrlVars, appVars,
                   readVars, gotVars, sentVars>>

\* process_virtual_input: a command makes one single step, or none.
CommandDone ==
    /\ mqttPc \in {"command", "stepping"}
    /\ at["mqtt"] = "idle"
    /\ mqttPc' = "idle"
    /\ UNCHANGED <<modeVars, inbound, received, lineVars, ctrlVars, appVars,
                   readVars, gotVars, sentVars>>

(***************************************************************************)
(* load_application: the buffer has room for the file and nine bytes.  The *)
(* file, of two bytes or more, goes to index 5; the four bytes to follow it *)
(* are put two too early.                                                  *)
(***************************************************************************)
AppImage(file) ==
    <<CR, LF, CR, LF, NUL>> \o SubSeq(file, 1, Len(file) - 2)
                            \o <<CR, LF, CR, LF, NUL, NUL>>

\* An earlier program has not been read to its end.
AppInUse == haveAppLoad \/ \E t \in Readers : at[t] = "free"

FillApp ==
    /\ mqttPc = "loading"
    /\ ptrBasicApp' = AppImage(inbound.chars)
    /\ terminalInputMessageLen' = Len(inbound.chars) + 4
    /\ overlapped' = (overlapped \/ AppInUse)
    /\ loaded' = inbound.chars
    /\ gotApp' = <<>>
    /\ mqttPc' = "filled"
    /\ UNCHANGED <<modeVars, inbound, received, input_data,
                   altairInputBufReadIndex, haveTerminalInputMessage,
                   ctrlVars,
                   appLoadPtr, basicAppLength, haveAppLoad, readVars, gotLine,
                   typed, crAfter>>

RewindApp ==
    /\ mqttPc = "filled"
    /\ appLoadPtr' = 0
    /\ mqttPc' = "rewound"
    /\ UNCHANGED <<modeVars, inbound, received, lineVars, ctrlVars, ptrBasicApp,
                   basicAppLength, haveAppLoad, readVars, gotVars, sentVars>>

\* Mutant: the length is the one a line would have.
OfferAppShort ==
    /\ mqttPc = "rewound"
    /\ basicAppLength' = Len(inbound.chars) + 4
    /\ haveAppLoad' = TRUE
    /\ mqttPc' = "idle"
    /\ UNCHANGED <<modeVars, inbound, received, lineVars, ctrlVars, ptrBasicApp,
                   appLoadPtr, readVars, gotVars, sentVars>>

\* Mutant: the length is off by one.
OfferAppLong ==
    /\ mqttPc = "rewound"
    /\ basicAppLength' = Len(inbound.chars) + 10
    /\ haveAppLoad' = TRUE
    /\ mqttPc' = "idle"
    /\ UNCHANGED <<modeVars, inbound, received, lineVars, ctrlVars, ptrBasicApp,
                   appLoadPtr, readVars, gotVars, sentVars>>

OfferApp ==
    /\ mqttPc = "rewound"
    /\ basicAppLength' = Len(inbound.chars) + 9
    /\ haveAppLoad' = TRUE
    /\ mqttPc' = "idle"
    /\ UNCHANGED <<modeVars, inbound, received, lineVars, ctrlVars, ptrBasicApp,
                   appLoadPtr, readVars, gotVars, sentVars>>

-----------------------------------------------------------------------------
(***************************************************************************)
(* A reader t.  It is inside from its look at the mode to the end of the   *)
(* instruction; raced says that two were inside at the same time.  Nothing *)
(* is claimed from then on, nor of programs that overlapped, and what the  *)
(* guest got is not recorded.                                              *)
(***************************************************************************)
Outside(t) == at[t] = "idle"

Goto(t, l) == at' = [at EXCEPT ![t] = l]

\* i8080_cycle: altair_thread calls it while the CPU runs, and
\* process_control_panel_commands for a single step if the CPU is stopped.
Cycle(t) ==
    /\ Outside(t)
    /\ cpu_operating_mode = IF t = "cpu" THEN "running" ELSE "stopped"
    /\ t = "mqtt" => mqttPc = "command"
    /\ mqttPc' = IF t = "mqtt" THEN "stepping" ELSE mqttPc
    /\ steps' = IF t = "cpu" THEN steps ELSE steps + 1
    /\ steps' <= MaxSteps
    /\ UNCHANGED <<cpu_operating_mode, inbound, received>>

\* An IN from the status or from the data port of the 2SIO.
ReadPort(t, p) ==
    /\ Cycle(t)
    /\ Goto(t, "port")
    /\ port' = [port EXCEPT ![t] = p]
    /\ raced' = (raced \/ \E u \in Readers \ {t} : ~Outside(u))
    /\ UNCHANGED <<lineVars, ctrlVars, appVars, retVal, character, gotVars,
                   sentVars>>

Give(c) ==
    /\ gotLine' = IF c.from = "line" /\ ~raced THEN Append(gotLine, c.byte)
                                               ELSE gotLine
    /\ gotApp' = IF c.from = "app" /\ ~raced /\ ~overlapped
                 THEN Append(gotApp, c.byte) ELSE gotApp

Leave(t) == Goto(t, "idle") /\ port' = [port EXCEPT ![t] = "none"]

\* A character that is returned to the data port goes to the guest, one returned to
\* the status port is kept in the latch; NUL is no character.
Return(t, c) ==
    /\ Leave(t)
    /\ retVal' = [retVal EXCEPT ![t] = NoChar]
    /\ IF c.byte = NUL THEN UNCHANGED <<character, gotVars>>
       ELSE IF port[t] = "data" THEN Give(c) /\ UNCHANGED character
       ELSE character' = c /\ UNCHANGED gotVars

\* A full latch answers the status port, and is emptied by the data port.
UseLatch(t) ==
    /\ at[t] = "port" /\ character # NoChar
    /\ Leave(t)
    /\ IF port[t] = "data" THEN Give(character) /\ character' = NoChar
                           ELSE UNCHANGED <<character, gotVars>>
    /\ UNCHANGED <<modeVars, mqttVars, lineVars, ctrlVars, appVars, retVal,
                   sentVars>>

\* altair_read_terminal is called if the latch is empty.
ReadTerminal(t) ==
    /\ at[t] = "port" /\ character = NoChar
    /\ Goto(t, "entry")
    /\ UNCHANGED <<modeVars, mqttVars, lineVars, ctrlVars, appVars, port,
                   retVal, character, gotVars, sentVars>>

\* Control characters overtake the line.
ClearCtrlPending(t) ==
    /\ at[t] = "entry"
    /\ haveCtrlPending' = FALSE
    /\ Goto(t, IF haveCtrlPending THEN "ctrl" ELSE "lines")
    /\ UNCHANGED <<modeVars, mqttVars, lineVars, haveCtrlCharacter, appVars,
                   port, retVal, character, gotVars, sentVars>>

TakeCtrlCharacter(t) ==
    /\ at[t] = "ctrl"
    /\ Return(t, haveCtrlCharacter)
    /\ UNCHANGED <<modeVars, mqttVars, lineVars, ctrlVars, appVars, sentVars>>

\* Behind a buffer, and in one that has been freed, there is any byte.
ByteAt(buffer, i) ==
    IF i < Len(buffer) THEN {buffer[i + 1]} ELSE Printable \cup {NUL, CR, LF}

TakeLineCharacter(t) ==
    /\ at[t] = "lines"
    /\ haveTerminalInputMessage
    /\ \E byte \in ByteAt(input_data, altairInputBufReadIndex) :
          retVal' = [retVal EXCEPT ![t] = Char("line", byte)]
    /\ altairInputBufReadIndex' = altairInputBufReadIndex + 1
    /\ Goto(t, "lineEnd")
    /\ UNCHANGED <<modeVars, mqttVars, input_data, terminalInputMessageLen,
                   haveTerminalInputMessage, ctrlVars, appVars, port,
                   character, gotVars, sentVars>>

LineGoesOn(t) ==
    /\ at[t] = "lineEnd"
    /\ altairInputBufReadIndex < terminalInputMessageLen
    /\ Return(t, retVal[t])
    /\ UNCHANGED <<modeVars, mqttVars, lineVars, ctrlVars, appVars, sentVars>>

LineEnds(t) ==
    /\ at[t] = "lineEnd"
    /\ altairInputBufReadIndex >= terminalInputMessageLen
    /\ haveTerminalInputMessage' = FALSE
    /\ Goto(t, "signal")
    /\ UNCHANGED <<modeVars, mqttVars, input_data, altairInputBufReadIndex,
                   terminalInputMessageLen, ctrlVars, appVars, port, retVal,
                   character, gotVars, sentVars>>

\* Mutant: the condition is not signalled.
SignalForgotten(t) ==
    /\ at[t] = "signal"
    /\ Return(t, retVal[t])
    /\ UNCHANGED <<modeVars, mqttVars, lineVars, ctrlVars, appVars, sentVars>>

\* Nobody hears a signal before the wait.  The thread that does goes on.
SignalProcessed(t) ==
    /\ at[t] = "signal"
    /\ mqttPc' = IF mqttPc # "waiting" THEN mqttPc
                 ELSE IF inbound.cr THEN "ctrl" ELSE "idle"
    /\ Return(t, retVal[t])
    /\ UNCHANGED <<modeVars, inbound, received, lineVars, ctrlVars, appVars,
                   sentVars>>

\* No control character, no line and no program.
NothingToRead(t) ==
    /\ at[t] = "lines"
    /\ ~haveTerminalInputMessage /\ ~haveAppLoad
    /\ Return(t, NoChar)
    /\ UNCHANGED <<modeVars, mqttVars, lineVars, ctrlVars, appVars, sentVars>>

\* The character is published, which may take its time, before the end is tested.
TakeAppCharacter(t) ==
    /\ at[t] = "lines"
    /\ ~haveTerminalInputMessage /\ haveAppLoad
    /\ \E byte \in ByteAt(ptrBasicApp, appLoadPtr) :
          retVal' = [retVal EXCEPT ![t] = Char("app", byte)]
    /\ appLoadPtr' = appLoadPtr + 1
    /\ Goto(t, "appEnd")
    /\ UNCHANGED <<modeVars, mqttVars, lineVars, ctrlVars, ptrBasicApp,
                   basicAppLength, haveAppLoad, port, character, gotVars, sentVars>>

AppGoesOn(t) ==
    /\ at[t] = "appEnd"
    /\ appLoadPtr # basicAppLength
    /\ Return(t, retVal[t])
    /\ UNCHANGED <<modeVars, mqttVars, lineVars, ctrlVars, appVars, sentVars>>

AppEnds(t) ==
    /\ at[t] = "appEnd"
    /\ appLoadPtr = basicAppLength
    /\ haveAppLoad' = FALSE
    /\ Goto(t, "free")
    /\ UNCHANGED <<modeVars, mqttVars, lineVars, ctrlVars, ptrBasicApp,
                   appLoadPtr, basicAppLength, port, retVal, character, gotVars,
                   sentVars>>

FreeApp(t) ==
    /\ at[t] = "free"
    /\ ptrBasicApp' = <<>>
    /\ Goto(t, "rewind")
    /\ UNCHANGED <<modeVars, mqttVars, lineVars, ctrlVars, appLoadPtr,
                   basicAppLength, haveAppLoad, port, retVal, character, gotVars,
                   sentVars>>

AppRead(t) ==
    /\ at[t] = "rewind"
    /\ appLoadPtr' = 0
    /\ Return(t, retVal[t])
    /\ UNCHANGED <<modeVars, mqttVars, lineVars, ctrlVars, ptrBasicApp,
                   basicAppLength, haveAppLoad, sentVars>>

\* A device twin, a button or a panel.
ChangeMode ==
    /\ cpu_operating_mode' =
          IF cpu_operating_mode = "running" THEN "stopped" ELSE "running"
    /\ UNCHANGED <<steps, raced, mqttVars, lineVars, ctrlVars, appVars,
                   readVars, gotVars, sentVars>>

-----------------------------------------------------------------------------
MqttStep ==
    \/ HandLineOver \/ WaitProcessed
    \/ SetCtrlCharacter \/ SetCtrlPending
    \/ ToggleMonitor \/ CommandDone
    \/ FillApp \/ RewindApp \/ OfferApp

ReaderStep(t) ==
    \/ UseLatch(t) \/ ReadTerminal(t)
    \/ ClearCtrlPending(t) \/ TakeCtrlCharacter(t)
    \/ TakeLineCharacter(t) \/ LineGoesOn(t) \/ LineEnds(t) \/ SignalProcessed(t)
    \/ NothingToRead(t)
    \/ TakeAppCharacter(t) \/ AppGoesOn(t) \/ AppEnds(t) \/ FreeApp(t) \/ AppRead(t)

Next ==
    \/ \E m \in Messages : Receive(m)
    \/ MqttStep
    \/ \E t \in Readers : \/ \E p \in {"status", "data"} : ReadPort(t, p)
                          \/ ReaderStep(t)
    \/ ChangeMode

Spec == Init /\ [][Next]_vars

(***************************************************************************)
(* The threads run on, and the guest reads the data port of its terminal   *)
(* again and again while the CPU runs, whatever else it does: that is the  *)
(* guest's doing, and LineIsRead is about such a guest.                    *)
(***************************************************************************)
Fairness ==
    /\ WF_vars(MqttStep)
    /\ \A t \in Readers : WF_vars(ReaderStep(t))
    /\ SF_vars(ReadPort("cpu", "data"))

FairSpec == Spec /\ Fairness

-----------------------------------------------------------------------------
(***************************************************************************)
(* Properties.                                                             *)
(***************************************************************************)
MqttPlaces == {"idle", "line", "lock", "waiting", "ctrl", "pending",
               "monitor", "command", "stepping", "loading", "filled", "rewound"}
ReaderPlaces == {"idle", "port", "entry", "ctrl", "lines", "lineEnd", "signal",
                 "appEnd", "free", "rewind"}
Bytes == Printable \cup {NUL, CR, LF}
Chars == [from : {"none", "line", "cr", "ctrl", "app"}, byte : Bytes]

\* Type invariant.
TypeOK ==
    /\ cpu_operating_mode \in {"running", "stopped"} /\ steps \in 0..MaxSteps
    /\ mqttPc \in MqttPlaces /\ inbound \in Messages \cup {Monitor}
    /\ received \in 0..MaxMessages
    /\ input_data \in Seq(Printable) /\ altairInputBufReadIndex \in Nat
    /\ terminalInputMessageLen \in Nat /\ haveTerminalInputMessage \in BOOLEAN
    /\ haveCtrlPending \in BOOLEAN /\ haveCtrlCharacter \in Chars
    /\ ptrBasicApp \in Seq(Bytes) /\ appLoadPtr \in Nat /\ basicAppLength \in Nat
    /\ haveAppLoad \in BOOLEAN
    /\ at \in [Readers -> ReaderPlaces]
    /\ port \in [Readers -> {"none", "status", "data"}]
    /\ retVal \in [Readers -> Chars] /\ character \in Chars
    /\ typed \in Seq(Printable) /\ gotLine \in Seq(Bytes)
    /\ gotApp \in Seq(Bytes) /\ crAfter \in Nat /\ loaded \in Seq(Printable)
    /\ overlapped \in BOOLEAN /\ raced \in BOOLEAN

\* The character that has been taken and not yet been given to the guest: the one of
\* the thread that is in altair_read_terminal, which is called when the latch is empty,
\* or else the one in the latch.
Reading(t) == at[t] \notin {"idle", "port"}

InHand ==
    IF \E t \in Readers : Reading(t)
    THEN retVal[CHOOSE t \in Readers : Reading(t)] ELSE character

InHandFrom(from) ==
    IF InHand.from = from /\ InHand.byte # NUL THEN <<InHand.byte>> ELSE <<>>

Unread ==
    IF haveTerminalInputMessage
    THEN SubSeq(input_data, altairInputBufReadIndex + 1, terminalInputMessageLen)
    ELSE <<>>

\* Every character of every line reaches the guest once and in its place, although
\* the lines share one buffer, one index and one flag, whichever threads read them one
\* after the other: the CPU thread, or one that single-steps.  The exception, here and
\* below, is a single step made while another thread is inside.
LinesArrive == ~raced => typed = gotLine \o InHandFrom("line") \o Unread

\* The carriage return of a line, sent as a control character that overtakes
\* lines, does not overtake its own line.
CrAfterLine == ~raced /\ InHand.from = "cr" => crAfter <= Len(gotLine)

\* The bytes of s behind the k-th that are characters, joined from the end: the
\* n-th byte from the end stands before the characters of the n - 1 behind it.
NotNulFrom(s, k) ==
    LET byte(n) == s[Len(s) + 1 - n]
        last[n \in Nat] ==
            IF n = 0 THEN <<>>
            ELSE (IF byte(n) = NUL THEN <<>> ELSE <<byte(n)>>) \o last[n - 1]
    IN  last[Len(s) - k]

\* What load_application leaves in the buffer, its characters, reaches the guest in
\* order and each once, whatever is typed and single-stepped meanwhile, if no other
\* program was being read when it was loaded.  That is less than the program: the
\* buffer lacks the last two bytes of the file (ProgramIsWrapped).
ImageArrives ==
    ~raced /\ ~overlapped /\ mqttPc \notin {"filled", "rewound"} =>
        gotApp \o InHandFrom("app")
               \o (IF haveAppLoad /\ appLoadPtr < Len(ptrBasicApp)
                   THEN NotNulFrom(ptrBasicApp, appLoadPtr) ELSE <<>>)
          = IF loaded = <<>> THEN <<>> ELSE NotNulFrom(AppImage(loaded), 0)

\* No thread reads a byte behind the line that was handed over, nor, as long as
\* programs are loaded one after the other, behind the program or of one that has
\* been freed.  A single step made while the CPU thread publishes the last byte, before
\* it tests for the end, does read behind the program: that is the exception.
ReadsOwnedMemory ==
    \A t \in Readers : at[t] = "lines" /\ ~raced =>
        /\ haveTerminalInputMessage => altairInputBufReadIndex < Len(input_data)
        /\ ~haveTerminalInputMessage /\ haveAppLoad /\ ~overlapped =>
               appLoadPtr < Len(ptrBasicApp)

\* A line the MQTT thread waits for is read, if it was not yet read when the
\* wait began and the CPU is not stopped.
LineIsRead ==
    mqttPc = "waiting" /\ haveTerminalInputMessage
        ~> mqttPc # "waiting" \/ cpu_operating_mode = "stopped" \/ raced

\* What the names of the lock and the condition say of the wait: it is for a
\* message that is still to be processed.  A line that is read before the MQTT
\* thread waits leaves it waiting for ever.
WaitsForUnreadLine ==
    mqttPc = "waiting" /\ ~raced =>
        haveTerminalInputMessage \/ \E t \in Readers : at[t] = "signal"

\* What the comment on the wrapping says: two line ends before the program and
\* two behind it.
ProgramIsWrapped ==
    haveAppLoad /\ ~raced /\ ~overlapped =>
        NotNulFrom(ptrBasicApp, 0) = <<CR, LF, CR, LF>> \o loaded \o <<CR, LF, CR, LF>>
=============================================================================
