------------------------ MODULE TerminalInputProofs ------------------------
(***************************************************************************)
(* For every set of messages, and whichever threads read, until a single   *)
(* step is made while another thread is inside: each character of each     *)
(* line reaches the guest once and in order, a carriage return after its   *)
(* line, each buffer that load_application fills in order (without the two *)
(* bytes the buffer lacks), and nobody reads a byte outside it.            *)
(*                                                                         *)
(* Until two threads are inside at once (raced) the readers are one:       *)
(* Place, Held and character are its state, OneNext its steps, and every   *)
(* step of Next is one of them (ReadersAreOne).  What follows is about it. *)
(*                                                                         *)
(* LinesArrive is not inductive: it needs to know that the MQTT thread is  *)
(* held while a line is unread (HandOver), so that nothing else writes the *)
(* variables of the line, and where the one character in flight is.        *)
(* CrBehind generalises CrAfterLine to the time before the carriage return *)
(* is taken, and AppOwned ties the length of a program to its buffer.      *)
(* ImageArrives needs AppAt besides: which bytes the buffer holds, and     *)
(* that a program leaves nothing behind, because its last byte is no       *)
(* character.  What NotNulFrom is for every sequence follows from the      *)
(* least number for which a claim fails.                                   *)
(***************************************************************************)
EXTENDS TerminalInput, SequenceTheorems, WellFoundedInduction, TLAPS

Handing == {"lock", "waiting"}

MqttAt ==
    /\ mqttPc \in {"line"} \cup Handing => inbound.kind = "line" /\ inbound.chars # <<>>
    /\ mqttPc = "ctrl" => inbound.kind \in {"line", "control"}
    /\ mqttPc \in {"loading", "filled", "rewound"} => inbound.kind = "load"

\* One thread at most is inside, and only such a thread holds a character.
Alone ==
    /\ ~raced => \A t, u \in Readers : Outside(t) \/ Outside(u) \/ t = u
    /\ \A t \in Readers : ~Reading(t) => retVal[t] = NoChar

\* The thread in altair_read_terminal, if any, and what it has taken.
Place ==
    IF \E t \in Readers : Reading(t)
    THEN at[CHOOSE t \in Readers : Reading(t)] ELSE "idle"

Held ==
    IF \E t \in Readers : Reading(t)
    THEN retVal[CHOOSE t \in Readers : Reading(t)] ELSE NoChar

oneVars == <<Place, Held, character>>

InFlight ==
    /\ Place # "idle" => character = NoChar
    /\ Place \in {"idle", "entry", "ctrl", "lines"} => Held = NoChar
    /\ Place \in {"lineEnd", "signal"} => Held.from = "line"
    /\ Place \in {"appEnd", "free", "rewind"} => Held.from = "app"
    /\ Held.from = "line" => Held.byte \in Printable
    /\ character.from = "line" => character.byte \in Printable
    /\ haveCtrlCharacter.from \in {"none", "cr", "ctrl"}
    /\ character.byte = NUL => character = NoChar
    /\ gotLine \in Seq(Printable)

HandOver ==
    /\ haveTerminalInputMessage =>
          /\ mqttPc \in Handing
          /\ terminalInputMessageLen = Len(input_data)
          /\ altairInputBufReadIndex <= Len(input_data)
          /\ Place # "lineEnd" => altairInputBufReadIndex < Len(input_data)
    /\ Place = "lineEnd" => haveTerminalInputMessage
    /\ Place = "signal" => ~haveTerminalInputMessage /\ mqttPc \in Handing

\* What has been taken from the lines.
Delivered == gotLine \o InHandFrom("line")

CrBehind == crAfter <= Len(Delivered)

AppOwned ==
    ~overlapped =>
        /\ haveAppLoad => /\ basicAppLength = Len(ptrBasicApp)
                          /\ appLoadPtr <= basicAppLength
                          /\ Place # "appEnd" => appLoadPtr < basicAppLength
        /\ mqttPc \in {"filled", "rewound"} =>
              /\ ~haveAppLoad
              /\ Len(ptrBasicApp) = Len(inbound.chars) + 9
              /\ Place \notin {"appEnd", "free"}
        /\ mqttPc = "rewound" => appLoadPtr = 0
        /\ Place = "appEnd" => haveAppLoad
        /\ Place = "free" => ~haveAppLoad

\* What has been taken from the program, and what has not.
Got == gotApp \o InHandFrom("app")

Rest ==
    IF haveAppLoad /\ appLoadPtr < Len(ptrBasicApp)
    THEN NotNulFrom(ptrBasicApp, appLoadPtr) ELSE <<>>

\* The buffer is filled and not yet offered.
Loading == mqttPc \in {"filled", "rewound"}

\* What the buffer holds is to reach the guest.
Image ==
    ~overlapped /\ ~Loading =>
        Got \o Rest = IF loaded = <<>> THEN <<>> ELSE NotNulFrom(AppImage(loaded), 0)

\* Which bytes the buffer holds; that nothing is left of the program before; and
\* that the last write of the reader, behind the flag, rewinds nothing.
AppAt ==
    ~overlapped =>
        /\ haveAppLoad \/ Loading => Len(loaded) >= 2 /\ ptrBasicApp = AppImage(loaded)
        /\ Loading => gotApp = <<>>
        /\ ~haveAppLoad => InHandFrom("app") = <<>>
        /\ Place = "appEnd" => Held.byte = ptrBasicApp[appLoadPtr]
        /\ Place = "rewind" /\ haveAppLoad => appLoadPtr = 0

\* The lines, without the programs.
Lines == typed = Delivered \o Unread

LineInv == InFlight /\ HandOver /\ Lines /\ CrBehind

AppInv == AppOwned /\ AppAt /\ Image

Inv == TypeOK /\ MqttAt /\ Alone /\ (~raced => LineInv /\ AppInv)
-----------------------------------------------------------------------------
(***************************************************************************)
(* The one reader.  Each action is that of the same name, of whichever     *)
(* thread makes it.                                                        *)
(***************************************************************************)
OneReturn(c) ==
    /\ Place' = "idle" /\ Held' = NoChar
    /\ \/ c.byte = NUL /\ UNCHANGED <<character, gotVars>>
       \/ c.byte # NUL /\ Give(c) /\ UNCHANGED character
       \/ c.byte # NUL /\ character' = c /\ UNCHANGED gotVars

OneUsesLatch ==
    /\ Place = "idle" /\ character # NoChar
    /\ Give(character) /\ character' = NoChar
    /\ UNCHANGED <<Place, Held, mqttVars, lineVars, ctrlVars, appVars, sentVars>>

OneReadTerminal ==
    /\ Place = "idle" /\ character = NoChar /\ Place' = "entry"
    /\ UNCHANGED <<Held, character, mqttVars, lineVars, ctrlVars, appVars, gotVars,
                   sentVars>>

OneClearCtrlPending ==
    /\ Place = "entry" /\ Place' \in {"ctrl", "lines"}
    /\ UNCHANGED <<Held, character, mqttVars, lineVars, haveCtrlCharacter, appVars,
                   gotVars, sentVars>>

OneTakeCtrlCharacter ==
    /\ Place = "ctrl" /\ OneReturn(haveCtrlCharacter)
    /\ UNCHANGED <<mqttVars, lineVars, ctrlVars, appVars, sentVars>>

OneTakeLineCharacter ==
    /\ Place = "lines" /\ Place' = "lineEnd" /\ haveTerminalInputMessage
    /\ \E byte \in ByteAt(input_data, altairInputBufReadIndex) :
          Held' = Char("line", byte)
    /\ altairInputBufReadIndex' = altairInputBufReadIndex + 1
    /\ UNCHANGED <<character, mqttVars, input_data, terminalInputMessageLen,
                   haveTerminalInputMessage, ctrlVars, appVars, gotVars, sentVars>>

OneLineGoesOn ==
    /\ Place = "lineEnd" /\ OneReturn(Held)
    /\ altairInputBufReadIndex < terminalInputMessageLen
    /\ UNCHANGED <<mqttVars, lineVars, ctrlVars, appVars, sentVars>>

OneLineEnds ==
    /\ Place = "lineEnd" /\ Place' = "signal"
    /\ altairInputBufReadIndex >= terminalInputMessageLen
    /\ haveTerminalInputMessage' = FALSE
    /\ UNCHANGED <<Held, character, mqttVars, input_data, altairInputBufReadIndex,
                   terminalInputMessageLen, ctrlVars, appVars, gotVars, sentVars>>

OneSignalProcessed ==
    /\ Place = "signal" /\ OneReturn(Held)
    /\ mqttPc' # mqttPc => mqttPc = "waiting" /\ mqttPc' \in {"ctrl", "idle"}
    /\ UNCHANGED <<inbound, received, lineVars, ctrlVars, appVars, sentVars>>

OneNothingToRead ==
    /\ Place = "lines" /\ OneReturn(NoChar)
    /\ UNCHANGED <<mqttVars, lineVars, ctrlVars, appVars, sentVars>>

OneTakeAppCharacter ==
    /\ Place = "lines" /\ Place' = "appEnd" /\ ~haveTerminalInputMessage /\ haveAppLoad
    /\ \E byte \in ByteAt(ptrBasicApp, appLoadPtr) : Held' = Char("app", byte)
    /\ appLoadPtr' = appLoadPtr + 1
    /\ UNCHANGED <<character, mqttVars, lineVars, ctrlVars, ptrBasicApp,
                   basicAppLength, haveAppLoad, gotVars, sentVars>>

OneAppGoesOn ==
    /\ Place = "appEnd" /\ OneReturn(Held) /\ appLoadPtr # basicAppLength
    /\ UNCHANGED <<mqttVars, lineVars, ctrlVars, appVars, sentVars>>

OneAppEnds ==
    /\ Place = "appEnd" /\ Place' = "free" /\ appLoadPtr = basicAppLength
    /\ haveAppLoad' = FALSE
    /\ UNCHANGED <<Held, character, mqttVars, lineVars, ctrlVars, ptrBasicApp,
                   appLoadPtr, basicAppLength, gotVars, sentVars>>

OneFreeApp ==
    /\ Place = "free" /\ Place' = "rewind" /\ ptrBasicApp' = <<>>
    /\ UNCHANGED <<Held, character, mqttVars, lineVars, ctrlVars, appLoadPtr,
                   basicAppLength, haveAppLoad, gotVars, sentVars>>

OneAppRead ==
    /\ Place = "rewind" /\ OneReturn(Held) /\ appLoadPtr' = 0
    /\ UNCHANGED <<mqttVars, lineVars, ctrlVars, ptrBasicApp, basicAppLength,
                   haveAppLoad, sentVars>>

\* Everything else: a port is read or answered, the mode changes.
OneOutside ==
    /\ mqttPc' # mqttPc => mqttPc = "command" /\ mqttPc' = "stepping"
    /\ UNCHANGED <<oneVars, inbound, lineVars, ctrlVars, appVars, gotVars, sentVars>>

OneReaderStep ==
    \/ OneUsesLatch \/ OneReadTerminal
    \/ OneClearCtrlPending \/ OneTakeCtrlCharacter
    \/ OneTakeLineCharacter \/ OneLineGoesOn \/ OneLineEnds \/ OneSignalProcessed
    \/ OneNothingToRead
    \/ OneTakeAppCharacter \/ OneAppGoesOn \/ OneAppEnds \/ OneFreeApp \/ OneAppRead

OneNext ==
    \/ \E m \in Messages : Receive(m) /\ UNCHANGED oneVars
    \/ MqttStep /\ UNCHANGED oneVars
    \/ OneReaderStep
    \/ OneOutside

-----------------------------------------------------------------------------
(***************************************************************************)
(* Types.                                                                  *)
(***************************************************************************)
LEMMA MessageFacts ==
    ASSUME NEW m \in Messages \cup {Monitor}
    PROVE  /\ m.chars \in Seq(Printable)
           /\ m.kind \in {"line", "load", "control", "monitor"}
           /\ m.kind = "control" => m.chars # <<>> /\ Head(m.chars) \in Printable
           /\ m.kind = "load" => Len(m.chars) >= 2
  <1>1. CASE m = Monitor
    BY <1>1 DEF Monitor
  <1>2. CASE m.chars \in Seq(Printable) /\ m.cr \in BOOLEAN /\ m = Line(m.chars, m.cr)
    <2>1. m.kind = "line"
      BY <1>2 DEF Line
    <2> QED
      BY <1>2, <2>1
  <1>3. CASE m.chars \in Seq(Printable) /\ Len(m.chars) >= 2 /\ m = Load(m.chars)
    <2>1. m.kind = "load"
      BY <1>3 DEF Load
    <2> QED
      BY <1>3, <2>1
  <1>5. CASE \E c \in Printable : m = Control(c)
    <2>1. PICK c \in Printable : m = Control(c)
      BY <1>5
    <2>2. m.kind = "control" /\ m.chars = <<c>>
      BY <2>1 DEF Control
    <2>3. <<c>> \in Seq(Printable) /\ <<c>> # <<>> /\ Head(<<c>>) = c
      OBVIOUS
    <2> QED
      BY <2>2, <2>3
  <1> QED
    BY <1>1, <1>2, <1>3, <1>5, TerminalAssumption

LEMMA CharFacts ==
    ASSUME NEW from \in {"none", "line", "cr", "ctrl", "app"}, NEW byte \in Bytes
    PROVE  /\ Char(from, byte) \in Chars
           /\ Char(from, byte).from = from
           /\ Char(from, byte).byte = byte
           /\ NoChar \in Chars /\ NoChar.from = "none" /\ NoChar.byte = NUL
  BY DEF Char, Chars, NoChar, Bytes

LEMMA AppImageFacts ==
    ASSUME NEW file \in Seq(Printable), Len(file) >= 2
    PROVE  AppImage(file) \in Seq(Bytes) /\ Len(AppImage(file)) = Len(file) + 9
  <1> DEFINE first == <<CR, LF, CR, LF, NUL>>
             middle == SubSeq(file, 1, Len(file) - 2)
             last == <<CR, LF, CR, LF, NUL, NUL>>
  <1>b. NUL \in Bytes /\ CR \in Bytes /\ LF \in Bytes /\ Printable \subseteq Bytes
    BY DEF Bytes
  <1>1. first \in Seq(Bytes) /\ Len(first) = 5
    BY <1>b
  <1>2. last \in Seq(Bytes) /\ Len(last) = 6
    BY <1>b
  <1>3. middle \in Seq(Bytes) /\ Len(middle) = Len(file) - 2
    <2>1. Len(file) - 2 \in Int /\ \A i \in 1..Len(file) - 2 : file[i] \in Bytes
      BY <1>b, LenProperties
    <2>2. /\ middle \in Seq(Bytes)
          /\ Len(middle) = IF 1 <= Len(file) - 2 THEN Len(file) - 2 - 1 + 1 ELSE 0
      BY <2>1, SubSeqProperties
    <2> HIDE DEF first, middle, last
    <2> DEFINE n == Len(file)
    <2>3. n \in Nat /\ n >= 2
      OBVIOUS
    <2>4. middle \in Seq(Bytes) /\ Len(middle) = IF 1 <= n - 2 THEN n - 2 - 1 + 1 ELSE 0
      BY <2>2
    <2> HIDE DEF n
    <2>5. Len(middle) = n - 2
      BY <2>3, <2>4
    <2> QED
      BY <2>4, <2>5 DEF n
  <1>4. AppImage(file) = (first \o middle) \o last
    BY DEF AppImage
  <1> HIDE DEF first, middle, last
  <1>5. first \o middle \in Seq(Bytes) /\ Len(first \o middle) = Len(first) + Len(middle)
    BY <1>1, <1>3, ConcatProperties
  <1> DEFINE start == first \o middle
  <1>6. start \in Seq(Bytes) /\ Len(start) = Len(file) + 3
    <2>1. Len(file) \in Nat
      OBVIOUS
    <2> QED
      BY <1>1, <1>3, <1>5, <2>1
  <1>7. AppImage(file) = start \o last
    BY <1>4
  <1> HIDE DEF start
  <1>8. start \o last \in Seq(Bytes) /\ Len(start \o last) = Len(start) + Len(last)
    BY <1>2, <1>6, ConcatProperties
  <1>9. Len(file) \in Nat
    OBVIOUS
  <1> QED
    BY <1>2, <1>6, <1>7, <1>8, <1>9

LEMMA GiveFacts ==
    ASSUME NEW c \in Chars, Give(c), gotLine \in Seq(Bytes), gotApp \in Seq(Bytes)
    PROVE  gotLine' \in Seq(Bytes) /\ gotApp' \in Seq(Bytes)
  BY DEF Give, Chars

LEMMA ReturnFacts ==
    ASSUME TypeOK, NEW t \in Readers, NEW c \in Chars, Return(t, c)
    PROVE  /\ at' \in [Readers -> ReaderPlaces]
           /\ port' \in [Readers -> {"none", "status", "data"}]
           /\ retVal' \in [Readers -> Chars] /\ character' \in Chars
           /\ gotLine' \in Seq(Bytes) /\ gotApp' \in Seq(Bytes)
  <1>1. NoChar \in Chars
    BY CharFacts DEF Bytes
  <1>2. character' \in Chars /\ gotLine' \in Seq(Bytes) /\ gotApp' \in Seq(Bytes)
    <2>1. CASE c.byte = NUL
      BY <2>1 DEF Return, gotVars, TypeOK
    <2>2. CASE c.byte # NUL /\ port[t] = "data"
      BY <2>2, GiveFacts DEF Return, TypeOK
    <2>3. CASE c.byte # NUL /\ port[t] # "data"
      BY <2>3 DEF Return, gotVars, TypeOK
    <2> QED
      BY <2>1, <2>2, <2>3
  <1> QED
    BY <1>1, <1>2 DEF Return, Leave, Goto, TypeOK, ReaderPlaces

LEMMA ByteAtFacts ==
    ASSUME NEW s \in Seq(Bytes), NEW i \in Nat
    PROVE  ByteAt(s, i) \subseteq Bytes
  BY ElementOfSeq DEF ByteAt, Bytes

LEMMA MqttTypeStep ==
    ASSUME TypeOK, MqttAt, MqttStep
    PROVE  TypeOK'
  <1> USE DEF modeVars, mqttVars, lineVars, ctrlVars, appVars, readVars, gotVars, sentVars
  <1>m. /\ inbound.chars \in Seq(Printable) /\ Len(inbound.chars) \in Nat
        /\ inbound.kind = "control" => Head(inbound.chars) \in Printable
        /\ inbound.kind = "load" => Len(inbound.chars) >= 2
    BY MessageFacts DEF TypeOK
  <1>2. CASE HandLineOver
    <2>1. typed' \in Seq(Printable)
      BY <1>2, <1>m, ConcatProperties DEF HandLineOver, TypeOK
    <2> QED
      BY <1>2, <1>m, <2>1 DEF HandLineOver, TypeOK, MqttPlaces
  <1>3. CASE WaitProcessed \/ SetCtrlPending \/ CommandDone
    BY <1>3 DEF WaitProcessed, SetCtrlPending, CommandDone, TypeOK, MqttPlaces
  <1>4. CASE SetCtrlCharacter
    <2>1. haveCtrlCharacter' \in Chars
      <3>1. CASE inbound.kind = "line"
        <4>1. CR \in Bytes
          BY DEF Bytes
        <4> QED
          BY <1>4, <3>1, <4>1, CharFacts DEF SetCtrlCharacter
      <3>2. CASE inbound.kind # "line"
        <4>1. Head(inbound.chars) \in Bytes
          BY <1>4, <1>m, <3>2 DEF SetCtrlCharacter, MqttAt, Bytes
        <4> QED
          BY <1>4, <3>2, <4>1, CharFacts DEF SetCtrlCharacter
      <3> QED
        BY <3>1, <3>2
    <2>2. crAfter' \in Nat
      BY <1>4 DEF SetCtrlCharacter, TypeOK
    <2> QED
      BY <1>4, <2>1, <2>2 DEF SetCtrlCharacter, TypeOK, MqttPlaces
  <1>5. CASE ToggleMonitor
    BY <1>5 DEF ToggleMonitor, TypeOK, MqttPlaces
  <1>6. CASE FillApp
    <2>1. inbound.kind = "load"
      BY <1>6 DEF FillApp, MqttAt
    <2>2. ptrBasicApp' \in Seq(Bytes)
      BY <1>6, <1>m, <2>1, AppImageFacts DEF FillApp
    <2>3. gotApp' \in Seq(Bytes) /\ overlapped' \in BOOLEAN
      BY <1>6 DEF FillApp
    <2> QED
      BY <1>6, <1>m, <2>2, <2>3 DEF FillApp, TypeOK, MqttPlaces
  <1>7. CASE RewindApp
    BY <1>7 DEF RewindApp, TypeOK, MqttPlaces
  <1>8. CASE OfferApp
    <2>1. Len(inbound.chars) + 9 \in Nat
      BY <1>m
    <2> QED
      BY <1>8, <2>1 DEF OfferApp, TypeOK, MqttPlaces
  <1> QED
    BY <1>2, <1>3, <1>4, <1>5, <1>6, <1>7, <1>8 DEF MqttStep

LEMMA ReaderTypeStep ==
    ASSUME TypeOK, NEW t \in Readers, ReaderStep(t)
    PROVE  TypeOK'
  <1> USE DEF modeVars, mqttVars, lineVars, ctrlVars, appVars, readVars, gotVars, sentVars
  <1>r. retVal[t] \in Chars /\ NoChar \in Chars /\ haveCtrlCharacter \in Chars
    BY CharFacts DEF TypeOK, Bytes
  <1>1. CASE UseLatch(t)
    <2>1. /\ at' \in [Readers -> ReaderPlaces]
          /\ port' \in [Readers -> {"none", "status", "data"}]
      BY <1>1 DEF UseLatch, Leave, Goto, TypeOK, ReaderPlaces
    <2>2. character' \in Chars /\ gotLine' \in Seq(Bytes) /\ gotApp' \in Seq(Bytes)
      BY <1>1, <1>r, GiveFacts DEF UseLatch, TypeOK
    <2> QED
      BY <1>1, <2>1, <2>2 DEF UseLatch, TypeOK
  <1>2. CASE ReadTerminal(t) \/ ClearCtrlPending(t)
    BY <1>2 DEF ReadTerminal, ClearCtrlPending, Goto, TypeOK, ReaderPlaces
  <1>3. CASE TakeCtrlCharacter(t)
    BY <1>3, <1>r, ReturnFacts DEF TakeCtrlCharacter, TypeOK
  <1>4. CASE TakeLineCharacter(t)
    <2>1. input_data \in Seq(Bytes)
      BY DEF TypeOK, Bytes
    <2>2. PICK byte \in ByteAt(input_data, altairInputBufReadIndex) :
             retVal' = [retVal EXCEPT ![t] = Char("line", byte)]
      BY <1>4 DEF TakeLineCharacter
    <2>3. Char("line", byte) \in Chars
      BY <2>1, ByteAtFacts, CharFacts DEF TypeOK
    <2> QED
      BY <1>4, <2>2, <2>3 DEF TakeLineCharacter, Goto, TypeOK, ReaderPlaces
  <1>5. CASE LineGoesOn(t) \/ AppGoesOn(t)
    BY <1>5, <1>r, ReturnFacts DEF LineGoesOn, AppGoesOn, TypeOK
  <1>6. CASE LineEnds(t)
    BY <1>6 DEF LineEnds, Goto, TypeOK, ReaderPlaces
  <1>7. CASE SignalProcessed(t)
    <2>1. mqttPc' \in MqttPlaces
      BY <1>7 DEF SignalProcessed, TypeOK, MqttPlaces
    <2> QED
      BY <1>7, <1>r, <2>1, ReturnFacts DEF SignalProcessed, TypeOK
  <1>8. CASE NothingToRead(t)
    BY <1>8, <1>r, ReturnFacts DEF NothingToRead, TypeOK
  <1>9. CASE TakeAppCharacter(t)
    <2>1. PICK byte \in ByteAt(ptrBasicApp, appLoadPtr) :
             retVal' = [retVal EXCEPT ![t] = Char("app", byte)]
      BY <1>9 DEF TakeAppCharacter
    <2>2. Char("app", byte) \in Chars
      BY ByteAtFacts, CharFacts DEF TypeOK
    <2> QED
      BY <1>9, <2>1, <2>2 DEF TakeAppCharacter, Goto, TypeOK, ReaderPlaces
  <1>10. CASE AppEnds(t) \/ FreeApp(t)
    <2>1. CASE AppEnds(t)
      BY <2>1 DEF AppEnds, Goto, TypeOK, ReaderPlaces
    <2>2. CASE FreeApp(t)
      BY <2>2, EmptySeq DEF FreeApp, Goto, TypeOK, ReaderPlaces
    <2> QED
      BY <1>10, <2>1, <2>2
  <1>11. CASE AppRead(t)
    BY <1>11, <1>r, ReturnFacts DEF AppRead, TypeOK
  <1> QED
    BY <1>1, <1>2, <1>3, <1>4, <1>5, <1>6, <1>7, <1>8, <1>9, <1>10, <1>11 DEF ReaderStep

LEMMA TypeStep ==
    ASSUME TypeOK, MqttAt, [Next]_vars
    PROVE  TypeOK'
  <1> USE DEF modeVars, mqttVars, lineVars, ctrlVars, appVars, readVars, gotVars, sentVars
  <1>1. ASSUME NEW m \in Messages, Receive(m)
        PROVE  TypeOK'
    <2>0. m.kind \in {"line", "load", "control", "monitor"}
      BY MessageFacts
    <2>1. mqttPc' \in MqttPlaces
      BY <1>1, <2>0 DEF Receive, FirstStep, MqttPlaces
    <2>2. received' \in 0..MaxMessages
      BY <1>1, TerminalAssumption DEF Receive, TypeOK
    <2> QED
      BY <1>1, <2>1, <2>2 DEF Receive, TypeOK
  <1>2. ASSUME NEW t \in Readers, NEW p \in {"status", "data"}, ReadPort(t, p)
        PROVE  TypeOK'
    <2>1. steps' \in 0..MaxSteps
      BY <1>2, TerminalAssumption DEF ReadPort, Cycle, TypeOK
    <2>2. raced' \in BOOLEAN /\ mqttPc' \in MqttPlaces
      BY <1>2 DEF ReadPort, Cycle, TypeOK, MqttPlaces
    <2>3. at' \in [Readers -> ReaderPlaces]
      BY <1>2 DEF ReadPort, Goto, TypeOK, ReaderPlaces
    <2> QED
      BY <1>2, <2>1, <2>2, <2>3 DEF ReadPort, Cycle, TypeOK
  <1>3. CASE ChangeMode
    BY <1>3 DEF ChangeMode, TypeOK
  <1>4. CASE UNCHANGED vars
    BY <1>4 DEF vars, TypeOK
  <1> QED
    BY <1>1, <1>2, <1>3, <1>4, MqttTypeStep, ReaderTypeStep DEF Next

-----------------------------------------------------------------------------
(***************************************************************************)
(* Where the MQTT thread is.                                               *)
(***************************************************************************)
LEMMA MqttAtStep ==
    ASSUME TypeOK, MqttAt, [Next]_vars
    PROVE  MqttAt'
  <1> USE DEF modeVars, mqttVars, lineVars, ctrlVars, appVars, readVars, gotVars, sentVars
  <1>1. ASSUME NEW m \in Messages, Receive(m)
        PROVE  MqttAt'
    <2>1. m.kind \in {"line", "load", "control", "monitor"}
      BY MessageFacts
    <2> QED
      BY <1>1, <2>1 DEF Receive, FirstStep, MqttAt, Handing
  <1>2. CASE MqttStep
    BY <1>2 DEF MqttStep, HandLineOver, WaitProcessed, SetCtrlCharacter,
                SetCtrlPending, ToggleMonitor, CommandDone, FillApp, RewindApp, OfferApp,
                MqttAt, Handing
  <1>3. ASSUME NEW t \in Readers, SignalProcessed(t)
        PROVE  MqttAt'
    BY <1>3 DEF SignalProcessed, MqttAt, Handing
  <1>4. ASSUME UNCHANGED <<mqttPc, inbound>>
        PROVE  MqttAt'
    BY <1>4 DEF MqttAt
  <1>5. ASSUME NEW t \in Readers, ReaderStep(t)
        PROVE  MqttAt'
    BY <1>3, <1>4, <1>5
       DEF ReaderStep, UseLatch, ReadTerminal, ClearCtrlPending, TakeCtrlCharacter,
           TakeLineCharacter, LineGoesOn, LineEnds, NothingToRead, TakeAppCharacter,
           AppGoesOn, AppEnds, FreeApp, AppRead
  <1>6. ASSUME NEW t \in Readers, NEW p, ReadPort(t, p)
        PROVE  MqttAt'
    BY <1>6 DEF ReadPort, Cycle, MqttAt, Handing
  <1>7. CASE ChangeMode \/ UNCHANGED vars
    BY <1>4, <1>7 DEF ChangeMode, vars
  <1> QED
    BY <1>1, <1>2, <1>5, <1>6, <1>7 DEF Next

-----------------------------------------------------------------------------
(***************************************************************************)
(* Until a race, the readers are one.                                      *)
(***************************************************************************)
\* The state of the one reader is that of the thread t.
IsAt(t) == Place = at[t] /\ Held = retVal[t]

LEMMA PlaceOf ==
    ASSUME NEW t \in Readers, Reading(t), \A u \in Readers \ {t} : ~Reading(u)
    PROVE  IsAt(t)
  BY DEF Place, Held, IsAt

LEMMA NoPlace ==
    ASSUME \A u \in Readers : ~Reading(u)
    PROVE  Place = "idle" /\ Held = NoChar
  BY DEF Place, Held

\* The threads other than t are outside, before and after the step of t.
LEMMA PlaceBefore ==
    ASSUME TypeOK, Alone, ~raced, NEW t \in Readers, ~Outside(t)
    PROVE  /\ Reading(t) => IsAt(t)
           /\ ~Reading(t) => Place = "idle" /\ Held = NoChar
           /\ \A u \in Readers \ {t} : at[u] = "idle"
  <1>1. \A u \in Readers \ {t} : at[u] = "idle"
    BY DEF Alone, Outside
  <1>2. \A u \in Readers \ {t} : ~Reading(u)
    BY <1>1 DEF Reading
  <1>3. CASE Reading(t)
    BY <1>1, <1>2, <1>3, PlaceOf
  <1>4. CASE ~Reading(t)
    BY <1>1, <1>2, <1>4, NoPlace
  <1> QED
    BY <1>3, <1>4

LEMMA PlaceAfter ==
    ASSUME TypeOK, NEW t \in Readers, NEW l, Goto(t, l),
           \A u \in Readers \ {t} : at[u] = "idle"
    PROVE  /\ l \notin {"idle", "port"} => Place' = l /\ Held' = retVal'[t]
           /\ l \in {"idle", "port"} => Place' = "idle" /\ Held' = NoChar
           /\ \A u \in Readers \ {t} : at'[u] = "idle"
  <1>1. at'[t] = l /\ \A u \in Readers \ {t} : at'[u] = "idle"
    BY DEF Goto, TypeOK
  <1>2. \A u \in Readers \ {t} : ~Reading(u)'
    BY <1>1 DEF Reading
  <1>3. CASE l \notin {"idle", "port"}
    <2>1. Reading(t)' /\ \A u \in Readers : Reading(u)' => u = t
      BY <1>1, <1>2, <1>3 DEF Reading
    <2> QED
      BY <1>1, <1>3, <2>1 DEF Place, Held
  <1>4. CASE l \in {"idle", "port"}
    <2>1. \A u \in Readers : ~Reading(u)'
      BY <1>1, <1>2, <1>4 DEF Reading
    <2> QED
      BY <1>1, <1>4, <2>1 DEF Place, Held
  <1> QED
    BY <1>1, <1>3, <1>4

LEMMA OneReturns ==
    ASSUME TypeOK, NEW t \in Readers, NEW c, Return(t, c),
           \A u \in Readers \ {t} : at[u] = "idle"
    PROVE  OneReturn(c)
  <1>1. Place' = "idle" /\ Held' = NoChar
    BY PlaceAfter DEF Return, Leave
  <1> QED
    BY <1>1 DEF Return, OneReturn

LEMMA ReaderIsOne ==
    ASSUME TypeOK, Alone, ~raced, NEW t \in Readers, ReaderStep(t)
    PROVE  OneReaderStep \/ OneOutside
  <1> USE DEF modeVars, mqttVars
  <1>1. /\ Reading(t) => IsAt(t)
        /\ ~Reading(t) => Place = "idle" /\ Held = NoChar
        /\ \A u \in Readers \ {t} : at[u] = "idle"
    <2>1. ~Outside(t)
      BY DEF ReaderStep, UseLatch, ReadTerminal, ClearCtrlPending, TakeCtrlCharacter,
             TakeLineCharacter, LineGoesOn, LineEnds, SignalProcessed, NothingToRead,
             TakeAppCharacter, AppGoesOn, AppEnds, FreeApp, AppRead, Outside
    <2> QED
      BY <2>1, PlaceBefore
  <1>2. ASSUME NEW l, at[t] = l, l \notin {"idle", "port"}
        PROVE  Place = l /\ Held = retVal[t]
    BY <1>1, <1>2 DEF Reading, IsAt
  <1>3. ASSUME at[t] = "port"
        PROVE  Place = "idle" /\ Held = NoChar
    BY <1>1, <1>3 DEF Reading
  <1>4. ASSUME NEW l, l \notin {"idle", "port"}, Goto(t, l)
        PROVE  Place' = l /\ Held' = retVal'[t]
    BY <1>1, <1>4, PlaceAfter
  <1>5. ASSUME NEW c, Return(t, c)
        PROVE  OneReturn(c)
    BY <1>1, <1>5, OneReturns
  <1>6. CASE UseLatch(t)
    <2>1. Place = "idle" /\ Held = NoChar /\ Place' = "idle" /\ Held' = NoChar
      BY <1>1, <1>3, <1>6, PlaceAfter DEF UseLatch, Leave
    <2>2. CASE port[t] = "data"
      BY <1>6, <2>1, <2>2 DEF UseLatch, OneUsesLatch, OneReaderStep
    <2>3. CASE port[t] # "data"
      BY <1>6, <2>1, <2>3 DEF UseLatch, OneOutside, oneVars
    <2> QED
      BY <2>2, <2>3
  <1>7. CASE ReadTerminal(t)
    <2>1. Place = "idle" /\ Held = NoChar
      BY <1>3, <1>7 DEF ReadTerminal
    <2>2. Place' = "entry" /\ Held' = retVal'[t]
      BY <1>4, <1>7 DEF ReadTerminal
    <2>3. retVal'[t] = NoChar
      BY <1>7 DEF ReadTerminal, Alone, Reading
    <2> QED
      BY <1>7, <2>1, <2>2, <2>3 DEF ReadTerminal, OneReadTerminal, OneReaderStep
  <1>8. CASE ClearCtrlPending(t)
    <2>1. Place = "entry" /\ Held = retVal[t]
      BY <1>2, <1>8 DEF ClearCtrlPending
    <2>2. Place' \in {"ctrl", "lines"} /\ Held' = retVal'[t]
      BY <1>4, <1>8 DEF ClearCtrlPending
    <2> QED
      BY <1>8, <2>1, <2>2 DEF ClearCtrlPending, OneClearCtrlPending, OneReaderStep
  <1>9. CASE TakeCtrlCharacter(t)
    <2>1. Place = "ctrl" /\ OneReturn(haveCtrlCharacter)
      BY <1>2, <1>5, <1>9 DEF TakeCtrlCharacter
    <2> QED
      BY <1>9, <2>1 DEF TakeCtrlCharacter, OneTakeCtrlCharacter, OneReaderStep
  <1>10. CASE TakeLineCharacter(t)
    <2>1. Place = "lines" /\ Held = retVal[t] /\ Place' = "lineEnd" /\ Held' = retVal'[t]
      BY <1>2, <1>4, <1>10 DEF TakeLineCharacter
    <2>2. \E byte \in ByteAt(input_data,
    altairInputBufReadIndex) : Held' = Char("line", byte)
      BY <1>10, <2>1 DEF TakeLineCharacter, TypeOK
    <2> QED
      BY <1>10, <2>1, <2>2 DEF TakeLineCharacter, OneTakeLineCharacter, OneReaderStep
  <1>11. CASE LineGoesOn(t)
    <2>1. Place = "lineEnd" /\ OneReturn(Held)
      BY <1>2, <1>5, <1>11 DEF LineGoesOn
    <2> QED
      BY <1>11, <2>1 DEF LineGoesOn, OneLineGoesOn, OneReaderStep
  <1>12. CASE LineEnds(t)
    <2>1. Place = "lineEnd" /\ Held = retVal[t] /\ Place' = "signal" /\ Held' = retVal'[t]
      BY <1>2, <1>4, <1>12 DEF LineEnds
    <2> QED
      BY <1>12, <2>1 DEF LineEnds, OneLineEnds, OneReaderStep
  <1>13. CASE SignalProcessed(t)
    <2>1. Place = "signal" /\ OneReturn(Held)
      BY <1>2, <1>5, <1>13 DEF SignalProcessed
    <2> QED
      BY <1>13, <2>1 DEF SignalProcessed, OneSignalProcessed, OneReaderStep
  <1>14. CASE NothingToRead(t)
    <2>1. Place = "lines" /\ OneReturn(NoChar)
      BY <1>2, <1>5, <1>14 DEF NothingToRead
    <2> QED
      BY <1>14, <2>1 DEF NothingToRead, OneNothingToRead, OneReaderStep
  <1>15. CASE TakeAppCharacter(t)
    <2>1. Place = "lines" /\ Held = retVal[t] /\ Place' = "appEnd" /\ Held' = retVal'[t]
      BY <1>2, <1>4, <1>15 DEF TakeAppCharacter
    <2>2. \E byte \in ByteAt(ptrBasicApp, appLoadPtr) : Held' = Char("app", byte)
      BY <1>15, <2>1 DEF TakeAppCharacter, TypeOK
    <2> QED
      BY <1>15, <2>1, <2>2 DEF TakeAppCharacter, OneTakeAppCharacter, OneReaderStep
  <1>16. CASE AppGoesOn(t)
    <2>1. Place = "appEnd" /\ OneReturn(Held)
      BY <1>2, <1>5, <1>16 DEF AppGoesOn
    <2> QED
      BY <1>16, <2>1 DEF AppGoesOn, OneAppGoesOn, OneReaderStep
  <1>17. CASE AppEnds(t)
    <2>1. Place = "appEnd" /\ Held = retVal[t] /\ Place' = "free" /\ Held' = retVal'[t]
      BY <1>2, <1>4, <1>17 DEF AppEnds
    <2> QED
      BY <1>17, <2>1 DEF AppEnds, OneAppEnds, OneReaderStep
  <1>18. CASE FreeApp(t)
    <2>1. Place = "free" /\ Held = retVal[t] /\ Place' = "rewind" /\ Held' = retVal'[t]
      BY <1>2, <1>4, <1>18 DEF FreeApp
    <2> QED
      BY <1>18, <2>1 DEF FreeApp, OneFreeApp, OneReaderStep
  <1>19. CASE AppRead(t)
    <2>1. Place = "rewind" /\ OneReturn(Held)
      BY <1>2, <1>5, <1>19 DEF AppRead
    <2> QED
      BY <1>19, <2>1 DEF AppRead, OneAppRead, OneReaderStep
  <1> QED
    BY <1>6, <1>7, <1>8, <1>9, <1>10, <1>11, <1>12, <1>13, <1>14, <1>15, <1>16, <1>17,
       <1>18, <1>19 DEF ReaderStep

LEMMA PortIsRead ==
    ASSUME TypeOK, Alone, ~raced', NEW t \in Readers, NEW p, ReadPort(t, p)
    PROVE  ~raced /\ Alone' /\ OneOutside
  <1> USE DEF modeVars, mqttVars
  <1>1. ~raced /\ \A u \in Readers : at[u] = "idle"
    BY DEF ReadPort, Cycle, Outside, TypeOK
  <1>2. /\ Place' = "idle" /\ Held' = NoChar
        /\ at'[t] = "port" /\ \A u \in Readers \ {t} : at'[u] = "idle"
    BY <1>1, PlaceAfter DEF ReadPort, Goto, TypeOK
  <1>3. Place = "idle" /\ Held = NoChar
    BY <1>1, NoPlace DEF Reading
  <1>4. Alone'
    BY <1>1, <1>2 DEF ReadPort, Alone, Reading, Outside
  <1> QED
    BY <1>1, <1>2, <1>3, <1>4 DEF ReadPort, Cycle, OneOutside, oneVars

LEMMA MqttLeavesReader ==
    ASSUME MqttStep
    PROVE  UNCHANGED oneVars
  <1>1. UNCHANGED readVars
    BY DEF MqttStep, HandLineOver, WaitProcessed, SetCtrlCharacter, SetCtrlPending,
           ToggleMonitor, CommandDone, FillApp, RewindApp, OfferApp
  <1> QED
    BY <1>1 DEF readVars, oneVars, Place, Held, Reading

LEMMA ReadersAreOne ==
    ASSUME TypeOK, Alone, ~raced', [Next]_vars
    PROVE  ~raced /\ OneNext
  <1> USE DEF modeVars, mqttVars, lineVars, ctrlVars, appVars, readVars, gotVars, sentVars
  <1>1. ASSUME UNCHANGED readVars
        PROVE  UNCHANGED oneVars
    BY <1>1 DEF oneVars, Place, Held, Reading
  <1>2. ASSUME NEW m \in Messages, Receive(m)
        PROVE  ~raced /\ OneNext
    BY <1>1, <1>2 DEF Receive, OneNext
  <1>3. CASE MqttStep
    <2>1. ~raced
      BY <1>3 DEF MqttStep, HandLineOver, WaitProcessed, SetCtrlCharacter,
                  SetCtrlPending, ToggleMonitor, CommandDone, FillApp, RewindApp, OfferApp
    <2> QED
      BY <1>3, <2>1, MqttLeavesReader DEF OneNext
  <1>4. ASSUME NEW t \in Readers, ReaderStep(t)
        PROVE  ~raced /\ OneNext
    <2>1. ~raced
      BY <1>4
         DEF ReaderStep, UseLatch, ReadTerminal, ClearCtrlPending, TakeCtrlCharacter,
             TakeLineCharacter, LineGoesOn, LineEnds, SignalProcessed, NothingToRead,
             TakeAppCharacter, AppGoesOn, AppEnds, FreeApp, AppRead
    <2> QED
      BY <1>4, <2>1, ReaderIsOne DEF OneNext
  <1>5. ASSUME NEW t \in Readers, NEW p, ReadPort(t, p)
        PROVE  ~raced /\ OneNext
    BY <1>5, PortIsRead DEF OneNext
  <1>6. CASE ChangeMode \/ UNCHANGED vars
    BY <1>1, <1>6 DEF ChangeMode, vars, OneOutside, OneNext
  <1> QED
    BY <1>2, <1>3, <1>4, <1>5, <1>6 DEF Next

\* A step of t leaves the other threads where they are.
LEMMA AloneKept ==
    ASSUME TypeOK, Alone, NEW t \in Readers, NEW l, ~Outside(t), Goto(t, l),
           UNCHANGED raced, \A u \in Readers \ {t} : retVal'[u] = retVal[u],
           l \in {"idle", "port"} => retVal'[t] = NoChar
    PROVE  Alone'
  <1>1. \A u \in Readers : at'[u] = IF u = t THEN l ELSE at[u]
    BY DEF Goto, TypeOK
  <1>2. \A u \in Readers : Outside(u) => Outside(u)' 
    BY <1>1 DEF Outside
  <1>3. \A u \in Readers : ~Reading(u)' => retVal'[u] = NoChar
    BY <1>1 DEF Alone, Reading
  <1> QED
    BY <1>2, <1>3 DEF Alone

LEMMA ReaderAlone ==
    ASSUME TypeOK, Alone, NEW t \in Readers, ReaderStep(t)
    PROVE  Alone'
  <1> USE DEF modeVars
  <1>1. ASSUME NEW c, Return(t, c), ~Outside(t), UNCHANGED raced
        PROVE  Alone'
    <2>1. retVal' = [retVal EXCEPT ![t] = NoChar] /\ Goto(t, "idle")
      BY <1>1 DEF Return, Leave
    <2> QED
      BY <1>1, <2>1, AloneKept DEF TypeOK
  <1>2. CASE UseLatch(t)
    <2>1. retVal'[t] = NoChar /\ Goto(t, "idle") /\ UNCHANGED <<retVal, raced>>
      BY <1>2 DEF UseLatch, Leave, Alone, Reading
    <2> QED
      BY <1>2, <2>1, AloneKept DEF UseLatch, Outside
  <1>3. CASE ReadTerminal(t) \/ ClearCtrlPending(t) \/ LineEnds(t) \/ AppEnds(t) \/ FreeApp(t)
    <2>1. PICK l : l \notin {"idle", "port"} /\ Goto(t, l)
      BY <1>3 DEF ReadTerminal, ClearCtrlPending, LineEnds, AppEnds, FreeApp
    <2>2. ~Outside(t) /\ UNCHANGED <<retVal, raced>>
      BY <1>3 DEF ReadTerminal, ClearCtrlPending, LineEnds, AppEnds, FreeApp, Outside
    <2> QED
      BY <2>1, <2>2, AloneKept
  <1>4. CASE TakeLineCharacter(t) \/ TakeAppCharacter(t)
    <2>1. PICK l : l \notin {"idle", "port"} /\ Goto(t, l)
      BY <1>4 DEF TakeLineCharacter, TakeAppCharacter
    <2>2. ~Outside(t) /\ UNCHANGED raced
      BY <1>4 DEF TakeLineCharacter, TakeAppCharacter, Outside
    <2>3. \A u \in Readers \ {t} : retVal'[u] = retVal[u]
      BY <1>4 DEF TakeLineCharacter, TakeAppCharacter, TypeOK
    <2> QED
      BY <2>1, <2>2, <2>3, AloneKept
  <1>5. CASE \/ TakeCtrlCharacter(t) \/ LineGoesOn(t) \/ SignalProcessed(t)
             \/ NothingToRead(t) \/ AppGoesOn(t) \/ AppRead(t)
    BY <1>1, <1>5
       DEF TakeCtrlCharacter, LineGoesOn, SignalProcessed, NothingToRead, AppGoesOn,
           AppRead, Outside
  <1> QED
    BY <1>2, <1>3, <1>4, <1>5 DEF ReaderStep

LEMMA AloneStep ==
    ASSUME TypeOK, Alone, [Next]_vars
    PROVE  Alone'
  <1> USE DEF modeVars, mqttVars, lineVars, ctrlVars, appVars, readVars, gotVars, sentVars
  <1>1. ASSUME UNCHANGED <<readVars, raced>>
        PROVE  Alone'
    BY <1>1 DEF Alone, Reading, Outside
  <1>2. ASSUME NEW t \in Readers, NEW p, ReadPort(t, p)
        PROVE  Alone'
    <2>1. CASE ~raced'
      BY <1>2, <2>1, PortIsRead
    <2>2. CASE raced'
      BY <1>2, <2>2 DEF ReadPort, Goto, Cycle, Outside, Alone, Reading, TypeOK
    <2> QED
      BY <2>1, <2>2
  <1>3. CASE MqttStep
    BY <1>1, <1>3
       DEF MqttStep, HandLineOver, WaitProcessed, SetCtrlCharacter, SetCtrlPending,
           ToggleMonitor, CommandDone, FillApp, RewindApp, OfferApp
  <1>4. ASSUME NEW m \in Messages, Receive(m)
        PROVE  Alone'
    BY <1>1, <1>4 DEF Receive
  <1>5. CASE ChangeMode \/ UNCHANGED vars
    BY <1>1, <1>5 DEF ChangeMode, vars
  <1> QED
    BY <1>2, <1>3, <1>4, <1>5, ReaderAlone DEF Next

\* What the guest has not got yet.
LEMMA HandIsOne ==
    /\ InHand = IF Place = "idle" THEN character ELSE Held
    /\ InHand' = IF Place' = "idle" THEN character' ELSE Held'
  <1>1. InHand = IF Place = "idle" THEN character ELSE Held
    BY DEF InHand, Place, Held, Reading
  <1>2. InHand' = IF Place' = "idle" THEN character' ELSE Held'
    BY DEF InHand, Place, Held, Reading
  <1> QED
    BY <1>1, <1>2

LEMMA PlaceIsSome ==
    ASSUME NEW l, l # "idle", \A t \in Readers : at[t] # l
    PROVE  Place # l
  BY DEF Place

LEMMA HeldTyped ==
    ASSUME TypeOK
    PROVE  Held \in Chars
  <1>1. NoChar \in Chars
    BY CharFacts DEF Bytes
  <1> QED
    BY <1>1 DEF Held, TypeOK

-----------------------------------------------------------------------------
(***************************************************************************)
(* The character in flight.                                                *)
(***************************************************************************)
LEMMA InFlightReturned ==
    ASSUME InFlight, NEW c \in Chars, OneReturn(c),
    c.from = "line" => c.byte \in Printable,
           UNCHANGED haveCtrlCharacter
    PROVE  InFlight'
  <1>1. NoChar.from = "none"
    BY DEF NoChar, Char
  <1>2. /\ Place' = "idle" /\ Held' = NoChar
        /\ character' = character \/ (character' = c /\ c.byte # NUL)
    BY DEF OneReturn
  <1>3. gotLine' \in Seq(Printable)
    BY DEF OneReturn, Give, gotVars, InFlight
  <1> HIDE DEF NoChar
  <1> QED
    BY <1>1, <1>2, <1>3 DEF InFlight

LEMMA InFlightStep ==
    ASSUME TypeOK, InFlight, HandOver, ~raced, OneNext
    PROVE  InFlight'
  <1> USE DEF mqttVars, lineVars, ctrlVars, appVars, oneVars, gotVars, sentVars
  <1>n. NoChar.from = "none" /\ NoChar \in Chars
    BY CharFacts DEF Bytes
  <1>r. Held \in Chars /\ (Held.from = "line" => Held.byte \in Printable)
    BY HeldTyped DEF InFlight
  <1>1. ASSUME UNCHANGED <<ctrlVars, oneVars, gotLine>>
        PROVE  InFlight'
    BY <1>1 DEF InFlight
  <1>2. ASSUME NEW m \in Messages, Receive(m), UNCHANGED oneVars
        PROVE  InFlight'
    BY <1>1, <1>2 DEF Receive
  <1>3. CASE SetCtrlCharacter /\ UNCHANGED oneVars
    <2>1. haveCtrlCharacter'.from \in {"cr", "ctrl"}
      BY <1>3 DEF SetCtrlCharacter, Char
    <2> QED
      BY <1>3, <2>1 DEF SetCtrlCharacter, InFlight
  <1>4. CASE SetCtrlPending /\ UNCHANGED oneVars
    BY <1>4 DEF SetCtrlPending, InFlight
  <1>5. CASE MqttStep /\ UNCHANGED oneVars
    BY <1>1, <1>3, <1>4, <1>5
       DEF MqttStep, HandLineOver, WaitProcessed, ToggleMonitor, CommandDone, FillApp,
           RewindApp, OfferApp
  <1>6. CASE OneClearCtrlPending \/ OneLineEnds \/ OneAppEnds \/ OneFreeApp
    BY <1>6 DEF OneClearCtrlPending, OneLineEnds, OneAppEnds, OneFreeApp, InFlight
  <1>7. CASE OneTakeCtrlCharacter
    <2>1. haveCtrlCharacter \in Chars /\ haveCtrlCharacter.from # "line"
      BY DEF TypeOK, InFlight
    <2> QED
      BY <1>7, <2>1, InFlightReturned DEF OneTakeCtrlCharacter
  <1>8. CASE OneTakeLineCharacter
    <2>1. \A byte \in ByteAt(input_data, altairInputBufReadIndex) : byte \in Printable
      BY <1>8, ElementOfSeq DEF OneTakeLineCharacter, ByteAt, TypeOK, HandOver
    <2>2. Held'.from = "line" /\ Held'.byte \in Printable
      BY <1>8, <2>1 DEF OneTakeLineCharacter, Char
    <2> QED
      BY <1>8, <2>2 DEF OneTakeLineCharacter, InFlight
  <1>10. CASE OneLineGoesOn \/ OneSignalProcessed \/ OneAppGoesOn \/ OneAppRead
    BY <1>10, <1>r, InFlightReturned DEF OneLineGoesOn, OneSignalProcessed,
                                         OneAppGoesOn, OneAppRead
  <1>11. CASE OneNothingToRead
    BY <1>11, <1>n, InFlightReturned DEF OneNothingToRead
  <1>12. CASE OneTakeAppCharacter
    <2>1. Held'.from = "app"
      BY <1>12 DEF OneTakeAppCharacter, Char
    <2> QED
      BY <1>12, <2>1 DEF OneTakeAppCharacter, InFlight
  <1>14. CASE OneReadTerminal
    BY <1>14 DEF OneReadTerminal, InFlight
  <1>15. CASE OneUsesLatch
    <2>1. gotLine' \in Seq(Printable)
      BY <1>15 DEF OneUsesLatch, Give, InFlight
    <2> QED
      BY <1>15, <1>n, <2>1 DEF OneUsesLatch, InFlight
  <1>16. CASE OneOutside
    BY <1>1, <1>16 DEF OneOutside
  <1> QED
    BY <1>2, <1>5, <1>6, <1>7, <1>8, <1>10, <1>11, <1>12, <1>14, <1>15, <1>16
       DEF OneNext, OneReaderStep

-----------------------------------------------------------------------------
(***************************************************************************)
(* While a line is unread, only the reader moves the line's variables.     *)
(***************************************************************************)
LEMMA HandOverStep ==
    ASSUME TypeOK, MqttAt, HandOver, ~raced, OneNext
    PROVE  HandOver'
  <1> USE DEF mqttVars, lineVars, ctrlVars, appVars, oneVars, gotVars,
              sentVars
  <1>m. inbound.chars \in Seq(Printable) /\ Len(inbound.chars) \in Nat
    BY MessageFacts DEF TypeOK
  <1>1. ASSUME UNCHANGED <<mqttPc, lineVars, Place>>
        PROVE  HandOver'
    BY <1>1 DEF HandOver
  <1>2. CASE HandLineOver /\ UNCHANGED oneVars
    <2>1. inbound.chars # <<>>
      BY <1>2 DEF HandLineOver, MqttAt
    <2>2. Len(inbound.chars) > 0
      BY <1>m, <2>1, EmptySeq
    <2>3. Place # "lineEnd" /\ Place # "signal"
      BY <1>2 DEF HandLineOver, HandOver, Handing
    <2> QED
      BY <1>2, <1>m, <2>2, <2>3 DEF HandLineOver, HandOver, Handing
  <1>3. CASE WaitProcessed /\ UNCHANGED oneVars
    BY <1>3 DEF WaitProcessed, HandOver, Handing
  <1>4. ASSUME mqttPc \notin Handing, UNCHANGED <<haveTerminalInputMessage, Place>>
        PROVE  HandOver'
    BY <1>4 DEF HandOver
  <1>5. ASSUME NEW m \in Messages, Receive(m), UNCHANGED oneVars
        PROVE  HandOver'
    BY <1>4, <1>5 DEF Receive, Handing
  <1>6. CASE MqttStep /\ UNCHANGED oneVars
    BY <1>2, <1>3, <1>4, <1>6
       DEF MqttStep, SetCtrlCharacter, SetCtrlPending, ToggleMonitor, CommandDone,
           FillApp,
           RewindApp, OfferApp, Handing
  <1>7. ASSUME UNCHANGED <<mqttPc, lineVars>>, Place # "lineEnd",
               Place' \notin {"lineEnd", "signal"}
        PROVE  HandOver'
    BY <1>7 DEF HandOver
  <1>8. CASE OneTakeLineCharacter
    BY <1>8 DEF OneTakeLineCharacter, HandOver, TypeOK
  <1>9. CASE OneLineGoesOn
    BY <1>9 DEF OneLineGoesOn, OneReturn, HandOver, TypeOK
  <1>10. CASE OneLineEnds
    BY <1>10 DEF OneLineEnds, HandOver
  <1>11. CASE OneSignalProcessed
    BY <1>11 DEF OneSignalProcessed, OneReturn, HandOver
  <1>12. CASE OneReaderStep
    BY <1>7, <1>8, <1>9, <1>10, <1>11, <1>12
       DEF OneReaderStep, OneUsesLatch, OneReadTerminal, OneClearCtrlPending,
           OneTakeCtrlCharacter, OneNothingToRead,
           OneTakeAppCharacter, OneAppGoesOn, OneAppEnds, OneFreeApp, OneAppRead,
           OneReturn
  <1>13. CASE OneOutside
    BY <1>1, <1>4, <1>13 DEF OneOutside, Handing
  <1> QED
    BY <1>5, <1>6, <1>12, <1>13 DEF OneNext

-----------------------------------------------------------------------------
(***************************************************************************)
(* Only TakeLineCharacter adds to what has been taken from the lines; the  *)
(* guest gets it later, unchanged.                                         *)
(***************************************************************************)
LEMMA CharOnItsWay ==
    ASSUME TypeOK, InFlight
    PROVE  /\ InHandFrom("line") =
                 (IF InHand.from = "line" THEN <<InHand.byte>> ELSE <<>>)
           /\ InHand \in Chars
           /\ InHand.from = "line" => InHand.byte \in Printable
  <1>1. InHand \in Chars /\ (InHand.from = "line" => InHand.byte \in Printable)
    BY HandIsOne, HeldTyped DEF TypeOK, InFlight
  <1> QED
    BY <1>1, TerminalAssumption DEF InHandFrom

LEMMA DeliveredTyped ==
    ASSUME TypeOK, InFlight
    PROVE  Delivered \in Seq(Printable)
  <1>1. InHandFrom("line") \in Seq(Printable)
    <2>1. CASE InHand.from = "line"
      <3>1. InHand.byte \in Printable /\ InHandFrom("line") = <<InHand.byte>>
        BY <2>1, CharOnItsWay
      <3>2. \A b \in Printable : <<b>> \in Seq(Printable)
        OBVIOUS
      <3> QED
        BY <3>1, <3>2, Zenon
    <2>2. CASE InHand.from # "line"
      <3>1. InHandFrom("line") = <<>>
        BY <2>2, CharOnItsWay
      <3>2. <<>> \in Seq(Printable)
        OBVIOUS
      <3> QED
        BY <3>1, <3>2, Zenon
    <2> QED
      BY <2>1, <2>2
  <1> QED
    BY <1>1, ConcatProperties DEF Delivered, InFlight

LEMMA GivenToGuest ==
    ASSUME NEW c \in Chars, c.from = "line" => c.byte \in Printable,
           gotLine \in Seq(Printable), ~raced, Give(c)
    PROVE  gotLine' = gotLine \o (IF c.from = "line" THEN <<c.byte>> ELSE <<>>)
  <1>1. CASE c.from = "line"
    BY <1>1, AppendIsConcat DEF Give
  <1>2. CASE c.from # "line"
    BY <1>2, ConcatEmptySeq DEF Give
  <1> QED
    BY <1>1, <1>2

LEMMA ReturnDelivers ==
    ASSUME TypeOK, InFlight, TypeOK', InFlight', Place # "idle", ~raced,
           NEW c \in Chars, OneReturn(c), c.from = "line" => c.byte \in Printable,
           InHandFrom("line") = IF c.from = "line" THEN <<c.byte>> ELSE <<>>
    PROVE  Delivered' = Delivered
  <1>n. NoChar.from = "none"
    BY DEF NoChar, Char
  <1>1. InHand' = character'
    BY HandIsOne DEF OneReturn
  <1>2. character = NoChar
    BY DEF InFlight
  <1>3. InHandFrom("line")' = IF character'.from = "line" THEN <<character'.byte>> ELSE <<>>
    <2>1. character'.from = "line" => character'.byte # NUL
      BY TerminalAssumption DEF InFlight
    <2> QED
      BY <1>1, <2>1 DEF InHandFrom
  <1>4. CASE UNCHANGED gotVars /\ ((c.byte = NUL /\ UNCHANGED character) \/ character' = c)
    <2>1. gotLine' = gotLine
      BY <1>4 DEF gotVars
    <2>2. c.byte = NUL => c.from # "line"
      BY TerminalAssumption
    <2>3. InHandFrom("line")' = InHandFrom("line")
      BY <1>1, <1>2, <1>3, <1>4, <1>n, <2>2
    <2> QED
      BY <2>1, <2>3 DEF Delivered
  <1>5. CASE Give(c) /\ UNCHANGED character
    <2>2. gotLine' = Delivered
      BY <1>5, GivenToGuest DEF InFlight, Delivered
    <2>3. InHandFrom("line")' = <<>>
      BY <1>1, <1>2, <1>3, <1>5, <1>n
    <2>4. gotLine' \in Seq(Printable)
      BY DEF InFlight
    <2>5. gotLine' \o <<>> = gotLine'
      BY <2>4, ConcatEmptySeq
    <2> QED
      BY <2>2, <2>3, <2>5 DEF Delivered
  <1> QED
    BY <1>4, <1>5 DEF OneReturn

LEMMA OthersDeliver ==
    ASSUME TypeOK, InFlight, TypeOK', InFlight', ~raced, OneNext, ~OneTakeLineCharacter
    PROVE  Delivered' = Delivered
  <1> USE DEF mqttVars, lineVars, ctrlVars, appVars, oneVars, gotVars,
              sentVars
  <1>1. ASSUME UNCHANGED <<oneVars, gotLine>>
        PROVE  Delivered' = Delivered
    BY <1>1, HandIsOne DEF Delivered, InHandFrom
  <1>2. CASE MqttStep /\ UNCHANGED oneVars
    BY <1>1, <1>2
       DEF MqttStep, HandLineOver, WaitProcessed, SetCtrlCharacter,
           SetCtrlPending, ToggleMonitor, CommandDone, FillApp, RewindApp, OfferApp
  <1>3. ASSUME NEW m \in Messages, Receive(m), UNCHANGED oneVars
        PROVE  Delivered' = Delivered
    BY <1>1, <1>3 DEF Receive
  <1>4. ASSUME UNCHANGED <<Held, character, gotLine>>, Place # "idle", Place' # "idle"
        PROVE  Delivered' = Delivered
    BY <1>4, HandIsOne DEF Delivered, InHandFrom
  <1>5. CASE OneClearCtrlPending \/ OneLineEnds \/ OneAppEnds \/ OneFreeApp
    BY <1>4, <1>5 DEF OneClearCtrlPending, OneLineEnds, OneAppEnds, OneFreeApp
  <1>6. CASE OneTakeCtrlCharacter
    <2>1. InHand = NoChar /\ NoChar.from = "none"
      BY <1>6, HandIsOne DEF OneTakeCtrlCharacter, InFlight, NoChar, Char
    <2>2. InHandFrom("line") = <<>>
      BY <2>1 DEF InHandFrom
    <2>3. haveCtrlCharacter \in Chars /\ haveCtrlCharacter.from # "line"
      BY DEF TypeOK, InFlight
    <2> QED
      BY <1>6, <2>2, <2>3, ReturnDelivers DEF OneTakeCtrlCharacter
  <1>7. CASE OneNothingToRead
    <2>1. InHand = NoChar /\ NoChar.from = "none" /\ NoChar \in Chars
      BY <1>7, CharFacts, HandIsOne DEF OneNothingToRead, InFlight, Bytes
    <2>2. InHandFrom("line") = <<>>
      BY <2>1 DEF InHandFrom
    <2> QED
      BY <1>7, <2>1, <2>2, ReturnDelivers DEF OneNothingToRead
  <1>8. ASSUME OneReturn(Held), Place # "idle"
        PROVE  Delivered' = Delivered
    <2>1. InHand = Held
      BY <1>8, HandIsOne
    <2> QED
      BY <1>8, <2>1, CharOnItsWay, ReturnDelivers
  <1>9. CASE OneLineGoesOn \/ OneSignalProcessed \/ OneAppGoesOn \/ OneAppRead
    BY <1>8, <1>9 DEF OneLineGoesOn, OneSignalProcessed, OneAppGoesOn, OneAppRead
  <1>10. CASE OneTakeAppCharacter
    <2>1. InHand = NoChar /\ NoChar.from = "none"
      BY <1>10, HandIsOne DEF OneTakeAppCharacter, InFlight, NoChar, Char
    <2>2. InHand'.from = "app"
      BY <1>10, HandIsOne DEF OneTakeAppCharacter, Char
    <2>3. InHandFrom("line") = <<>> /\ InHandFrom("line")' = <<>>
      BY <2>1, <2>2 DEF InHandFrom
    <2> QED
      BY <1>10, <2>3 DEF OneTakeAppCharacter, Delivered
  <1>12. CASE OneReadTerminal
    <2>1. InHand = NoChar /\ InHand' = NoChar
      BY <1>12, HandIsOne DEF OneReadTerminal, InFlight
    <2> QED
      BY <1>12, <2>1 DEF Delivered, InHandFrom, OneReadTerminal
  <1>13. CASE OneUsesLatch
    <2>1. Give(character) /\ InHand = character /\ InHand' = NoChar
      BY <1>13, HandIsOne DEF OneUsesLatch
    <2>2. gotLine' = Delivered
      BY <2>1, CharOnItsWay, GivenToGuest DEF InFlight, Delivered
    <2>3. InHandFrom("line")' = <<>>
      BY <2>1 DEF InHandFrom, NoChar, Char
    <2>4. gotLine' \in Seq(Printable)
      BY DEF InFlight
    <2>5. gotLine' \o <<>> = gotLine'
      BY <2>4, ConcatEmptySeq
    <2> QED
      BY <2>2, <2>3, <2>5 DEF Delivered
  <1>14. CASE OneOutside
    BY <1>1, <1>14 DEF OneOutside
  <1> QED
    BY <1>2, <1>3, <1>5, <1>6, <1>7, <1>9, <1>10, <1>12, <1>13, <1>14
       DEF OneNext, OneReaderStep

LEMMA TakeDelivers ==
    ASSUME TypeOK, InFlight, HandOver, OneTakeLineCharacter
    PROVE  /\ Delivered' = Delivered \o <<input_data[altairInputBufReadIndex + 1]>>
           /\ Unread = <<input_data[altairInputBufReadIndex + 1]>> \o Unread'
           /\ <<input_data[altairInputBufReadIndex + 1]>> \in Seq(Printable)
           /\ Unread' \in Seq(Printable)
  <1> DEFINE m == altairInputBufReadIndex + 1
             n == Len(input_data)
  <1>1. m \in 1..n /\ n \in m..n /\ input_data \in Seq(Printable)
    BY DEF OneTakeLineCharacter, HandOver, TypeOK
  <1>2. input_data[m] \in Printable
    BY <1>1, ElementOfSeq
  <1>3. Unread = SubSeq(input_data, m, n) /\ Unread' = SubSeq(input_data, m + 1, n)
    BY DEF OneTakeLineCharacter, HandOver, Unread
  <1>4. InHand = NoChar /\ InHand' = Char("line", input_data[m])
    <2>1. ByteAt(input_data, altairInputBufReadIndex) = {input_data[m]}
      BY DEF OneTakeLineCharacter, HandOver, ByteAt
    <2> QED
      BY <2>1, HandIsOne DEF OneTakeLineCharacter, InFlight
  <1>5. InHandFrom("line") = <<>>
    BY <1>4 DEF InHandFrom, NoChar, Char
  <1>6. InHandFrom("line")' = <<input_data[m]>>
    BY <1>2, <1>4, TerminalAssumption DEF InHandFrom, Char
  <1>7. gotLine' = gotLine /\ gotLine \o <<>> = gotLine
    BY ConcatEmptySeq DEF OneTakeLineCharacter, gotVars, InFlight
  <1>8. Delivered' = Delivered \o <<input_data[m]>>
    BY <1>5, <1>6, <1>7 DEF Delivered
  <1> HIDE DEF m, n
  <1>9. SubSeq(input_data, m, n) = <<input_data[m]>> \o SubSeq(input_data, m + 1, n)
    BY <1>1, SubSeqRecursiveFirst
  <1>10. SubSeq(input_data, m + 1, n) \in Seq(Printable)
    <2>1. m + 1 \in Int /\ n \in Int /\ \A i \in m + 1..n : input_data[i] \in Printable
      BY <1>1, LenProperties DEF n
    <2> QED
      BY <2>1, SubSeqProperties
  <1>11. <<input_data[m]>> \in Seq(Printable)
    BY <1>2
  <1> QED
    BY <1>3, <1>8, <1>9, <1>10, <1>11 DEF m

-----------------------------------------------------------------------------
(***************************************************************************)
(* The lines.                                                              *)
(***************************************************************************)
LEMMA UnreadTyped ==
    ASSUME TypeOK, HandOver
    PROVE  Unread \in Seq(Printable)
  <1>1. CASE haveTerminalInputMessage
    <2> DEFINE m == altairInputBufReadIndex + 1
               n == terminalInputMessageLen
    <2>1. m \in Int /\ n \in Int /\ \A i \in m..n : input_data[i] \in Printable
      BY <1>1, LenProperties DEF TypeOK, HandOver
    <2> HIDE DEF m, n
    <2>2. SubSeq(input_data, m, n) \in Seq(Printable)
      BY <2>1, SubSeqProperties
    <2> QED
      BY <1>1, <2>2 DEF Unread, m, n
  <1>2. CASE ~haveTerminalInputMessage
    <2>1. <<>> \in Seq(Printable) /\ Unread = <<>>
      BY <1>2 DEF Unread
    <2> QED
      BY <2>1, Zenon
  <1> QED
    BY <1>1, <1>2 DEF TypeOK

LEMMA NothingUnread ==
    ASSUME TypeOK, InFlight, HandOver, Lines, mqttPc \notin Handing
    PROVE  typed = Delivered
  <1>1. Unread = <<>>
    BY DEF HandOver, Unread
  <1>2. Delivered \o <<>> = Delivered
    BY DeliveredTyped, ConcatEmptySeq
  <1> QED
    BY <1>1, <1>2 DEF Lines

LEMMA LinesStep ==
    ASSUME TypeOK, MqttAt, LineInv, TypeOK', InFlight', HandOver', ~raced, OneNext
    PROVE  Lines'
  <1> USE DEF LineInv, mqttVars, lineVars, ctrlVars, appVars, oneVars,
              gotVars, sentVars
  <1>1. ASSUME typed' = typed, Unread' = Unread, Delivered' = Delivered
        PROVE  Lines'
    BY <1>1 DEF Lines
  <1>2. CASE OneTakeLineCharacter
    <2> DEFINE c == <<input_data[altairInputBufReadIndex + 1]>>
    <2>1. typed' = typed /\ typed = Delivered \o Unread
      BY <1>2 DEF OneTakeLineCharacter, Lines
    <2>2. /\ Delivered' = Delivered \o c /\ Unread = c \o Unread'
          /\ c \in Seq(Printable) /\ Unread' \in Seq(Printable)
      BY <1>2, TakeDelivers
    <2>3. Delivered \in Seq(Printable)
      BY DeliveredTyped
    <2> HIDE DEF c
    <2>4. (Delivered \o c) \o Unread' = Delivered \o (c \o Unread')
      BY <2>2, <2>3, ConcatAssociative
    <2>5. typed' = Delivered' \o Unread'
      BY <2>1, <2>2, <2>4, Zenon
    <2> QED
      BY <2>5 DEF Lines
  <1>3. CASE HandLineOver /\ UNCHANGED oneVars
    <2>1. Delivered' = Delivered
      BY <1>3, OthersDeliver DEF HandLineOver, OneTakeLineCharacter
    <2>2. typed' = typed \o inbound.chars /\ typed = Delivered
      BY <1>3, NothingUnread DEF HandLineOver, Handing
    <2>3. Unread' = SubSeq(inbound.chars, 1, Len(inbound.chars))
      BY <1>3 DEF HandLineOver, Unread
    <2>4. inbound.chars \in Seq(Printable)
      BY MessageFacts DEF TypeOK
    <2>5. Unread' = inbound.chars
      BY <2>3, <2>4, SubSeqFull
    <2>6. typed' = Delivered' \o Unread'
      BY <2>1, <2>2, <2>5
    <2> QED
      BY <2>6 DEF Lines
  <1>4. CASE OneLineEnds
    <2>1. Delivered' = Delivered
      BY <1>4, OthersDeliver DEF OneLineEnds, OneTakeLineCharacter
    <2>2. /\ altairInputBufReadIndex + 1 \in Int /\ terminalInputMessageLen \in Int
          /\ terminalInputMessageLen < altairInputBufReadIndex + 1
      BY <1>4 DEF OneLineEnds, TypeOK
    <2>3. Unread = <<>>
      BY <2>2, SubSeqEmpty DEF Unread
    <2>4. Unread' = <<>>
      BY <1>4 DEF OneLineEnds, Unread
    <2> QED
      BY <1>1, <1>4, <2>1, <2>3, <2>4 DEF OneLineEnds
  <1>5. CASE FillApp /\ UNCHANGED oneVars
    <2>1. ~haveTerminalInputMessage
      BY <1>5 DEF FillApp, HandOver, Handing
    <2>2. Unread' = Unread
      BY <1>5, <2>1 DEF FillApp, Unread
    <2>3. Delivered' = Delivered
      BY <1>5, OthersDeliver DEF FillApp, OneTakeLineCharacter
    <2> QED
      BY <1>1, <1>5, <2>2, <2>3 DEF FillApp
  <1>6. CASE ~(OneTakeLineCharacter \/ HandLineOver \/ OneLineEnds \/ FillApp)
    <2>1. Delivered' = Delivered
      BY <1>6, OthersDeliver
    <2>2. ASSUME UNCHANGED <<lineVars, typed>>
          PROVE  Lines'
      BY <1>1, <2>1, <2>2 DEF Unread
    <2>3. ASSUME NEW m \in Messages, Receive(m), UNCHANGED oneVars
          PROVE  Lines'
      BY <2>2, <2>3 DEF Receive
    <2>4. CASE MqttStep /\ UNCHANGED oneVars
      BY <1>6, <2>2, <2>4
         DEF MqttStep, WaitProcessed, SetCtrlCharacter, SetCtrlPending,
             ToggleMonitor, CommandDone, RewindApp, OfferApp
    <2>5. CASE OneReaderStep
      BY <1>6, <2>2, <2>5
         DEF OneReaderStep, OneUsesLatch, OneReadTerminal, OneClearCtrlPending,
             OneTakeCtrlCharacter, OneLineGoesOn,
             OneSignalProcessed, OneNothingToRead, OneTakeAppCharacter, OneAppGoesOn,
             OneAppEnds,
             OneFreeApp, OneAppRead
    <2>6. CASE OneOutside
      BY <2>2, <2>6 DEF OneOutside
    <2> QED
      BY <2>3, <2>4, <2>5, <2>6 DEF OneNext
  <1> QED
    BY <1>2, <1>3, <1>4, <1>5, <1>6, MqttLeavesReader DEF MqttStep

LEMMA CrBehindStep ==
    ASSUME TypeOK, MqttAt, LineInv, TypeOK', InFlight', ~raced, OneNext
    PROVE  CrBehind'
  <1> USE DEF LineInv, mqttVars, lineVars, ctrlVars, appVars, oneVars,
              gotVars, sentVars
  <1>1. Delivered \in Seq(Printable) /\ Len(Delivered) \in Nat
    BY DeliveredTyped
  <1>2. CASE OneTakeLineCharacter
    <2> DEFINE c == <<input_data[altairInputBufReadIndex + 1]>>
    <2>1. Delivered' = Delivered \o c /\ c \in Seq(Printable)
      BY <1>2, TakeDelivers
    <2>2. Len(c) = 1
      OBVIOUS
    <2> HIDE DEF c
    <2>3. Len(Delivered') = Len(Delivered) + Len(c)
      BY <1>1, <2>1, ConcatProperties
    <2> QED
      BY <1>1, <1>2, <2>2, <2>3 DEF OneTakeLineCharacter, CrBehind, TypeOK
  <1>3. CASE SetCtrlCharacter /\ UNCHANGED oneVars
    <2>1. Delivered' = Delivered
      BY <1>3, OthersDeliver DEF SetCtrlCharacter, OneTakeLineCharacter
    <2>2. typed = Delivered
      BY <1>3, NothingUnread DEF SetCtrlCharacter, Handing
    <2> QED
      BY <1>1, <1>3, <2>1, <2>2 DEF SetCtrlCharacter, CrBehind
  <1>4. CASE ~OneTakeLineCharacter /\ ~SetCtrlCharacter
    <2>1. Delivered' = Delivered
      BY <1>4, OthersDeliver
    <2>2. ASSUME crAfter' = crAfter
          PROVE  CrBehind'
      BY <2>1, <2>2 DEF CrBehind
    <2>3. ASSUME NEW m \in Messages, Receive(m), UNCHANGED oneVars
          PROVE  CrBehind'
      BY <2>2, <2>3 DEF Receive
    <2>4. CASE MqttStep /\ UNCHANGED oneVars
      BY <1>4, <2>2, <2>4
         DEF MqttStep, HandLineOver, WaitProcessed, SetCtrlPending,
             ToggleMonitor, CommandDone, FillApp, RewindApp, OfferApp
    <2>5. CASE OneReaderStep
      BY <1>4, <2>2, <2>5
         DEF OneReaderStep, OneUsesLatch, OneReadTerminal, OneClearCtrlPending,
             OneTakeCtrlCharacter, OneLineGoesOn, OneLineEnds,
             OneSignalProcessed, OneNothingToRead, OneTakeAppCharacter, OneAppGoesOn,
             OneAppEnds,
             OneFreeApp, OneAppRead
    <2>6. CASE OneOutside
      BY <2>2, <2>6 DEF OneOutside
    <2> QED
      BY <2>3, <2>4, <2>5, <2>6 DEF OneNext
  <1> QED
    BY <1>2, <1>3, <1>4, MqttLeavesReader DEF MqttStep

-----------------------------------------------------------------------------
(***************************************************************************)
(* The loaded program.                                                     *)
(***************************************************************************)
LEMMA AppOwnedStep ==
    ASSUME TypeOK, MqttAt, AppOwned, ~raced, OneNext
    PROVE  AppOwned'
  <1> USE DEF mqttVars, lineVars, ctrlVars, appVars, oneVars, gotVars,
              sentVars
  <1>n. appLoadPtr \in Nat /\ basicAppLength \in Nat
    BY DEF TypeOK
  <1>m. Len(inbound.chars) \in Nat
    BY MessageFacts DEF TypeOK
  <1>1. ASSUME UNCHANGED <<appVars, inbound, overlapped, Place>>,
               mqttPc' \in {"filled", "rewound"} => mqttPc' = mqttPc
        PROVE  AppOwned'
    BY <1>1 DEF AppOwned
  <1>2. ASSUME UNCHANGED <<appVars, inbound, overlapped>>,
               mqttPc' \in {"filled", "rewound"} => mqttPc' = mqttPc,
               Place # "appEnd", Place' \notin {"appEnd", "free"}
        PROVE  AppOwned'
    BY <1>2 DEF AppOwned
  <1>3. ASSUME NEW m \in Messages, Receive(m), UNCHANGED oneVars
        PROVE  AppOwned'
    <2>1. mqttPc' \notin {"filled", "rewound"}
      <3>1. m.kind \in {"line", "load", "control", "monitor"}
        BY MessageFacts
      <3> QED
        BY <1>3, <3>1 DEF Receive, FirstStep
    <2> QED
      BY <1>3, <2>1 DEF Receive, AppOwned
  <1>4. CASE FillApp /\ UNCHANGED oneVars
    <2>1. inbound.kind = "load" /\ inbound.chars \in Seq(Printable)
          /\ Len(inbound.chars) >= 2
      BY <1>4, MessageFacts DEF FillApp, MqttAt, TypeOK
    <2>2. Len(ptrBasicApp') = Len(inbound.chars) + 9
      BY <1>4, <2>1, AppImageFacts DEF FillApp
    <2>3. mqttPc \notin {"filled", "rewound"}
      BY <1>4 DEF FillApp
    <2>4. ~overlapped' => ~overlapped /\ ~haveAppLoad /\ Place # "free"
      BY <1>4, PlaceIsSome DEF FillApp, AppInUse
    <2> QED
      BY <1>4, <2>2, <2>3, <2>4 DEF FillApp, AppOwned
  <1>5. CASE RewindApp /\ UNCHANGED oneVars
    BY <1>5 DEF RewindApp, AppOwned
  <1>6. CASE OfferApp /\ UNCHANGED oneVars
    BY <1>6, <1>m DEF OfferApp, AppOwned
  <1>7. CASE MqttStep /\ UNCHANGED oneVars
    BY <1>1, <1>4, <1>5, <1>6, <1>7
       DEF MqttStep, HandLineOver, WaitProcessed, SetCtrlCharacter,
           SetCtrlPending, ToggleMonitor, CommandDone
  <1>8. CASE OneTakeAppCharacter
    BY <1>8, <1>n DEF OneTakeAppCharacter, AppOwned
  <1>9. CASE OneAppGoesOn
    BY <1>9, <1>n DEF OneAppGoesOn, OneReturn, AppOwned
  <1>10. CASE OneAppEnds
    BY <1>10 DEF OneAppEnds, AppOwned
  <1>11. CASE OneFreeApp
    BY <1>11 DEF OneFreeApp, AppOwned
  <1>12. CASE OneAppRead
    BY <1>12, <1>n DEF OneAppRead, OneReturn, AppOwned
  <1>13. CASE OneSignalProcessed
    BY <1>2, <1>13 DEF OneSignalProcessed, OneReturn
  <1>14. CASE OneReaderStep
    BY <1>2, <1>8, <1>9, <1>10, <1>11, <1>12, <1>13, <1>14
       DEF OneReaderStep, OneUsesLatch, OneReadTerminal, OneClearCtrlPending,
           OneTakeCtrlCharacter, OneTakeLineCharacter,
           OneLineGoesOn, OneLineEnds, OneNothingToRead, OneReturn
  <1>15. CASE OneOutside
    BY <1>1, <1>2, <1>15
       DEF OneOutside
  <1> QED
    BY <1>3, <1>7, <1>14, <1>15 DEF OneNext

-----------------------------------------------------------------------------
(***************************************************************************)
(* A function defined by its value one step before exists: at n it is what *)
(* the functions are that are right up to n.                               *)
(***************************************************************************)
\* Every nonempty set of natural numbers has a least element.
LEMMA Least ==
    ASSUME NEW T, T \subseteq Nat, T # {}
    PROVE  \E x \in T : \A y \in T : x <= y
  <1>1. PICK x \in T : \A y \in T : <<y, x>> \notin OpToRel(<, Nat)
    BY WFMin, NatLessThanWellFounded
  <1>2. \A y \in T : ~(y < x)
    BY <1>1 DEF OpToRel
  <1> QED
    BY <1>2

\* g joins the pieces K[1] to K[n], the last one first.
Joins(g, K, n) ==
    \A i \in Nat : i <= n => g[i] = IF i = 0 THEN <<>> ELSE K[i] \o g[i - 1]

LEMMA JoinedUpTo ==
    ASSUME NEW K, NEW n \in Nat
    PROVE  \E g : Joins(g, K, n)
  <1> DEFINE T == {m \in Nat : ~\E g : Joins(g, K, m)}
  <1>1. SUFFICES ASSUME T # {} PROVE FALSE
    OBVIOUS
  <1>2. PICK x \in T : \A y \in T : x <= y
    BY <1>1, Least
  <1>3. x \in Nat /\ ~\E g : Joins(g, K, x)
    BY <1>2
  <1>4. CASE x = 0
    <2> DEFINE g == [i \in Nat |-> <<>>]
    <2>1. g[0] = <<>>
      OBVIOUS
    <2> HIDE DEF g
    <2>2. Joins(g, K, 0)
      BY <2>1 DEF Joins
    <2> QED
      BY <1>3, <1>4, <2>2
  <1>5. CASE x # 0
    <2>1. x - 1 \in Nat /\ x - 1 \notin T
      <3> HIDE DEF T
      <3> QED
        BY <1>2, <1>3, <1>5
    <2>2. PICK g : Joins(g, K, x - 1)
      BY <2>1
    <2> DEFINE h == [i \in Nat |-> IF i = x THEN K[x] \o g[x - 1] ELSE g[i]]
    <2>3. Joins(h, K, x)
      BY <1>3, <1>5, <2>2 DEF Joins
    <2> QED
      BY <2>3, <1>3
  <1> QED
    BY <1>4, <1>5

LEMMA JoinedAlike ==
    ASSUME NEW K, NEW m \in Nat, NEW n \in Nat, m <= n, NEW g, NEW h,
           Joins(g, K, m), Joins(h, K, n)
    PROVE  g[m] = h[m]
  <1> DEFINE T == {i \in Nat : i <= m /\ g[i] # h[i]}
  <1>1. SUFFICES ASSUME T # {} PROVE FALSE
    OBVIOUS
  <1>2. PICK x \in T : \A y \in T : x <= y
    BY <1>1, Least
  <1>3. x \in Nat /\ x <= m /\ g[x] # h[x]
    BY <1>2
  <1>4. x # 0
    BY <1>3 DEF Joins
  <1>5. x - 1 \in Nat /\ x - 1 <= m /\ x - 1 \notin T
    <2> HIDE DEF T
    <2> QED
      BY <1>2, <1>3, <1>4
  <1>6. g[x - 1] = h[x - 1]
    BY <1>5
  <1> QED
    BY <1>3, <1>4, <1>6 DEF Joins

LEMMA JoinedOnce ==
    ASSUME NEW K, NEW n \in Nat, NEW g, Joins(g, K, n)
    PROVE  g[n] = IF n = 0 THEN <<>> ELSE K[n] \o g[n - 1]
  BY DEF Joins

LEMMA Joined ==
    ASSUME NEW K
    PROVE  \E f : f = [n \in Nat |-> IF n = 0 THEN <<>> ELSE K[n] \o f[n - 1]]
  <1> DEFINE G(n) == CHOOSE g : Joins(g, K, n)
             f == [n \in Nat |-> G(n)[n]]
  <1>1. \A n \in Nat : Joins(G(n), K, n)
    BY JoinedUpTo
  <1> HIDE DEF G
  <1>2. ASSUME NEW n \in Nat
        PROVE  f[n] = IF n = 0 THEN <<>> ELSE K[n] \o f[n - 1]
    <2>1. CASE n = 0
      <3>1. Joins(G(0), K, 0)
        BY <1>1
      <3> QED
        BY <3>1, <2>1 DEF Joins
    <2>2. CASE n # 0
      <3>1. n - 1 \in Nat /\ n - 1 <= n
        BY <2>2
      <3>2. Joins(G(n), K, n) /\ Joins(G(n - 1), K, n - 1)
        BY <1>1, <3>1
      <3>3. G(n - 1)[n - 1] = G(n)[n - 1]
        BY <3>1, <3>2, JoinedAlike
      <3>4. G(n)[n] = K[n] \o G(n)[n - 1]
        BY <2>2, <3>2, JoinedOnce
      <3> QED
        BY <2>2, <3>1, <3>3, <3>4
    <2> QED
      BY <2>1, <2>2
  <1> HIDE DEF f
  <1>3. f = [n \in Nat |-> f[n]]
    BY DEF f
  <1>4. f = [n \in Nat |-> IF n = 0 THEN <<>> ELSE K[n] \o f[n - 1]]
    BY <1>2, <1>3
  <1> QED
    BY <1>4

-----------------------------------------------------------------------------
(***************************************************************************)
(* The characters of a program.                                            *)
(***************************************************************************)
\* What a byte adds to the characters.
Kept(byte) == IF byte = NUL THEN <<>> ELSE <<byte>>

LEMMA NotNulSteps ==
    ASSUME NEW s \in Seq(Bytes)
    PROVE  /\ NotNulFrom(s, Len(s)) = <<>>
           /\ \A k \in Nat : k < Len(s) =>
                 NotNulFrom(s, k) = Kept(s[k + 1]) \o NotNulFrom(s, k + 1)
  <1> DEFINE K == [n \in Nat |-> Kept(s[Len(s) + 1 - n])]
             Is(f) == f = [n \in Nat |-> IF n = 0 THEN <<>> ELSE K[n] \o f[n - 1]]
             Was(f) == f = [n \in Nat |->
                         IF n = 0 THEN <<>>
                         ELSE (IF s[Len(s) + 1 - n] = NUL THEN <<>>
                               ELSE <<s[Len(s) + 1 - n]>>) \o f[n - 1]]
             last == CHOOSE f : Was(f)
  <1>1. \A f : Is(f) => Was(f)
    BY DEF Kept
  <1>2. \E f : Is(f)
    BY Joined
  <1>3. \E f : Was(f)
    <2> HIDE DEF Is, Was
    <2> QED
      BY <1>1, <1>2
  <1>4. Was(last)
    <2> HIDE DEF Was
    <2> QED
      BY <1>3
  <1>5. \A k : NotNulFrom(s, k) = last[Len(s) - k]
    BY DEF NotNulFrom
  <1> HIDE DEF last
  <1>6. \A n \in Nat : last[n] = IF n = 0 THEN <<>>
                         ELSE (IF s[Len(s) + 1 - n] = NUL THEN <<>>
                               ELSE <<s[Len(s) + 1 - n]>>) \o last[n - 1]
    BY <1>4
  <1> HIDE DEF Was, Is, K
  <1>7. Len(s) \in Nat
    BY LenProperties
  <1>8. NotNulFrom(s, Len(s)) = <<>>
    <2>1. Len(s) - Len(s) = 0
      BY <1>7
    <2>2. last[0] = <<>>
      BY <1>6
    <2> QED
      BY <1>5, <2>1, <2>2
  <1>9. ASSUME NEW k \in Nat, k < Len(s)
        PROVE  NotNulFrom(s, k) = Kept(s[k + 1]) \o NotNulFrom(s, k + 1)
    <2> DEFINE n == Len(s) - k
    <2>1. n \in Nat /\ n # 0 /\ Len(s) + 1 - n = k + 1 /\ n - 1 = Len(s) - (k + 1)
      BY <1>7, <1>9
    <2>2. last[n] = Kept(s[k + 1]) \o last[n - 1]
      BY <1>6, <2>1 DEF Kept
    <2> QED
      BY <1>5, <2>1, <2>2
  <1> QED
    BY <1>8, <1>9

LEMMA KeptTyped ==
    ASSUME NEW byte \in Bytes
    PROVE  Kept(byte) \in Seq(Bytes)
  <1>1. <<>> \in Seq(Bytes) /\ <<byte>> \in Seq(Bytes)
    OBVIOUS
  <1> QED
    BY <1>1, Zenon DEF Kept

LEMMA NotNulTyped ==
    ASSUME NEW s \in Seq(Bytes), NEW k \in Nat, k <= Len(s)
    PROVE  NotNulFrom(s, k) \in Seq(Bytes)
  <1> DEFINE T == {n \in Nat : n <= Len(s) /\ NotNulFrom(s, Len(s) - n) \notin Seq(Bytes)}
  <1>n. Len(s) \in Nat
    BY LenProperties
  <1>1. ASSUME T # {}
        PROVE  FALSE
    <2>1. PICK n \in T : \A m \in T : n <= m
      BY <1>1, Least
    <2>2. n \in Nat /\ n <= Len(s) /\ NotNulFrom(s, Len(s) - n) \notin Seq(Bytes)
      BY <2>1
    <2>3. n # 0
      <3>1. NotNulFrom(s, Len(s)) = <<>> /\ <<>> \in Seq(Bytes)
        BY NotNulSteps
      <3>2. Len(s) - 0 = Len(s)
        BY <1>n
      <3> QED
        BY <2>2, <3>1, <3>2
    <2>4. n - 1 \in Nat /\ n - 1 <= Len(s) /\ ~(n <= n - 1)
      BY <1>n, <2>2, <2>3
    <2>5. n - 1 \notin T
      <3> HIDE DEF T
      <3> QED
        BY <2>1, <2>4
    <2> DEFINE i == Len(s) - n
    <2>6. i \in Nat /\ i < Len(s) /\ i + 1 = Len(s) - (n - 1) /\ i + 1 \in 1..Len(s)
      BY <1>n, <2>2, <2>3
    <2>7. NotNulFrom(s, i + 1) \in Seq(Bytes)
      BY <2>4, <2>5, <2>6
    <2> HIDE DEF T
    <2>8. Kept(s[i + 1]) \in Seq(Bytes)
      BY <2>6, ElementOfSeq, KeptTyped
    <2>9. NotNulFrom(s, i) = Kept(s[i + 1]) \o NotNulFrom(s, i + 1)
      BY <2>6, NotNulSteps
    <2>10. NotNulFrom(s, i) \in Seq(Bytes)
      BY <2>7, <2>8, <2>9, ConcatProperties
    <2> QED
      BY <2>2, <2>10
  <1>2. Len(s) - k \in Nat /\ Len(s) - k <= Len(s) /\ Len(s) - (Len(s) - k) = k
    BY <1>n
  <1> QED
    BY <1>1, <1>2

LEMMA BehindConcat ==
    ASSUME NEW s \in Seq(Bytes), NEW t \in Seq(Bytes)
    PROVE  /\ Len(s) \in Nat /\ Len(s \o t) = Len(s) + Len(t)
           /\ \A i \in 1..Len(t) : (s \o t)[Len(s) + i] = t[i]
  <1>1. Len(s) \in Nat /\ Len(t) \in Nat
    BY LenProperties
  <1>2. s \o t \in Seq(Bytes) /\ Len(s \o t) = Len(s) + Len(t)
    BY ConcatProperties
  <1>3. \A n \in 1..Len(s) + Len(t) :
           (s \o t)[n] = IF n <= Len(s) THEN s[n] ELSE t[n - Len(s)]
    BY ConcatProperties
  <1>4. ASSUME NEW i \in 1..Len(t)
        PROVE  (s \o t)[Len(s) + i] = t[i]
    <2>1. Len(s) + i \in 1..Len(s) + Len(t) /\ ~(Len(s) + i <= Len(s))
      BY <1>1
    <2>2. Len(s) + i - Len(s) = i
      BY <1>1
    <2> QED
      BY <1>3, <2>1, <2>2
  <1> QED
    BY <1>1, <1>2, <1>4

LEMMA AppImageEnds ==
    ASSUME NEW file \in Seq(Printable), Len(file) >= 2
    PROVE  AppImage(file)[Len(file) + 9] = NUL
  <1> DEFINE first == <<CR, LF, CR, LF, NUL>>
             middle == SubSeq(file, 1, Len(file) - 2)
             last == <<CR, LF, CR, LF, NUL, NUL>>
             start == first \o middle
  <1>b. NUL \in Bytes /\ CR \in Bytes /\ LF \in Bytes /\ Printable \subseteq Bytes
    BY DEF Bytes
  <1>1. first \in Seq(Bytes) /\ Len(first) = 5
    BY <1>b
  <1>2. last \in Seq(Bytes) /\ Len(last) = 6 /\ 6 \in 1..Len(last)
    BY <1>b
  <1>nul. last[6] = NUL
    OBVIOUS
  <1>3. Len(file) \in Nat /\ \A i \in 1..Len(file) - 2 : file[i] \in Bytes
    BY <1>b, LenProperties
  <1>4. middle \in Seq(Bytes)
    BY <1>3, SubSeqProperties
  <1>5. AppImage(file) = start \o last
    BY DEF AppImage
  <1> HIDE DEF first, middle, last
  <1>6. start \in Seq(Bytes)
    BY <1>1, <1>4, ConcatProperties
  <1> HIDE DEF start
  <1>7. Len(start) \in Nat /\ Len(start \o last) = Len(start) + Len(last)
    BY <1>2, <1>6, BehindConcat
  <1>8. (start \o last)[Len(start) + 6] = last[6]
    BY <1>2, <1>6, BehindConcat
  <1>9. Len(start) + 6 = Len(file) + 9
    <2>1. Len(AppImage(file)) = Len(file) + 9
      BY AppImageFacts
    <2> QED
      BY <1>2, <1>3, <1>5, <1>7, <2>1
  <1> QED
    BY <1>nul, <1>5, <1>8, <1>9

-----------------------------------------------------------------------------
(***************************************************************************)
(* What has been taken from the program.  Only TakeAppCharacter adds to it,*)
(* and what it adds was the first of the rest.                             *)
(***************************************************************************)
\* What has been taken is kept; the guest is given the character at hand, if any.
Passed ==
    /\ Got' = Got
    /\ InHandFrom("app") = <<>> => gotApp' = gotApp /\ InHandFrom("app")' = <<>>

LEMMA InHandTyped ==
    ASSUME TypeOK, InFlight
    PROVE  InHand \in Chars /\ InHand.byte \in Bytes /\ InHandFrom("app") \in Seq(Bytes)
  <1>1. InHand \in Chars
    BY HandIsOne, HeldTyped DEF TypeOK
  <1>2. InHand.byte \in Bytes
    BY <1>1 DEF Chars
  <1>3. <<>> \in Seq(Bytes) /\ \A b \in Bytes : <<b>> \in Seq(Bytes)
    OBVIOUS
  <1>4. InHandFrom("app") \in Seq(Bytes)
    BY <1>2, <1>3, Zenon DEF InHandFrom
  <1> QED
    BY <1>1, <1>2, <1>4

LEMMA GotTyped ==
    ASSUME TypeOK, InFlight
    PROVE  Got \in Seq(Bytes)
  BY InHandTyped, ConcatProperties DEF Got, TypeOK

LEMMA AppGiven ==
    ASSUME NEW c \in Chars, gotApp \in Seq(Bytes), Give(c), c.byte # NUL,
           ~raced, ~overlapped
    PROVE  gotApp' =
              gotApp \o (IF c.from = "app" /\ c.byte # NUL THEN <<c.byte>> ELSE <<>>)
  <1>1. c.byte \in Bytes
    BY DEF Chars
  <1>2. CASE c.from = "app"
    BY <1>1, <1>2, AppendIsConcat DEF Give
  <1>3. CASE c.from # "app"
    BY <1>3, ConcatEmptySeq DEF Give
  <1> QED
    BY <1>2, <1>3

LEMMA AppReturned ==
    ASSUME TypeOK, InFlight, TypeOK', Place # "idle", ~raced, ~overlapped,
           NEW c \in Chars, OneReturn(c),
           InHandFrom("app") = IF c.from = "app" /\ c.byte # NUL THEN <<c.byte>> ELSE <<>>
    PROVE  Passed
  <1>n. NoChar.from = "none"
    BY DEF NoChar, Char
  <1>1. InHand' = character'
    BY HandIsOne DEF OneReturn
  <1>2. character = NoChar
    BY DEF InFlight
  <1>3. InHandFrom("app")' = IF character'.from = "app" /\ character'.byte # NUL
                             THEN <<character'.byte>> ELSE <<>>
    BY <1>1 DEF InHandFrom
  <1>4. CASE c.byte = NUL /\ UNCHANGED <<character, gotVars>>
    <2>1. gotApp' = gotApp /\ character' = NoChar
      BY <1>2, <1>4 DEF gotVars
    <2>2. InHandFrom("app") = <<>> /\ InHandFrom("app")' = <<>>
      BY <1>3, <1>4, <1>n, <2>1
    <2> QED
      BY <2>1, <2>2 DEF Got, Passed
  <1>5. CASE character' = c /\ UNCHANGED gotVars
    <2>1. gotApp' = gotApp
      BY <1>5 DEF gotVars
    <2>2. InHandFrom("app")' = InHandFrom("app")
      BY <1>3, <1>5
    <2> QED
      BY <2>1, <2>2 DEF Got, Passed
  <1>6. CASE c.byte # NUL /\ Give(c) /\ UNCHANGED character
    <2>2. gotApp' = Got
      BY <1>6, AppGiven DEF TypeOK, Got
    <2>3. InHandFrom("app")' = <<>>
      BY <1>2, <1>3, <1>6, <1>n
    <2>4. gotApp' \in Seq(Bytes)
      BY DEF TypeOK
    <2>5. gotApp' \o <<>> = gotApp'
      BY <2>4, ConcatEmptySeq
    <2>6. gotApp \o <<>> = gotApp
      BY ConcatEmptySeq DEF TypeOK
    <2> QED
      BY <2>2, <2>3, <2>5, <2>6 DEF Got, Passed
  <1> QED
    BY <1>4, <1>5, <1>6 DEF OneReturn

LEMMA OthersGet ==
    ASSUME TypeOK, InFlight, TypeOK', ~raced, OneNext, ~overlapped,
           ~OneTakeAppCharacter, ~FillApp
    PROVE  Passed
  <1> USE DEF mqttVars, lineVars, ctrlVars, appVars, oneVars, gotVars,
              sentVars
  <1>n. NoChar.from = "none" /\ NoChar.byte = NUL /\ NoChar \in Chars
    BY CharFacts DEF Bytes
  <1>1. ASSUME UNCHANGED <<oneVars, gotApp>>
        PROVE  Passed
    BY <1>1, HandIsOne DEF Passed, Got, InHandFrom
  <1>2. CASE MqttStep /\ UNCHANGED oneVars
    BY <1>1, <1>2
       DEF MqttStep, HandLineOver, WaitProcessed, SetCtrlCharacter,
           SetCtrlPending, ToggleMonitor, CommandDone, RewindApp, OfferApp
  <1>3. ASSUME NEW m \in Messages, Receive(m), UNCHANGED oneVars
        PROVE  Passed
    BY <1>1, <1>3 DEF Receive
  <1>4. ASSUME UNCHANGED <<Held, character, gotApp>>, Place # "idle", Place' # "idle"
        PROVE  Passed
    BY <1>4, HandIsOne DEF Passed, Got, InHandFrom
  <1>5. CASE OneClearCtrlPending \/ OneLineEnds \/ OneAppEnds \/ OneFreeApp
    BY <1>4, <1>5 DEF OneClearCtrlPending, OneLineEnds, OneAppEnds, OneFreeApp
  <1>6. CASE OneTakeCtrlCharacter
    <2>1. InHand = NoChar
      BY <1>6, HandIsOne DEF OneTakeCtrlCharacter, InFlight
    <2>2. InHandFrom("app") = <<>>
      BY <1>n, <2>1 DEF InHandFrom
    <2>3. haveCtrlCharacter \in Chars /\ haveCtrlCharacter.from # "app"
      BY DEF TypeOK, InFlight
    <2> QED
      BY <1>6, <2>2, <2>3, AppReturned DEF OneTakeCtrlCharacter
  <1>7. CASE OneNothingToRead
    <2>1. InHand = NoChar
      BY <1>7, HandIsOne DEF OneNothingToRead, InFlight
    <2>2. InHandFrom("app") = <<>>
      BY <1>n, <2>1 DEF InHandFrom
    <2> QED
      BY <1>7, <1>n, <2>2, AppReturned DEF OneNothingToRead
  <1>8. ASSUME OneReturn(Held), Place # "idle"
        PROVE  Passed
    <2>1. InHand = Held /\ Held \in Chars
      BY <1>8, HandIsOne, HeldTyped
    <2> QED
      BY <1>8, <2>1, AppReturned DEF InHandFrom
  <1>9. CASE OneLineGoesOn \/ OneSignalProcessed \/ OneAppGoesOn \/ OneAppRead
    BY <1>8, <1>9 DEF OneLineGoesOn, OneSignalProcessed, OneAppGoesOn, OneAppRead
  <1>10. CASE OneTakeLineCharacter
    <2>1. InHand = NoChar
      BY <1>10, HandIsOne DEF OneTakeLineCharacter, InFlight
    <2>2. InHand'.from = "line"
      BY <1>10, HandIsOne DEF OneTakeLineCharacter, Char
    <2>3. InHandFrom("app") = <<>> /\ InHandFrom("app")' = <<>>
      BY <1>n, <2>1, <2>2 DEF InHandFrom
    <2> QED
      BY <1>10, <2>3 DEF OneTakeLineCharacter, Passed, Got
  <1>12. CASE OneReadTerminal
    <2>1. InHand = NoChar /\ InHand' = NoChar
      BY <1>12, HandIsOne DEF OneReadTerminal, InFlight
    <2> QED
      BY <1>12, <2>1 DEF Passed, Got, InHandFrom, OneReadTerminal
  <1>13. CASE OneUsesLatch
    <2>1. Give(character) /\ InHand = character /\ InHand' = NoChar
      BY <1>13, HandIsOne DEF OneUsesLatch
    <2>2. gotApp' = Got
      <3>1. character.byte # NUL /\ character \in Chars
        BY <1>13 DEF OneUsesLatch, InFlight, TypeOK
      <3> QED
        BY <2>1, <3>1, AppGiven DEF TypeOK, Got, InHandFrom
    <2>3. InHandFrom("app")' = <<>>
      BY <1>n, <2>1 DEF InHandFrom
    <2>4. gotApp' \in Seq(Bytes)
      BY DEF TypeOK
    <2>5. gotApp' \o <<>> = gotApp'
      BY <2>4, ConcatEmptySeq
    <2>6. gotApp \o <<>> = gotApp
      BY ConcatEmptySeq DEF TypeOK
    <2> QED
      BY <2>2, <2>3, <2>5, <2>6 DEF Passed, Got
  <1>14. CASE OneOutside
    BY <1>1, <1>14 DEF OneOutside
  <1> QED
    BY <1>2, <1>3, <1>5, <1>6, <1>7, <1>9, <1>10, <1>12, <1>13, <1>14
       DEF OneNext, OneReaderStep

LEMMA TakeGets ==
    ASSUME TypeOK, InFlight, AppOwned, ~overlapped, OneTakeAppCharacter
    PROVE  /\ Got' = Got \o Kept(ptrBasicApp[appLoadPtr + 1])
           /\ Rest = Kept(ptrBasicApp[appLoadPtr + 1]) \o Rest'
           /\ Kept(ptrBasicApp[appLoadPtr + 1]) \in Seq(Bytes)
           /\ Rest' \in Seq(Bytes)
           /\ Held'.byte = ptrBasicApp[appLoadPtr + 1]
  <1> DEFINE n == appLoadPtr + 1
             c == ptrBasicApp[n]
  <1>1. /\ ptrBasicApp \in Seq(Bytes) /\ Len(ptrBasicApp) \in Nat
        /\ appLoadPtr \in Nat /\ appLoadPtr < Len(ptrBasicApp)
        /\ haveAppLoad /\ haveAppLoad' /\ ptrBasicApp' = ptrBasicApp /\ appLoadPtr' = n
    BY DEF OneTakeAppCharacter, AppOwned, TypeOK
  <1>2. n \in 1..Len(ptrBasicApp) /\ c \in Bytes
    BY <1>1, ElementOfSeq
  <1>3. Held' = Char("app", c)
    <2>1. ByteAt(ptrBasicApp, appLoadPtr) = {c}
      BY <1>1 DEF ByteAt
    <2> QED
      BY <2>1 DEF OneTakeAppCharacter
  <1>4. InHand = NoChar /\ InHand' = Char("app", c)
    BY <1>3, HandIsOne DEF OneTakeAppCharacter, InFlight
  <1>5. InHandFrom("app") = <<>>
    BY <1>4 DEF InHandFrom, NoChar, Char
  <1>6. InHandFrom("app")' = Kept(c)
    BY <1>4 DEF InHandFrom, Char, Kept
  <1>7. gotApp' = gotApp /\ gotApp \o <<>> = gotApp
    BY ConcatEmptySeq DEF OneTakeAppCharacter, gotVars, TypeOK
  <1>8. Got' = Got \o Kept(c)
    BY <1>5, <1>6, <1>7 DEF Got
  <1>9. Kept(c) \in Seq(Bytes)
    BY <1>2, KeptTyped
  <1>10. Rest' = NotNulFrom(ptrBasicApp, n)
    <2>1. CASE n < Len(ptrBasicApp)
      BY <1>1, <2>1 DEF Rest
    <2>2. CASE n = Len(ptrBasicApp)
      <3>1. Rest' = <<>>
        BY <1>1, <2>2 DEF Rest
      <3> QED
        BY <1>1, <2>2, <3>1, NotNulSteps
    <2> QED
      BY <1>1, <2>1, <2>2
  <1>11. Rest = Kept(c) \o NotNulFrom(ptrBasicApp, n)
    BY <1>1, NotNulSteps DEF Rest
  <1>12. NotNulFrom(ptrBasicApp, n) \in Seq(Bytes)
    BY <1>1, NotNulTyped
  <1>13. Held'.byte = c
    BY <1>3 DEF Char
  <1> QED
    BY <1>8, <1>9, <1>10, <1>11, <1>12, <1>13 DEF n, c


LEMMA OnlyFillLoads ==
    ASSUME ~raced, OneNext, ~FillApp
    PROVE  UNCHANGED <<loaded, overlapped>>
  <1> USE DEF mqttVars, lineVars, ctrlVars, appVars, oneVars, gotVars,
              sentVars
  <1>1. ASSUME NEW m \in Messages, Receive(m), UNCHANGED oneVars
        PROVE  UNCHANGED <<loaded, overlapped>>
    BY <1>1 DEF Receive
  <1>2. CASE MqttStep /\ UNCHANGED oneVars
    BY <1>2
       DEF MqttStep, HandLineOver, WaitProcessed, SetCtrlCharacter,
           SetCtrlPending, ToggleMonitor, CommandDone, RewindApp, OfferApp
  <1>3. CASE OneReaderStep
    BY <1>3
       DEF OneReaderStep, OneUsesLatch, OneReadTerminal, OneClearCtrlPending,
           OneTakeCtrlCharacter, OneTakeLineCharacter, OneLineGoesOn,
           OneLineEnds, OneSignalProcessed, OneNothingToRead, OneTakeAppCharacter,
           OneAppGoesOn,
           OneAppEnds, OneFreeApp, OneAppRead
  <1>4. CASE OneOutside
    BY <1>4 DEF OneOutside
  <1> QED
    BY <1>1, <1>2, <1>3, <1>4 DEF OneNext

LEMMA AppAtStep ==
    ASSUME TypeOK, MqttAt, InFlight, AppOwned, AppAt, TypeOK', ~raced, OneNext
    PROVE  AppAt'
  <1> USE DEF mqttVars, lineVars, ctrlVars, appVars, oneVars, gotVars,
              sentVars
  <1>1. SUFFICES ASSUME ~overlapped'
                 PROVE  AppAt'
    BY DEF AppAt
  <1>n. appLoadPtr \in Nat /\ basicAppLength \in Nat
    BY DEF TypeOK
  <1>2. ASSUME FillApp, UNCHANGED oneVars
        PROVE  AppAt'
    <2>1. inbound.kind = "load" /\ inbound.chars \in Seq(Printable)
          /\ Len(inbound.chars) >= 2
      BY <1>2, MessageFacts DEF FillApp, MqttAt, TypeOK
    <2>2. ~overlapped /\ ~haveAppLoad /\ UNCHANGED oneVars
      BY <1>1, <1>2 DEF FillApp, AppInUse
    <2>3. InHandFrom("app")' = <<>>
      BY <2>2, HandIsOne DEF AppAt, InHandFrom, oneVars
    <2>4. Place # "appEnd"
      BY <2>2 DEF AppOwned
    <2> QED
      BY <1>2, <2>1, <2>2, <2>3, <2>4 DEF FillApp, AppAt, Loading
  <1>3. ASSUME OneTakeAppCharacter
        PROVE  AppAt'
    <2>1. ~overlapped /\ UNCHANGED overlapped
      BY <1>1, <1>3 DEF OneTakeAppCharacter
    <2>2. Held'.byte = ptrBasicApp[appLoadPtr + 1]
      BY <1>3, <2>1, TakeGets
    <2>3. ~Loading
      BY <1>3, <2>1 DEF OneTakeAppCharacter, AppOwned, Loading
    <2> QED
      BY <1>3, <2>1, <2>2, <2>3 DEF OneTakeAppCharacter, AppAt, Loading
  <1>4. ASSUME ~FillApp, ~OneTakeAppCharacter
        PROVE  AppAt'
    <2>1. ~overlapped /\ UNCHANGED <<loaded, overlapped>>
      BY <1>1, <1>4, OnlyFillLoads
    <2>2. Passed
      BY <1>4, <2>1, OthersGet
    <2>3. Loading /\ gotApp = <<>> => InHandFrom("app") = <<>> /\ gotApp' = <<>>
      BY <2>1, <2>2 DEF Passed, AppAt, AppOwned, Loading
    <2>4. ASSUME UNCHANGED <<ptrBasicApp, haveAppLoad>>, Loading' => Loading,
                 Place' = "appEnd" =>
                    Place = "appEnd" /\ UNCHANGED <<Held, appLoadPtr>>,
                 Place' = "rewind" =>
                    Place = "rewind" /\ (haveAppLoad => UNCHANGED appLoadPtr)
          PROVE  AppAt'
      BY <2>1, <2>2, <2>3, <2>4 DEF Passed, AppAt
    <2>5. ASSUME NEW m \in Messages, Receive(m), UNCHANGED oneVars
          PROVE  AppAt'
      <3>1. m.kind \in {"line", "load", "control", "monitor"}
        BY MessageFacts
      <3>2. ~Loading'
        BY <2>5, <3>1 DEF Receive, FirstStep, Loading
      <3> QED
        BY <2>4, <2>5, <3>2 DEF Receive
    <2>6. CASE OfferApp /\ UNCHANGED oneVars
      <3>1. /\ Loading /\ ~Loading' /\ haveAppLoad'
            /\ UNCHANGED <<oneVars, ptrBasicApp, appLoadPtr>>
        BY <2>6 DEF OfferApp, Loading
      <3>2. Len(loaded) >= 2 /\ ptrBasicApp = AppImage(loaded)
        BY <2>1, <3>1 DEF AppAt
      <3>3. Place # "appEnd" /\ appLoadPtr = 0
        BY <2>1, <2>6 DEF OfferApp, AppOwned
      <3> QED
        BY <2>1, <3>1, <3>2, <3>3 DEF AppAt
    <2>7. CASE RewindApp /\ UNCHANGED oneVars
      <3>1. Place # "appEnd" /\ ~haveAppLoad
        BY <2>1, <2>7 DEF RewindApp, AppOwned
      <3> QED
        BY <2>4, <2>7, <3>1 DEF RewindApp, Loading
    <2>8. CASE MqttStep /\ UNCHANGED oneVars
      BY <1>4, <2>4, <2>6, <2>7, <2>8
         DEF MqttStep, HandLineOver, WaitProcessed, SetCtrlCharacter,
             SetCtrlPending, ToggleMonitor, CommandDone, Loading
    <2>9. CASE OneAppEnds
      <3>1. /\ haveAppLoad /\ ~haveAppLoad' /\ ~Loading /\ Place' = "free"
            /\ basicAppLength = Len(ptrBasicApp) /\ appLoadPtr = basicAppLength
            /\ UNCHANGED <<mqttPc, ptrBasicApp, Held>>
        BY <2>1, <2>9 DEF OneAppEnds, AppOwned, Loading
      <3>2. /\ loaded \in Seq(Printable) /\ Len(loaded) >= 2
            /\ ptrBasicApp = AppImage(loaded)
        BY <2>1, <3>1 DEF AppAt, TypeOK
      <3>3. Held.byte = NUL
        <4>1. Held.byte = ptrBasicApp[appLoadPtr]
          BY <2>1, <2>9 DEF OneAppEnds, AppAt
        <4>2. appLoadPtr = Len(loaded) + 9
          BY <3>1, <3>2, AppImageFacts
        <4> QED
          BY <3>2, <4>1, <4>2, AppImageEnds
      <3>4. InHandFrom("app")' = <<>>
        BY <3>1, <3>3, HandIsOne DEF InHandFrom
      <3>5. ~Loading'
        BY <3>1 DEF Loading
      <3> QED
        BY <3>1, <3>4, <3>5 DEF AppAt
    <2>10. CASE OneFreeApp
      <3>1. /\ ~haveAppLoad /\ ~Loading /\ Place' = "rewind"
            /\ UNCHANGED <<mqttPc, haveAppLoad>>
        BY <2>1, <2>10 DEF OneFreeApp, AppOwned, Loading
      <3>2. ~Loading'
        BY <3>1 DEF Loading
      <3> QED
        BY <2>1, <2>2, <3>1, <3>2 DEF Passed, AppAt
    <2>11. CASE OneAppGoesOn
      BY <2>4, <2>11 DEF OneAppGoesOn, OneReturn, Loading
    <2>12. CASE OneAppRead
      BY <2>4, <2>12 DEF OneAppRead, OneReturn, Loading
    <2>13. CASE OneSignalProcessed
      BY <2>4, <2>13 DEF OneSignalProcessed, OneReturn, Loading
    <2>14. CASE OneReaderStep
      BY <1>4, <2>4, <2>9, <2>10, <2>11, <2>12, <2>13, <2>14
         DEF OneReaderStep, OneUsesLatch, OneReadTerminal, OneClearCtrlPending,
             OneTakeCtrlCharacter, OneTakeLineCharacter,
             OneLineGoesOn, OneLineEnds, OneNothingToRead, OneReturn, Loading
    <2>15. CASE OneOutside
      BY <2>4, <2>15
         DEF OneOutside,
             Loading
    <2> QED
      BY <2>5, <2>8, <2>14, <2>15 DEF OneNext
  <1> QED
    BY <1>2, <1>3, <1>4, MqttLeavesReader DEF MqttStep

LEMMA ImageStep ==
    ASSUME TypeOK, MqttAt, InFlight, AppOwned, AppAt, Image,
           TypeOK', AppAt', ~raced, OneNext
    PROVE  Image'
  <1> USE DEF mqttVars, lineVars, ctrlVars, appVars, oneVars, gotVars,
              sentVars
  <1> DEFINE Whole == IF loaded = <<>> THEN <<>> ELSE NotNulFrom(AppImage(loaded), 0)
  <1>1. SUFFICES ASSUME ~overlapped', ~Loading'
                 PROVE  Got' \o Rest' = Whole'
    BY DEF Image
  <1>2. ~FillApp /\ ~RewindApp
    BY <1>1 DEF FillApp, RewindApp, Loading
  <1>3. ~overlapped /\ UNCHANGED <<loaded, overlapped>>
    BY <1>1, <1>2, OnlyFillLoads
  <1>4. Whole' = Whole
    BY <1>3
  <1>5. ASSUME ~Loading
        PROVE  Got \o Rest = Whole
    BY <1>3, <1>5 DEF Image
  <1> HIDE DEF Whole
  <1>6. ASSUME OneTakeAppCharacter
        PROVE  Got' \o Rest' = Whole'
    <2> DEFINE c == Kept(ptrBasicApp[appLoadPtr + 1])
    <2>1. /\ Got' = Got \o c /\ Rest = c \o Rest'
          /\ c \in Seq(Bytes) /\ Rest' \in Seq(Bytes)
      BY <1>3, <1>6, TakeGets
    <2>2. Got \in Seq(Bytes)
      BY GotTyped
    <2>3. ~Loading
      BY <1>1, <1>6 DEF OneTakeAppCharacter, Loading
    <2> HIDE DEF c
    <2>4. (Got \o c) \o Rest' = Got \o (c \o Rest')
      BY <2>1, <2>2, ConcatAssociative
    <2> QED
      BY <1>4, <1>5, <2>1, <2>3, <2>4
  <1>7. ASSUME ~OneTakeAppCharacter
        PROVE  Got' \o Rest' = Whole'
    <2>1. Passed /\ Got' = Got
      BY <1>2, <1>3, <1>7, OthersGet DEF Passed
    <2>2. CASE OfferApp /\ UNCHANGED oneVars
      <3>1. /\ Loading /\ haveAppLoad' /\ ~haveAppLoad /\ appLoadPtr = 0
            /\ UNCHANGED <<ptrBasicApp, appLoadPtr>>
        BY <1>3, <2>2 DEF OfferApp, AppOwned, Loading
      <3>2. /\ loaded \in Seq(Printable) /\ Len(loaded) >= 2
            /\ ptrBasicApp = AppImage(loaded) /\ Got = <<>> \o <<>>
        BY <1>3, <3>1 DEF AppAt, TypeOK, Got
      <3>3. ptrBasicApp \in Seq(Bytes) /\ 0 < Len(ptrBasicApp)
        BY <3>2, AppImageFacts
      <3>4. Rest' = NotNulFrom(AppImage(loaded), 0)
        BY <3>1, <3>2, <3>3 DEF Rest
      <3>5. Rest' \in Seq(Bytes)
        BY <3>2, <3>3, <3>4, NotNulTyped
      <3>6. <<>> \o <<>> = <<>> /\ <<>> \o Rest' = Rest'
        BY <3>5, ConcatEmptySeq
      <3>7. loaded # <<>>
        BY <3>2
      <3> QED
        BY <1>4, <2>1, <3>2, <3>4, <3>6, <3>7 DEF Whole
    <2>3. ASSUME ~Loading, Rest' = Rest
          PROVE  Got' \o Rest' = Whole'
      BY <1>4, <1>5, <2>1, <2>3
    <2>4. CASE OneAppEnds
      <3>1. Rest = <<>> /\ Rest' = <<>>
        BY <1>3, <2>4 DEF OneAppEnds, AppOwned, Rest
      <3> QED
        BY <1>1, <2>3, <2>4, <3>1 DEF OneAppEnds, Loading
    <2>5. CASE OneFreeApp
      <3>1. Rest = <<>> /\ Rest' = <<>>
        BY <1>3, <2>5 DEF OneFreeApp, AppOwned, Rest
      <3> QED
        BY <1>1, <2>3, <2>5, <3>1 DEF OneFreeApp, Loading
    <2>6. CASE OneAppRead
      <3>1. Rest' = Rest
        BY <1>3, <2>6 DEF OneAppRead, AppAt, Rest
      <3> QED
        BY <1>1, <2>3, <2>6, <3>1 DEF OneAppRead, Loading
    <2>7. ASSUME UNCHANGED <<ptrBasicApp, haveAppLoad, appLoadPtr>>, ~Loading
          PROVE  Got' \o Rest' = Whole'
      BY <2>3, <2>7 DEF Rest
    <2>8. ASSUME NEW m \in Messages, Receive(m), UNCHANGED oneVars
          PROVE  Got' \o Rest' = Whole'
      BY <2>7, <2>8 DEF Receive, Loading
    <2>9. CASE MqttStep /\ UNCHANGED oneVars
      BY <1>2, <2>2, <2>7, <2>9
         DEF MqttStep, HandLineOver, WaitProcessed, SetCtrlCharacter,
             SetCtrlPending, ToggleMonitor, CommandDone, Loading
    <2>10. CASE OneSignalProcessed
      BY <1>1, <2>7, <2>10 DEF OneSignalProcessed, Loading
    <2>11. CASE OneReaderStep
      BY <1>1, <1>7, <2>4, <2>5, <2>6, <2>7, <2>10, <2>11
         DEF OneReaderStep, OneUsesLatch, OneReadTerminal, OneClearCtrlPending,
             OneTakeCtrlCharacter, OneTakeLineCharacter,
             OneLineGoesOn, OneLineEnds, OneNothingToRead, OneAppGoesOn, Loading
    <2>12. CASE OneOutside
      BY <1>1, <2>7, <2>12
         DEF OneOutside, Loading
    <2> QED
      BY <2>8, <2>9, <2>11, <2>12 DEF OneNext
  <1> QED
    BY <1>6, <1>7

-----------------------------------------------------------------------------
(***************************************************************************)
(* The invariant, and what follows from it.                                *)
(***************************************************************************)
LEMMA InitInv ==
    ASSUME Init
    PROVE  Inv
  <1> USE DEF Init
  <1>n. NoChar \in Chars /\ NoChar.from = "none"
    BY CharFacts DEF Bytes
  <1>1. TypeOK
    <2>1. /\ input_data \in Seq(Printable) /\ ptrBasicApp \in Seq(Bytes)
          /\ typed \in Seq(Printable) /\ gotLine \in Seq(Bytes)
          /\ gotApp \in Seq(Bytes) /\ loaded \in Seq(Printable)
      BY EmptySeq, Zenon
    <2>2. received \in 0..MaxMessages /\ steps \in 0..MaxSteps
      BY TerminalAssumption
    <2>3. cpu_operating_mode \in {"running", "stopped"}
      BY Zenon
    <2>4. /\ at \in [Readers -> ReaderPlaces] /\ retVal \in [Readers -> Chars]
          /\ port \in [Readers -> {"none", "status", "data"}]
      BY <1>n DEF ReaderPlaces
    <2> QED
      BY <1>n, <2>1, <2>2, <2>3, <2>4 DEF TypeOK, MqttPlaces
  <1>2. Alone /\ Place = "idle" /\ Held = NoChar
    BY NoPlace DEF Alone, Outside, Reading
  <1>3. gotLine \in Seq(Printable)
    BY EmptySeq, Zenon
  <1>4. MqttAt /\ InFlight /\ HandOver /\ AppOwned
    BY <1>n, <1>2, <1>3 DEF MqttAt, InFlight, HandOver, AppOwned, Handing
  <1>5. InHandFrom("app") = <<>> /\ InHandFrom("line") = <<>> /\ Unread = <<>>
    BY <1>n, <1>2, HandIsOne DEF InHandFrom, Unread
  <1>6. AppAt /\ Image
    BY <1>2, <1>5 DEF AppAt, Image, Got, Rest, Loading
  <1>7. Lines /\ CrBehind
    BY <1>5 DEF Lines, CrBehind, Delivered
  <1> QED
    BY <1>1, <1>2, <1>4, <1>6, <1>7 DEF Inv, LineInv, AppInv

LEMMA InvStep ==
    ASSUME Inv, [Next]_vars
    PROVE  Inv'
  <1>1. TypeOK' /\ MqttAt' /\ Alone'
    BY TypeStep, MqttAtStep, AloneStep DEF Inv
  <1>2. ASSUME ~raced'
        PROVE  LineInv' /\ AppInv'
    <2>1. /\ ~raced /\ OneNext
          /\ TypeOK /\ MqttAt /\ InFlight /\ HandOver /\ LineInv /\ AppOwned /\ AppAt /\ Image
      BY <1>2, ReadersAreOne DEF Inv, LineInv, AppInv
    <2>2. InFlight' /\ HandOver' /\ AppOwned'
      BY <2>1, InFlightStep, HandOverStep, AppOwnedStep
    <2>3. Lines' /\ CrBehind'
      BY <1>1, <2>1, <2>2, LinesStep, CrBehindStep
    <2>4. AppAt' /\ Image'
      BY <1>1, <2>1, AppAtStep, ImageStep
    <2> QED
      BY <2>2, <2>3, <2>4 DEF LineInv, AppInv
  <1> QED
    BY <1>1, <1>2 DEF Inv

LEMMA InvAlways == Spec => []Inv
  <1>1. Init => Inv
    BY InitInv
  <1>2. Inv /\ [Next]_vars => Inv'
    BY InvStep
  <1> QED
    BY <1>1, <1>2, PTL DEF Spec

\* The type invariant, for every set of messages (main.c 153-348).
THEOREM TerminalTyped == Spec => []TypeOK
  <1>1. Inv => TypeOK
    BY DEF Inv
  <1> QED
    BY <1>1, InvAlways, PTL

\* Every character of every line that handle_inbound_message hands over reaches
\* the guest once and in its place, whichever threads read it one after the other.
THEOREM LinesReachTheGuest == Spec => []LinesArrive
  <1>1. Inv => LinesArrive
    BY DEF Inv, LineInv, Lines, LinesArrive, Delivered
  <1> QED
    BY <1>1, InvAlways, PTL

\* The carriage return of a line comes after its line although it is sent as a
\* control character, which overtakes lines.
THEOREM CarriageReturnsFollow == Spec => []CrAfterLine
  <1>1. ASSUME Inv
        PROVE  CrAfterLine
    <2>1. SUFFICES ASSUME ~raced, InHand.from = "cr"
                   PROVE  crAfter <= Len(gotLine)
      BY DEF CrAfterLine
    <2>2. InHandFrom("line") = <<>>
      BY <2>1 DEF InHandFrom
    <2>3. Delivered = gotLine
      BY <1>1, <2>2, ConcatEmptySeq DEF Delivered, Inv, TypeOK
    <2> QED
      BY <1>1, <2>1, <2>3 DEF Inv, LineInv, CrBehind
  <1> QED
    BY <1>1, InvAlways, PTL

\* Until a single step is made while another thread is inside, no thread reads a byte
\* outside the line that was handed over, nor, as long as programs are loaded one after
\* the other, outside the program that was left.
THEOREM ProgramsAreReadInside == Spec => []ReadsOwnedMemory
  <1>1. ASSUME Inv
        PROVE  ReadsOwnedMemory
    <2>1. SUFFICES ASSUME NEW t \in Readers, at[t] = "lines", ~raced
                   PROVE  /\ haveTerminalInputMessage =>
                                altairInputBufReadIndex < Len(input_data)
                          /\ ~haveTerminalInputMessage /\ haveAppLoad /\ ~overlapped =>
                                appLoadPtr < Len(ptrBasicApp)
      BY DEF ReadsOwnedMemory
    <2>2. Place = "lines"
      <3>1. Reading(t) /\ ~Outside(t)
        BY <2>1 DEF Reading, Outside
      <3> QED
        BY <1>1, <2>1, <3>1, PlaceBefore DEF Inv, IsAt
    <2> QED
      BY <1>1, <2>1, <2>2 DEF Inv, LineInv, AppInv, HandOver, AppOwned
  <1> QED
    BY <1>1, InvAlways, PTL

\* What load_application leaves in the buffer when no other program is being read (the
\* program but for its last two bytes, wrapped in line ends) reaches the guest in order
\* and each character once, of any length and whatever is typed meanwhile.
THEOREM ImagesReachTheGuest == Spec => []ImageArrives
  <1>1. Inv => ImageArrives
    BY DEF Inv, AppInv, Image, Got, Rest, Loading, ImageArrives
  <1> QED
    BY <1>1, InvAlways, PTL
=============================================================================
