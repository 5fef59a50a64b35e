------------------------- MODULE SharedFlagsProofs -------------------------
(***************************************************************************)
(* Two parts of the emulator whose threads share plain flags and take no   *)
(* lock: the connection to the broker with its output buffer, and the      *)
(* control panel.                                                          *)
(*                                                                         *)
(* THE CONNECTION.  A lost connection is never forgotten, whatever the two *)
(* threads and the network do, for every bound.  got_disconnected is set   *)
(* all the way from the decision to connect to the session                 *)
(* (GotWhileConnecting): so only a subscription that fails can leave both  *)
(* flags false.  The output buffer holds what the guest prints, and its    *)
(* flag says so, as long as one thread at a time is inside (BufferInv).    *)
(*                                                                         *)
(* THE PANEL.  What is entered is kept and Button A starts the loader, for *)
(* every memory size, build and combination of switches.  A command is set *)
(* on the switches in one step and carried out in another, maybe by the    *)
(* other thread's turn; in between, memory does not yet hold what the user *)
(* expects.  So the invariant says what the command needs to find          *)
(* (Promised) until it is carried out, and that nobody else is inside      *)
(* meanwhile (Alone).                                                      *)
(***************************************************************************)
EXTENDS MqttConnection, ControlPanel, TLAPS

(***************************************************************************)
(* THE CONNECTION.                                                         *)
(***************************************************************************)
\* Where the MQTT thread is when it has found got_disconnected set and has not yet
\* cleared it.
Connecting == {"connect", "login", "accepted", "drop", "cleanup"}

GotWhileConnecting ==
    \/ got_disconnected
    \/ /\ pc["mqtt"] \notin Connecting
       /\ pc["mqtt"] \in ClientPcs => after["mqtt"] \notin Connecting

IInv == PcOK /\ GotWhileConnecting /\ DisconnectIsNoticed

LEMMA InitIInv == Init => IInv
  BY ConnectionAssumption DEF Init, IInv, PcOK, GotWhileConnecting, DisconnectIsNoticed,
     Forgotten, Threads, MqttPcs, CpuPcs, ClientPcs

\* The steps in the client, which either thread takes.
LEMMA UseClientIInv ==
    ASSUME IInv, NEW t \in Threads, UseClient(t)
    PROVE  IInv'
<1> USE DEF IInv
<1>1. CASE Send(t)
  <2>1. PcOK'
    BY <1>1 DEF Send, PcOK, Threads, MqttPcs, CpuPcs, ClientPcs, Return, Goto, Fail,
       flags, outVars, askVars, ghosts
  <2>2. GotWhileConnecting'
    BY <1>1 DEF Send, PcOK, GotWhileConnecting, Connecting, Threads, ClientPcs, Return,
       Goto, flags
  <2>3. DisconnectIsNoticed'
    BY <1>1 DEF Send, PcOK, DisconnectIsNoticed, Forgotten, Reporting, Threads,
       ClientPcs, Return, Goto, flags, ghosts
  <2> QED BY <2>1, <2>2, <2>3
<1>2. CASE NetworkError(t)
  <2>1. PcOK'
    BY <1>2 DEF NetworkError, PcOK, Threads, MqttPcs, CpuPcs, ClientPcs, Goto,
       netVars, outVars, askVars, ghosts
  <2>2. GotWhileConnecting' /\ DisconnectIsNoticed'
    BY <1>2 DEF NetworkError, PcOK, GotWhileConnecting, Connecting, DisconnectIsNoticed,
       Forgotten, Reporting, Threads, ClientPcs, Goto
  <2> QED BY <2>1, <2>2
<1>3. CASE NoteDisconnect(t)
  <2>1. PcOK'
    BY <1>3 DEF NoteDisconnect, PcOK, Threads, MqttPcs, CpuPcs, ClientPcs, Goto,
       netVars, outVars, askVars, ghosts
  <2>2. GotWhileConnecting' /\ DisconnectIsNoticed'
    BY <1>3 DEF NoteDisconnect, GotWhileConnecting, DisconnectIsNoticed, Forgotten
  <2> QED BY <2>1, <2>2
<1>4. CASE AnswerError(t)
  <2>1. PcOK'
    BY <1>4 DEF AnswerError, PcOK, Threads, MqttPcs, CpuPcs, ClientPcs, Return, Goto,
       flags, netVars, outVars, askVars, ghosts
  <2>2. GotWhileConnecting'
    BY <1>4 DEF AnswerError, PcOK, GotWhileConnecting, Connecting, Threads, ClientPcs,
       Return, Goto, flags
  <2>3. DisconnectIsNoticed'
    BY <1>4 DEF AnswerError, PcOK, DisconnectIsNoticed, Forgotten, Reporting, Threads,
       ClientPcs, Return, Goto, flags, ghosts
  <2> QED BY <2>1, <2>2, <2>3
<1> QED BY <1>1, <1>2, <1>3, <1>4 DEF UseClient

\* An instruction of the guest and publish_character, which either thread runs.
LEMMA RunGuestIInv ==
    ASSUME IInv, NEW t \in Threads, RunGuest(t)
    PROVE  IInv'
<1> USE DEF IInv
<1>1. CASE PrintCharacter(t)
  <2>1. PcOK'
    BY <1>1 DEF PrintCharacter, PcOK, Threads, MqttPcs, CpuPcs, ClientPcs, Goto, InBuffer,
       flags, netVars, askVars
  <2>2. GotWhileConnecting' /\ DisconnectIsNoticed'
    BY <1>1 DEF PrintCharacter, PcOK, GotWhileConnecting, Connecting, DisconnectIsNoticed,
       Forgotten, Reporting, Threads, ClientPcs, Goto, flags
  <2> QED BY <2>1, <2>2
<1>2. CASE AppendCharacter(t)
  <2>1. PcOK'
    BY <1>2 DEF AppendCharacter, PcOK, Threads, MqttPcs, CpuPcs, ClientPcs, Publish, Call,
       Goto, Printed, flags, netVars, askVars, ghosts
  <2>2. GotWhileConnecting' /\ DisconnectIsNoticed'
    BY <1>2 DEF AppendCharacter, PcOK, GotWhileConnecting, Connecting,
       DisconnectIsNoticed, Forgotten, Reporting, Threads, ClientPcs, Publish, Call, Goto,
       Printed, flags, ghosts
  <2> QED BY <2>1, <2>2
<1>3. CASE EmptyFull(t)
  <2>1. PcOK'
    BY <1>3 DEF EmptyFull, PcOK, Threads, MqttPcs, CpuPcs, ClientPcs, Goto, Printed,
       flags, netVars, askVars, ghosts
  <2>2. GotWhileConnecting' /\ DisconnectIsNoticed'
    BY <1>3 DEF EmptyFull, PcOK, GotWhileConnecting, Connecting, DisconnectIsNoticed,
       Forgotten, Reporting, Threads, ClientPcs, Goto, Printed, flags, ghosts
  <2> QED BY <2>1, <2>2
<1>4. CASE Cycle(t)
  <2>1. PcOK'
    BY <1>4 DEF Cycle, PcOK, Threads, MqttPcs, CpuPcs, ClientPcs, Publish, Call, Goto,
       Printed, flags, netVars, outVars, askVars, ghosts
  <2>2. GotWhileConnecting' /\ DisconnectIsNoticed'
    BY <1>4 DEF Cycle, PcOK, GotWhileConnecting, Connecting, DisconnectIsNoticed,
       Forgotten, Reporting, Threads, ClientPcs, Publish, Call, Goto, Printed, flags,
       ghosts
  <2> QED BY <2>1, <2>2
<1> QED BY <1>1, <1>2, <1>3, <1>4 DEF RunGuest

\* altair_thread writes neither flag outside the client.
LEMMA CpuStepIInv ==
    ASSUME IInv, CpuStep
    PROVE  IInv'
<1> USE DEF IInv
<1>1. CASE RunGuest("cpu") \/ UseClient("cpu")
  BY <1>1, UseClientIInv, RunGuestIInv DEF Threads
<1>2. CASE CheckMessages \/ PartialSent \/ ClearMessages \/ CheckPing \/ Pinged
  <2> USE DEF CheckMessages, SendPartial, PartialSent, ClearMessages, CheckPing,
          Pinged, Publish, Call, Goto, flags, netVars, outVars, askVars, ghosts
  <2>1. PcOK'
    <3>2. CASE CheckMessages
      BY <3>2 DEF PcOK, Threads, MqttPcs, CpuPcs, ClientPcs, InBuffer
    <3>3. CASE PartialSent \/ ClearMessages
      BY <3>3 DEF PcOK, Threads, MqttPcs, CpuPcs, ClientPcs
    <3>4. CASE CheckPing \/ Pinged
      BY <3>4 DEF PcOK, Threads, MqttPcs, CpuPcs, ClientPcs
    <3> QED BY <1>2, <3>2, <3>3, <3>4
  <2>2. UNCHANGED <<flags, unsubscribed, pc["mqtt"], after["mqtt"]>>
    BY <1>2 DEF PcOK, Threads
  <2>3. pc["cpu"] \notin ClientPcs
    BY <1>2 DEF ClientPcs
  <2>4. GotWhileConnecting' /\ DisconnectIsNoticed'
    BY <2>2, <2>3 DEF GotWhileConnecting, DisconnectIsNoticed, Forgotten, Reporting,
       ClientPcs
  <2> QED BY <2>1, <2>4
<1> QED BY <1>1, <1>2 DEF CpuStep

\* waitMessage_task outside the client.
LEMMA MqttStepIInv ==
    ASSUME IInv, MqttStep
    PROVE  IInv'
<1> USE DEF IInv
<1> DEFINE Noticed == GotWhileConnecting' /\ DisconnectIsNoticed'
<1>1. CASE RunGuest("mqtt") \/ UseClient("mqtt")
  BY <1>1, UseClientIInv, RunGuestIInv DEF Threads
<1>2. CASE LoopTop
  <2>1. PcOK'
    BY <1>2 DEF LoopTop, PcOK, Threads, MqttPcs, CpuPcs, ClientPcs, Goto, flags, netVars,
       outVars, askVars, ghosts
  <2>2. Noticed
    BY <1>2 DEF LoopTop, PcOK, GotWhileConnecting, Connecting, DisconnectIsNoticed,
       Forgotten, Reporting, Threads, ClientPcs, Goto, flags, ghosts
  <2> QED BY <2>1, <2>2
<1>3. CASE ReadyToConnect
  <2>1. PcOK'
    BY <1>3 DEF ReadyToConnect, PcOK, Threads, MqttPcs, CpuPcs, ClientPcs, Goto, flags,
       netVars, outVars, askVars, ghosts
  <2>2. Noticed
    BY <1>3 DEF ReadyToConnect, PcOK, GotWhileConnecting, Connecting, DisconnectIsNoticed,
       Forgotten, Reporting, Threads, ClientPcs, Goto, flags, ghosts
  <2> QED BY <2>1, <2>2
<1>4. CASE NetConnect
  <2>1. PcOK'
    BY <1>4 DEF NetConnect, PcOK, Threads, MqttPcs, CpuPcs, ClientPcs, Goto, Fail, flags,
       outVars, askVars
  <2>2. Noticed
    BY <1>4 DEF NetConnect, PcOK, GotWhileConnecting, Connecting, DisconnectIsNoticed,
       Forgotten, flags
  <2> QED BY <2>1, <2>2
<1>5. CASE Login
  <2>1. PcOK'
    BY <1>5 DEF Login, PcOK, Threads, MqttPcs, CpuPcs, ClientPcs, Goto, Call, Fail, flags,
       outVars, askVars, ghosts
  <2>2. Noticed
    BY <1>5 DEF Login, PcOK, GotWhileConnecting, Connecting, DisconnectIsNoticed,
       Forgotten, flags
  <2> QED BY <2>1, <2>2
<1>6. CASE Accepted
  <2>1. PcOK'
    BY <1>6 DEF Accepted, PcOK, Threads, MqttPcs, CpuPcs, ClientPcs, Goto, netVars,
       outVars, askVars, ghosts
  <2>2. Noticed
    BY <1>6 DEF Accepted, PcOK, GotWhileConnecting, Connecting, DisconnectIsNoticed,
       Forgotten, Threads, ClientPcs, Goto
  <2> QED BY <2>1, <2>2
<1>7. CASE Subscribe
  <2>1. PcOK'
    BY <1>7 DEF Subscribe, PcOK, Threads, MqttPcs, CpuPcs, ClientPcs, Goto, Call, Fail,
       outVars, askVars
  <2>2. Noticed
    BY <1>7 DEF Subscribe, PcOK, GotWhileConnecting, Connecting, DisconnectIsNoticed,
       Forgotten, Reporting, Threads, ClientPcs, Goto, Call
  <2> QED BY <2>1, <2>2
<1>8. CASE Announce \/ Report
  <2>1. PcOK'
    BY <1>8 DEF Announce, Report, PcOK, Threads, MqttPcs, CpuPcs, ClientPcs, Publish, Goto,
       Call, flags, netVars, outVars, askVars, ghosts
  <2>2. Noticed
    BY <1>8 DEF Announce, Report, PcOK, GotWhileConnecting, Connecting,
       DisconnectIsNoticed, Forgotten, Reporting, Threads, ClientPcs, Publish, Goto, Call,
       flags, ghosts
  <2> QED BY <2>1, <2>2
<1>9. CASE CheckDisconnected
  <2>1. PcOK'
    BY <1>9 DEF CheckDisconnected, PcOK, Threads, MqttPcs, CpuPcs, ClientPcs, Goto, flags,
       netVars, outVars, askVars, ghosts
  <2>2. Noticed
    BY <1>9 DEF CheckDisconnected, PcOK, GotWhileConnecting, Connecting,
       DisconnectIsNoticed, Forgotten, Reporting, Threads, ClientPcs, Goto, flags, ghosts
  <2> QED BY <2>1, <2>2
<1>10. CASE Drop
  <2>1. PcOK'
    BY <1>10 DEF Drop, PcOK, Threads, MqttPcs, CpuPcs, ClientPcs, Goto, netVars, outVars,
       askVars, ghosts
  <2>2. Noticed
    BY <1>10 DEF Drop, PcOK, GotWhileConnecting, Connecting, DisconnectIsNoticed, Forgotten
  <2> QED BY <2>1, <2>2
<1>11. CASE Cleanup
  <2>1. PcOK'
    BY <1>11 DEF Cleanup, PcOK, Threads, MqttPcs, CpuPcs, ClientPcs, Goto, flags, outVars,
       askVars, ghosts
  <2>2. Noticed
    BY <1>11 DEF Cleanup, PcOK, GotWhileConnecting, Connecting, DisconnectIsNoticed,
       Forgotten, flags
  <2> QED BY <2>1, <2>2
<1>12. CASE WaitMessage
  <2>1. PcOK'
    BY <1>12 DEF WaitMessage, PcOK, Threads, MqttPcs, CpuPcs, ClientPcs, Goto, Call, flags,
       netVars, outVars, askVars, ghosts
  <2>2. Noticed
    BY <1>12 DEF WaitMessage, PcOK, GotWhileConnecting, Connecting, DisconnectIsNoticed,
       Forgotten, Reporting, Threads, ClientPcs, Goto, Call, flags, ghosts
  <2> QED BY <2>1, <2>2
<1>13. CASE HandLine
  <2>1. PcOK'
    BY <1>13 DEF HandLine, PcOK, Threads, MqttPcs, CpuPcs, ClientPcs, Goto, flags,
       netVars, outVars, askVars, ghosts
  <2>2. Noticed
    BY <1>13 DEF HandLine, PcOK, GotWhileConnecting, Connecting, DisconnectIsNoticed,
       Forgotten, Reporting, Threads, ClientPcs, Goto, flags, ghosts
  <2> QED BY <2>1, <2>2
<1> QED
  BY <1>1, <1>2, <1>3, <1>4, <1>5, <1>6, <1>7, <1>8, <1>9, <1>10, <1>11, <1>12, <1>13
     DEF MqttStep

\* The line has been read.
LEMMA LineProcessedIInv ==
    ASSUME IInv, LineProcessed
    PROVE  IInv'
<1> USE DEF IInv
<1>1. PcOK'
  BY DEF LineProcessed, PcOK, Threads, MqttPcs, CpuPcs, ClientPcs, Goto, flags, netVars,
     outVars, askVars, ghosts
<1>2. GotWhileConnecting' /\ DisconnectIsNoticed'
  BY DEF LineProcessed, PcOK, GotWhileConnecting, Connecting, DisconnectIsNoticed,
     Forgotten, Reporting, Threads, ClientPcs, Goto, flags, ghosts
<1> QED BY <1>1, <1>2

\* The network and the timer touch neither flag nor thread.
LEMMA EnvironmentIInv ==
    ASSUME IInv, ChannelArrives \/ NetworkReady \/ NetworkBreaks \/ Tick
    PROVE  IInv'
<1> USE DEF IInv
<1>1. PcOK'
  BY ConnectionAssumption DEF ChannelArrives, NetworkReady, NetworkBreaks, Tick, Fail,
     PcOK, flags, netVars, outVars, askVars, ghosts
<1>2. UNCHANGED <<flags, pc, after, unsubscribed>>
  BY DEF ChannelArrives, NetworkReady, NetworkBreaks, Tick, ghosts
<1>3. GotWhileConnecting' /\ DisconnectIsNoticed'
  BY <1>2 DEF GotWhileConnecting, DisconnectIsNoticed, Forgotten, Reporting, flags
<1> QED BY <1>1, <1>3

LEMMA NextIInv == IInv /\ [Next]_vars => IInv'
<1> SUFFICES ASSUME IInv, [Next]_vars PROVE IInv'
  OBVIOUS
<1>1. CASE UNCHANGED vars
  BY <1>1 DEF IInv, PcOK, GotWhileConnecting, DisconnectIsNoticed, Forgotten, Reporting,
     vars, flags, netVars, outVars, askVars, ghosts
<1>2. CASE Next
  BY <1>2, CpuStepIInv, MqttStepIInv, LineProcessedIInv, EnvironmentIInv DEF Next
<1> QED BY <1>1, <1>2

\* In every behaviour a lost connection is noticed: both flags are false, outside an
\* attempt to connect, only after a subscription that failed on a working network.
THEOREM SpecDisconnectIsNoticed == Spec => []DisconnectIsNoticed
<1>1. IInv => DisconnectIsNoticed
  BY DEF IInv
<1> QED BY InitIInv, NextIInv, <1>1, PTL DEF Spec

-----------------------------------------------------------------------------
(***************************************************************************)
(* THE OUTPUT BUFFER.  As long as the two threads were never inside its    *)
(* code together (raced), one of them is outside: what the other has read  *)
(* or is about to reset stays as it is.  A full buffer always has a thread *)
(* on its way to empty it, and a flag is only taken back from an empty     *)
(* buffer.                                                                 *)
(***************************************************************************)
Emptying(t) ==
    pc[t] = "emptied" \/ (pc[t] \in ClientPcs /\ after[t] = "emptied")

AfterOK == \A t \in Threads : pc[t] \in ClientPcs => after[t] \notin {"append", "clear"}

OneInBuffer == ~InBuffer("cpu") \/ ~InBuffer("mqtt")

BufferKept ==
    /\ output_buffer_length > 0 => dirty_buffer
    /\ \A t \in Threads : pc[t] = "append" => dirty_buffer
    /\ pc["cpu"] = "clear" => output_buffer_length = 0
    /\ (\A t \in Threads : ~Emptying(t)) => output_buffer_length < BufferSize

BufferInv ==
    /\ output_buffer_length \in Nat
    /\ AfterOK
    /\ ~raced => OneInBuffer /\ BufferKept

\* Thread t is, as far as the buffer is concerned, where it was.
SamePlace(t) ==
    /\ InBuffer(t)' = InBuffer(t)
    /\ Emptying(t)' = Emptying(t)
    /\ (pc[t] = "append")' = (pc[t] = "append")
    /\ (pc[t] = "clear")' = (pc[t] = "clear")

LEMMA SamePlacesKeepBuffer ==
    ASSUME BufferInv, AfterOK', UNCHANGED <<output_buffer_length, dirty_buffer, raced>>,
           SamePlace("cpu"), SamePlace("mqtt")
    PROVE  BufferInv'
<1> USE DEF SamePlace
<1>1. OneInBuffer' = OneInBuffer
  BY DEF OneInBuffer
<1>2. BufferKept' = BufferKept
  BY DEF BufferKept, Threads
<1> QED BY <1>1, <1>2 DEF BufferInv

\* The other thread is where it was.
LEMMA OthersStay ==
    ASSUME NEW t \in Threads, PcOK, NEW u \in Threads \ {t},
           pc' = [pc EXCEPT ![t] = pc'[t]],
           after' = after \/ after' = [after EXCEPT ![t] = after'[t]]
    PROVE  pc'[u] = pc[u] /\ after'[u] = after[u] /\ SamePlace(u)
<1>1. pc'[u] = pc[u] /\ after'[u] = after[u]
  BY DEF PcOK
<1> QED BY <1>1 DEF SamePlace, InBuffer, Emptying

\* In the client a thread stays in or outside the buffer's code, to which it returns.
LEMMA UseClientBuffer ==
    ASSUME PcOK, BufferInv, NEW t \in Threads, UseClient(t)
    PROVE  BufferInv'
<1> USE DEF PcOK
<1>1. /\ UNCHANGED <<output_buffer_length, dirty_buffer, raced>>
      /\ pc[t] \in ClientPcs
      /\ \/ /\ pc' = [pc EXCEPT ![t] = after[t]]
            /\ after' = [after EXCEPT ![t] = "nowhere"]
         \/ /\ \E l \in ClientPcs : pc' = [pc EXCEPT ![t] = l]
            /\ after' = after
  <2>1. CASE Send(t)
    BY <2>1 DEF Send, Return, Goto, outVars, ghosts, ClientPcs
  <2>2. CASE NetworkError(t) \/ NoteDisconnect(t) \/ AnswerError(t)
    BY <2>2 DEF NetworkError, NoteDisconnect, AnswerError, Return, Goto, outVars, ghosts,
       ClientPcs
  <2> QED BY <2>1, <2>2 DEF UseClient
<1>2. after[t] \notin {"append", "clear"} /\ after[t] \notin ClientPcs
  BY <1>1 DEF BufferInv, AfterOK, Threads
<1>3. SamePlace(t) /\ (pc'[t] \in ClientPcs => after'[t] = after[t])
  BY <1>1, <1>2 DEF SamePlace, InBuffer, Emptying, ClientPcs
<1>4. \A u \in Threads \ {t} :
        pc'[u] = pc[u] /\ after'[u] = after[u] /\ SamePlace(u)
  BY <1>1, OthersStay
<1>5. AfterOK'
  BY <1>2, <1>3, <1>4 DEF AfterOK, BufferInv
<1>6. SamePlace("cpu") /\ SamePlace("mqtt")
  BY <1>3, <1>4 DEF Threads
<1> QED BY <1>1, <1>5, <1>6, SamePlacesKeepBuffer

LEMMA PrintCharacterBuffer ==
    ASSUME PcOK, BufferInv, NEW t \in Threads, PrintCharacter(t)
    PROVE  BufferInv'
<1>1. /\ dirty_buffer' /\ output_buffer_length' = output_buffer_length
      /\ pc' = [pc EXCEPT ![t] = "append"] /\ after' = after
      /\ pc[t] \in {"cycle", "wait"}
      /\ raced' = (raced \/ \E u \in Threads \ {t} : InBuffer(u))
  BY DEF PrintCharacter, Goto
<1>2. pc'[t] = "append" /\ ~InBuffer(t) /\ ~Emptying(t) /\ ~Emptying(t)'
  BY <1>1 DEF PcOK, InBuffer, Emptying, ClientPcs
<1>3. \A u \in Threads \ {t} :
        pc'[u] = pc[u] /\ after'[u] = after[u] /\ SamePlace(u)
  BY <1>1, <1>2, OthersStay
<1>4. AfterOK'
  BY <1>1, <1>2, <1>3 DEF AfterOK, BufferInv, ClientPcs
<1>5. ASSUME ~raced' PROVE OneInBuffer' /\ BufferKept'
  <2>1. ~raced /\ \A u \in Threads \ {t} : ~InBuffer(u) /\ ~InBuffer(u)' /\ pc[u] # "clear"
    BY <1>1, <1>3, <1>5 DEF SamePlace, InBuffer
  <2>2. OneInBuffer'
    BY <2>1 DEF OneInBuffer, Threads
  <2>3. \A u \in Threads : ~Emptying(u)
    BY <1>2, <2>1 DEF Emptying, InBuffer
  <2>4. output_buffer_length < BufferSize
    BY <2>1, <2>3 DEF BufferInv, BufferKept
  <2>5. pc'["cpu"] # "clear"
    BY <1>2, <1>3, <2>1 DEF Threads
  <2> QED BY <1>1, <2>2, <2>4, <2>5 DEF BufferKept
<1> QED BY <1>1, <1>4, <1>5 DEF BufferInv

LEMMA AppendCharacterBuffer ==
    ASSUME PcOK, BufferInv, NEW t \in Threads, AppendCharacter(t)
    PROVE  BufferInv'
<1>0. BufferSize \in Nat \ {0} /\ output_buffer_length \in Nat
  BY ConnectionAssumption DEF BufferInv
<1>1. /\ output_buffer_length' = output_buffer_length + 1
      /\ UNCHANGED <<dirty_buffer, raced>> /\ pc[t] = "append"
      /\ \/ /\ output_buffer_length' >= BufferSize
            /\ \E l \in {"send", "emptied"} : pc' = [pc EXCEPT ![t] = l]
            /\ pc'[t] = "send" => after' = [after EXCEPT ![t] = "emptied"]
            /\ pc'[t] = "emptied" => after' = after
         \/ /\ output_buffer_length' < BufferSize
            /\ \E l \in {"messages", "report"} : pc' = [pc EXCEPT ![t] = l]
            /\ after' = after
  <2>1. CASE output_buffer_length' >= BufferSize
    BY <2>1 DEF AppendCharacter, Publish, Call, Goto, ghosts, PcOK
  <2>2. CASE ~(output_buffer_length' >= BufferSize)
    BY <1>0, <2>2 DEF AppendCharacter, Printed, Goto, ghosts, PcOK
  <2> QED BY <2>1, <2>2
<1>2. \A u \in Threads \ {t} :
        pc'[u] = pc[u] /\ after'[u] = after[u] /\ SamePlace(u)
  <2>1. pc' = [pc EXCEPT ![t] = pc'[t]]
    BY <1>1 DEF PcOK
  <2>2. after' = after \/ after' = [after EXCEPT ![t] = after'[t]]
    BY <1>1 DEF PcOK
  <2> QED BY <2>1, <2>2, OthersStay
<1>3. /\ pc'[t] \in {"send", "emptied"} => Emptying(t)'
      /\ pc'[t] \in {"send", "emptied", "messages", "report"}
      /\ pc'[t] \in ClientPcs => after'[t] = "emptied"
  BY <1>1 DEF PcOK, Emptying, ClientPcs
<1>4. AfterOK'
  BY <1>2, <1>3 DEF AfterOK, BufferInv
<1>5. ASSUME ~raced' PROVE OneInBuffer' /\ BufferKept'
  <2>1. ~raced /\ InBuffer(t) /\ dirty_buffer
    BY <1>1, <1>5 DEF InBuffer, BufferInv, BufferKept
  <2>2. \A u \in Threads \ {t} : ~InBuffer(u) /\ ~InBuffer(u)'
    BY <1>2, <2>1 DEF BufferInv, OneInBuffer, SamePlace, Threads
  <2>3. OneInBuffer'
    BY <2>2 DEF OneInBuffer, Threads
  <2>4. pc'["cpu"] # "clear"
    BY <1>2, <1>3, <2>2 DEF Threads, InBuffer
  <2>5. (\A u \in Threads : ~Emptying(u)') => output_buffer_length' < BufferSize
    BY <1>1, <1>3 DEF PcOK
  <2> QED BY <1>1, <2>1, <2>3, <2>4, <2>5 DEF BufferKept
<1> QED BY <1>0, <1>1, <1>4, <1>5 DEF BufferInv

\* Both ways to empty the buffer.
LEMMA EmptyBuffer ==
    ASSUME PcOK, BufferInv, NEW t \in Threads,
           InBuffer(t), pc[t] \notin ClientPcs,
           NEW l \in {"messages", "report", "clear"}, t = "mqtt" => l = "report",
           pc' = [pc EXCEPT ![t] = l], after' = after, raced' = raced,
           output_buffer_length' = 0, ~dirty_buffer'
    PROVE  BufferInv'
<1>0. BufferSize \in Nat \ {0}
  BY ConnectionAssumption
<1>1. pc'[t] = l /\ l \notin ClientPcs
  BY DEF PcOK, ClientPcs
<1>2. \A u \in Threads \ {t} :
        pc'[u] = pc[u] /\ after'[u] = after[u] /\ SamePlace(u)
  BY <1>1, OthersStay
<1>3. AfterOK'
  BY <1>1, <1>2 DEF AfterOK, BufferInv
<1>4. ASSUME ~raced' PROVE OneInBuffer' /\ BufferKept'
  <2>1. \A u \in Threads \ {t} : ~InBuffer(u) /\ ~InBuffer(u)' /\ pc[u] # "append"
    BY <1>2, <1>4 DEF BufferInv, OneInBuffer, SamePlace, Threads, InBuffer
  <2> QED BY <1>0, <1>1, <1>2, <2>1 DEF OneInBuffer, BufferKept, Threads
<1> QED BY <1>3, <1>4 DEF BufferInv

\* The steps of the two threads that neither are in the buffer nor enter it.
LEMMA ElsewhereBuffer ==
    ASSUME PcOK, PcOK', BufferInv, NEW t \in Threads,
           UNCHANGED <<output_buffer_length, dirty_buffer, raced>>,
           pc[t] \notin ClientPcs, ~InBuffer(t),
           pc' = [pc EXCEPT ![t] = pc'[t]],
           pc'[t] \notin {"append", "emptied", "flushed", "clear"},
           \/ after' = after /\ pc'[t] \notin ClientPcs
           \/ /\ after' = [after EXCEPT ![t] = after'[t]]
              /\ after'[t] \notin {"append", "emptied", "flushed", "clear"}
    PROVE  BufferInv'
<1>1. \A u \in Threads \ {t} :
        pc'[u] = pc[u] /\ after'[u] = after[u] /\ SamePlace(u)
  BY OthersStay
<1>2. ~InBuffer(t)' /\ SamePlace(t)
  BY DEF SamePlace, InBuffer, Emptying
<1>3. AfterOK'
  BY <1>1 DEF AfterOK, BufferInv
<1>4. SamePlace("cpu") /\ SamePlace("mqtt")
  BY <1>1, <1>2 DEF Threads
<1> QED BY <1>3, <1>4, SamePlacesKeepBuffer

LEMMA RunGuestBuffer ==
    ASSUME PcOK, PcOK', BufferInv, NEW t \in Threads, RunGuest(t)
    PROVE  BufferInv'
<1>1. CASE EmptyFull(t)
  <2>1. InBuffer(t) /\ pc[t] \notin ClientPcs
    BY <1>1 DEF EmptyFull, InBuffer, ClientPcs
  <2>2. /\ pc' = [pc EXCEPT ![t] = Printed(t)] /\ after' = after /\ raced' = raced
        /\ output_buffer_length' = 0 /\ ~dirty_buffer'
    BY <1>1 DEF EmptyFull, Goto, ghosts
  <2>3. Printed(t) \in {"messages", "report"} /\ (t = "mqtt" => Printed(t) = "report")
    BY DEF Printed
  <2> QED BY <2>1, <2>2, <2>3, EmptyBuffer
<1>2. CASE Cycle(t)
  <2>1. /\ UNCHANGED <<output_buffer_length, dirty_buffer, raced>>
        /\ pc[t] \in {"cycle", "wait"}
        /\ \/ after' = after /\ pc' = [pc EXCEPT ![t] = Printed(t)]
           \/ /\ pc' = [pc EXCEPT ![t] = "send"]
              /\ after' = [after EXCEPT ![t] = Printed(t)]
    BY <1>2 DEF Cycle, Publish, Call, Goto, outVars, ghosts
  <2>2. Printed(t) \in {"messages", "report"}
    BY DEF Printed
  <2>3. pc[t] \notin ClientPcs /\ ~InBuffer(t)
    BY <2>1 DEF InBuffer, ClientPcs
  <2> QED BY <2>1, <2>2, <2>3, ElsewhereBuffer DEF PcOK, ClientPcs
<1> QED BY <1>1, <1>2, PrintCharacterBuffer, AppendCharacterBuffer DEF RunGuest

LEMMA CpuStepBuffer ==
    ASSUME PcOK, PcOK', BufferInv, CpuStep
    PROVE  BufferInv'
<1>0. "cpu" \in Threads /\ BufferSize \in Nat \ {0}
  BY ConnectionAssumption DEF Threads
<1>1. CASE RunGuest("cpu") \/ UseClient("cpu")
  BY <1>0, <1>1, UseClientBuffer, RunGuestBuffer
<1>2. CASE CheckPing \/ Pinged
  <2>1. /\ UNCHANGED <<output_buffer_length, dirty_buffer, raced>>
        /\ pc["cpu"] \in {"ping", "pinged"}
        /\ \/ after' = after
              /\ \E l \in {"cycle", "pinged"} : pc' = [pc EXCEPT !["cpu"] = l]
           \/ /\ pc' = [pc EXCEPT !["cpu"] = "send"]
              /\ after' = [after EXCEPT !["cpu"] = "pinged"]
    BY <1>2 DEF CheckPing, Pinged, Publish, Call, Goto, outVars, ghosts
  <2>2. pc["cpu"] \notin ClientPcs /\ ~InBuffer("cpu")
    BY <2>1 DEF InBuffer, ClientPcs
  <2> QED BY <1>0, <2>1, <2>2, ElsewhereBuffer DEF PcOK, ClientPcs
<1>3. CASE CheckMessages
  <2>1. /\ UNCHANGED <<output_buffer_length, dirty_buffer>>
        /\ pc["cpu"] = "messages"
        /\ raced' = (raced \/ (send_messages /\ InBuffer("mqtt")))
    BY <1>3 DEF CheckMessages, outVars
  <2>2. \/ /\ ~send_messages /\ after' = after
           /\ pc' = [pc EXCEPT !["cpu"] = "ping"]
        \/ /\ send_messages /\ ~dirty_buffer /\ after' = after
           /\ pc' = [pc EXCEPT !["cpu"] = "clear"]
        \/ /\ send_messages /\ after' = after
           /\ pc' = [pc EXCEPT !["cpu"] = "flushed"]
        \/ /\ send_messages /\ after' = [after EXCEPT !["cpu"] = "flushed"]
           /\ pc' = [pc EXCEPT !["cpu"] = "send"]
    BY <1>3 DEF CheckMessages, SendPartial, Publish, Call, Goto
  <2>3. pc'["mqtt"] = pc["mqtt"] /\ after'["mqtt"] = after["mqtt"] /\ SamePlace("mqtt")
    <3>1. "mqtt" \in Threads \ {"cpu"} /\ pc' = [pc EXCEPT !["cpu"] = pc'["cpu"]]
      BY <2>2 DEF PcOK, Threads
    <3>2. after' = after \/ after' = [after EXCEPT !["cpu"] = after'["cpu"]]
      BY <2>2 DEF PcOK
    <3> QED BY <1>0, <3>1, <3>2, OthersStay
  <2>4. /\ pc'["cpu"] \notin {"append", "emptied"} /\ pc["cpu"] \notin ClientPcs
        /\ pc'["cpu"] \in ClientPcs => after'["cpu"] = "flushed"
        /\ pc'["cpu"] = "clear" => send_messages /\ ~dirty_buffer
    BY <2>1, <2>2 DEF PcOK, Threads, ClientPcs
  <2>5. AfterOK'
    BY <2>3, <2>4 DEF AfterOK, BufferInv, Threads
  <2>6. ~InBuffer("cpu") /\ ~Emptying("cpu") /\ ~Emptying("cpu")'
    BY <2>1, <2>4 DEF InBuffer, Emptying, ClientPcs
  <2>7. InBuffer("cpu")' => send_messages
    BY <2>2 DEF InBuffer, PcOK, Threads, ClientPcs
  <2>8. ASSUME ~raced' PROVE OneInBuffer' /\ BufferKept'
    <3>1. ~raced /\ OneInBuffer'
      BY <2>1, <2>3, <2>7, <2>8 DEF OneInBuffer, SamePlace
    <3>2. pc'["cpu"] = "clear" => output_buffer_length' = 0
      BY <2>1, <2>4, <3>1 DEF BufferInv, BufferKept
    <3> QED BY <2>1, <2>3, <2>4, <2>6, <3>1, <3>2
        DEF BufferInv, BufferKept, SamePlace, Threads
  <2> QED BY <2>1, <2>5, <2>8 DEF BufferInv
<1>4. CASE PartialSent
  <2>1. InBuffer("cpu") /\ pc["cpu"] \notin ClientPcs
    BY <1>4 DEF PartialSent, InBuffer, ClientPcs
  <2> QED BY <1>0, <1>4, <2>1, EmptyBuffer DEF PartialSent, Goto, ghosts
<1>5. CASE ClearMessages
  <2>1. /\ pc["cpu"] = "clear" /\ ~dirty_buffer' /\ after' = after
        /\ UNCHANGED <<output_buffer_length, raced>>
        /\ pc' = [pc EXCEPT !["cpu"] = "ping"]
    BY <1>5 DEF ClearMessages, Goto, ghosts
  <2>2. pc'["cpu"] = "ping"
    BY <2>1 DEF PcOK, Threads
  <2>3. pc'["mqtt"] = pc["mqtt"] /\ after'["mqtt"] = after["mqtt"] /\ SamePlace("mqtt")
    <3>1. "mqtt" \in Threads \ {"cpu"} /\ pc' = [pc EXCEPT !["cpu"] = pc'["cpu"]]
      BY <2>1, <2>2 DEF Threads
    <3> QED BY <1>0, <2>1, <3>1, OthersStay
  <2>4. AfterOK'
    BY <2>1, <2>2, <2>3 DEF AfterOK, BufferInv, Threads, ClientPcs
  <2>5. ASSUME ~raced' PROVE OneInBuffer' /\ BufferKept'
    <3>1. ~InBuffer("mqtt") /\ ~InBuffer("mqtt")' /\ pc["mqtt"] # "append"
      BY <2>1, <2>3, <2>5 DEF BufferInv, OneInBuffer, SamePlace, InBuffer
    <3>2. output_buffer_length' = 0
      BY <2>1, <2>5 DEF BufferInv, BufferKept
    <3> QED BY <1>0, <2>2, <2>3, <3>1, <3>2 DEF OneInBuffer, BufferKept, Threads
  <2> QED BY <2>1, <2>4, <2>5 DEF BufferInv
<1> QED BY <1>1, <1>2, <1>3, <1>4, <1>5 DEF CpuStep

LEMMA MqttStepBuffer ==
    ASSUME PcOK, PcOK', BufferInv, MqttStep
    PROVE  BufferInv'
<1>0. "mqtt" \in Threads
  BY DEF Threads
<1>1. CASE RunGuest("mqtt") \/ UseClient("mqtt")
  BY <1>0, <1>1, UseClientBuffer, RunGuestBuffer
<1>2. CASE ~(RunGuest("mqtt") \/ UseClient("mqtt"))
  <2> DEFINE Moves(l) == pc' = [pc EXCEPT !["mqtt"] = l]
             Calls(l) == after' = [after EXCEPT !["mqtt"] = l]
             Goals == {"loop", "wait", "closed", "connect", "login", "check", "accepted",
                       "subscribe", "announce", "drop", "cleanup", "handing", "waited"}
  <2>1. /\ UNCHANGED <<output_buffer_length, dirty_buffer, raced>>
        /\ pc["mqtt"] \in Goals \cup {"report"}
        /\ \/ (\E l \in Goals : Moves(l)) /\ after' = after
           \/ (\E l \in ClientPcs : Moves(l)) /\ (\E l \in Goals : Calls(l))
    <3>1. CASE LoopTop \/ ReadyToConnect \/ NetConnect
      BY <3>1 DEF LoopTop, ReadyToConnect, NetConnect, Goto, outVars, ghosts
    <3>2. CASE Login \/ Accepted \/ Subscribe
      BY <3>2 DEF Login, Accepted, Subscribe, Goto, Call, outVars, ghosts, ClientPcs
    <3>3. CASE Announce \/ Report \/ WaitMessage \/ HandLine
      BY <3>3 DEF Announce, Report, WaitMessage, HandLine, Publish, Goto, Call, outVars, ghosts,
         ClientPcs
    <3>4. CASE CheckDisconnected \/ Drop \/ Cleanup
      BY <3>4 DEF CheckDisconnected, Drop, Cleanup, Goto, outVars, ghosts
    <3> QED BY <1>2, <3>1, <3>2, <3>3, <3>4 DEF MqttStep
  <2>2. pc["mqtt"] \notin ClientPcs /\ ~InBuffer("mqtt")
    BY <2>1 DEF InBuffer, ClientPcs
  <2>3. /\ pc' = [pc EXCEPT !["mqtt"] = pc'["mqtt"]]
        /\ pc'["mqtt"] \notin {"append", "emptied", "flushed", "clear"}
        /\ \/ after' = after /\ pc'["mqtt"] \notin ClientPcs
           \/ /\ after' = [after EXCEPT !["mqtt"] = after'["mqtt"]]
              /\ after'["mqtt"] \notin {"append", "emptied", "flushed", "clear"}
    BY <1>0, <2>1 DEF PcOK, ClientPcs
  <2> QED BY <1>0, <2>1, <2>2, <2>3, ElsewhereBuffer
<1> QED BY <1>1, <1>2

LEMMA BufferInvariant == Spec => []BufferInv
<1>1. Init => BufferInv
  BY ConnectionAssumption DEF Init, BufferInv, AfterOK, OneInBuffer, BufferKept, Emptying,
     InBuffer, Threads, ClientPcs
<1>2. IInv /\ BufferInv /\ [Next]_vars => BufferInv'
  <2> SUFFICES ASSUME PcOK, PcOK', BufferInv, [Next]_vars PROVE BufferInv'
    BY NextIInv DEF IInv
  <2>1. CASE CpuStep
    BY <2>1, CpuStepBuffer
  <2>2. CASE MqttStep
    BY <2>2, MqttStepBuffer
  <2>4. CASE LineProcessed
    <3>1. /\ UNCHANGED <<output_buffer_length, dirty_buffer, raced, after>>
          /\ pc["mqtt"] = "handing" /\ pc' = [pc EXCEPT !["mqtt"] = "waited"]
      BY <2>4 DEF LineProcessed, Goto, outVars, ghosts
    <3>2. pc["mqtt"] \notin ClientPcs /\ ~InBuffer("mqtt") /\ pc'["mqtt"] = "waited"
      BY <3>1 DEF InBuffer, ClientPcs, PcOK, Threads
    <3> QED BY <3>1, <3>2, ElsewhereBuffer DEF Threads, ClientPcs
  <2>3. CASE ChannelArrives \/ NetworkReady \/ NetworkBreaks \/ Tick \/ UNCHANGED vars
    <3>1. UNCHANGED <<output_buffer_length, dirty_buffer, raced, pc, after>>
      BY <2>3 DEF ChannelArrives, NetworkReady, NetworkBreaks, Tick, outVars, ghosts, vars
    <3> QED BY <3>1 DEF BufferInv, AfterOK, OneInBuffer, BufferKept, Emptying, InBuffer
  <2> QED BY <2>1, <2>2, <2>3, <2>4 DEF Next
<1> QED BY InitIInv, NextIInv, <1>1, <1>2, PTL DEF Spec

\* Characters in the buffer are flagged, unless the two threads were inside its code
\* together.
THEOREM SpecOutputIsFlagged == Spec => []OutputIsFlagged
<1>1. BufferInv => OutputIsFlagged
  BY DEF BufferInv, BufferKept, OutputIsFlagged
<1> QED BY <1>1, BufferInvariant, PTL

\* And no character is written behind the buffer's end.
THEOREM SpecOutputFits == Spec => []OutputFits
<1>1. BufferInv => OutputFits
  <2> SUFFICES ASSUME BufferInv, NEW t \in Threads, pc[t] = "append", ~raced
               PROVE  output_buffer_length < BufferSize
    BY DEF OutputFits
  <2>1. \A u \in Threads : ~Emptying(u)
    BY DEF BufferInv, OneInBuffer, InBuffer, Emptying, Threads, ClientPcs
  <2> QED BY <2>1 DEF BufferInv, BufferKept
<1> QED BY <1>1, BufferInvariant, PTL

-----------------------------------------------------------------------------
(***************************************************************************)
(* THE PANEL.                                                              *)
(***************************************************************************)
\* Inside process_control_panel_commands, or inside an instruction.
Processing == {"process", "perform", "stop", "reset", "fetch", "execute"}
\* The user has examined nothing and entered nothing that still counts.
Forgot == cursor = None /\ entered = {}

\* Types, and the code each thread is in.
TypeOK ==
    /\ panel \in Panels /\ click_4x4_key_mode \in {"CONTROL_MODE", "INPUT_MODE"}
    /\ initialised \in BOOLEAN
    /\ cpu_operating_mode \in {"CPU_STOPPED", "CPU_RUNNING"}
    /\ cmd_switches \subseteq Commands /\ bus_switches \in Addresses
    /\ regPc \in Addresses /\ address_bus \in Addresses /\ data_bus \in Data
    /\ memory \in [Addresses -> Data]
    /\ at \in [Users -> Processing \cup {"idle", "shortcut", "run", "panel", "typed"}]
    /\ at["cpu"] \in {"idle", "fetch", "execute"}
    /\ at["mqtt"] \in Processing \cup {"idle", "typed"}
    /\ at["loop"] \in Processing \cup {"idle", "shortcut", "run", "panel"}
    /\ then \in [Users -> {"idle", "shortcut", "run", "panel"}]
    /\ then["mqtt"] = "idle"
    /\ overlap \in BOOLEAN /\ booting \in BOOLEAN /\ strayed \in BOOLEAN
    /\ cursor \in Addresses \cup {None}
    /\ entered \subseteq [address : Addresses, data : Data]

\* Unless threads overlap, one at most is inside.
Alone == \A t, u \in Users : t # u => overlap \/ at[t] = "idle" \/ at[u] = "idle"

\* Nothing is expected while threads overlap or the CPU runs an instruction.
NothingExpected == overlap \/ at["cpu"] # "idle" => Forgot /\ ~booting

\* The switches are as a command set them only until it is done.
SwitchesReset ==
    cmd_switches # {} => at["loop"] \in Processing \/ at["mqtt"] \in Processing

\* What was entered is there, and the panel is at the byte examined last.
EnteredIn(m) == \A e \in entered : m[e.address] = e.data
At(a) == cursor = None \/ cursor = a
Held ==
    /\ EnteredIn(memory) /\ At(address_bus)
    /\ cursor # None => data_bus = memory[cursor]

\* What a command will find when it deposits at a.
DepositedAt(a) ==
    /\ At(a)
    /\ \A e \in entered : IF e.address = a THEN e.data = LowByte(bus_switches)
                                           ELSE memory[e.address] = e.data

\* What the command on the switches needs to find, so that carrying it out keeps
\* what was entered and shows what is examined.
Promised ==
    /\ cmd_switches \in {{"STOP"}, {"RUN"}} => cursor = None
    /\ cmd_switches = {"SINGLE_STEP"} => Forgot
    /\ cmd_switches = {"EXAMINE"} => At(bus_switches)
    /\ cmd_switches = {"EXAMINE_NEXT"} => At(NextAddress(address_bus))
    /\ cmd_switches = {"DEPOSIT"} => DepositedAt(address_bus)
    /\ cmd_switches = {"DEPOSIT_NEXT"} => DepositedAt(NextAddress(address_bus))
    /\ cmd_switches \notin {{"DEPOSIT"}, {"DEPOSIT_NEXT"}} => EnteredIn(memory)
    /\ (\A c \in Commands : cmd_switches # {c}) => Held

\* The command is still to be carried out.
Before(t) == at[t] \in {"process", "perform"} /\ Stopped

\* Until it is, the CPU is stopped and nothing is lost of what it needs.
PromisesKept ==
    \A t \in {"loop", "mqtt"} :
        /\ at[t] = "perform" => overlap \/ Stopped
        /\ at[t] \in {"fetch", "execute"} => Forgot
        /\ Before(t) => overlap \/ Promised

\* At all other times what was entered is in memory.
NothingLost == Held \/ Before("loop") \/ Before("mqtt")

\* How far Button A has come: to stop, to examine the loader, to run, and, once the
\* CPU runs, to leave the panel without another instruction.
BootOnItsWay ==
    booting =>
        /\ at["mqtt"] = "idle" /\ at["loop"] \notin {"fetch", "execute"}
        /\ \/ /\ Stopped /\ cmd_switches = {}
              /\ \/ at["loop"] = "shortcut"
                 \/ at["loop"] \in Processing /\ then["loop"] = "shortcut"
           \/ /\ Stopped /\ cmd_switches = {"EXAMINE"}
              /\ at["loop"] \in Processing /\ then["loop"] = "run"
              /\ IF at["loop"] \in {"process", "perform"} THEN bus_switches = Boot
                                                          ELSE regPc = Boot
           \/ Stopped /\ cmd_switches = {} /\ at["loop"] = "run" /\ regPc = Boot
           \/ /\ ~Stopped /\ cmd_switches = {} /\ regPc = Boot
              /\ \/ at["loop"] \in {"panel", "idle"}
                 \/ /\ at["loop"] \in {"process", "stop", "reset"}
                    /\ then["loop"] \in {"panel", "idle"}

PanelInv ==
    /\ TypeOK /\ Alone /\ NothingExpected /\ SwitchesReset
    /\ PromisesKept /\ NothingLost /\ BootOnItsWay /\ ~strayed

-----------------------------------------------------------------------------
(***************************************************************************)
(* What the steps of a command rely on.                                    *)
(***************************************************************************)
\* Addresses and bytes wrap around inside the memory.
LEMMA NextInMemory ==
    /\ \A a \in Addresses : NextAddress(a) \in Addresses /\ LowByte(a) \in Data
    /\ 0 \in Addresses /\ 0 \in Data /\ Boot \in Addresses
  BY PanelAssumption DEF Addresses, Data, NextAddress, LowByte

\* A key of the click panel that flips an address bit leaves an address.
LEMMA FlipInMemory ==
    ASSUME NEW a \in Addresses, NEW k \in Addresses, k # 0, AddressSize % (2 * k) = 0
    PROVE  FlipBit(a, k) \in Addresses
  <1> DEFINE q == a \div k
             r == a % k
             n == AddressSize \div (2 * k)
  <1>1. k \in Nat /\ k > 0 /\ a \in Nat /\ a < AddressSize /\ AddressSize \in Nat
        /\ 2 * k \in Nat /\ 2 * k > 0
    BY PanelAssumption DEF Addresses
  <1>2. a = q * k + r /\ q \in Nat /\ r \in Nat /\ r < k
    BY <1>1
  <1>3. AddressSize = n * (2 * k) /\ n \in Nat
    BY <1>1
  <1> HIDE DEF q, r, n
  <1>4. CASE q % 2 = 1
    <2>1. q >= 1
      BY <1>2, <1>4
    <2>2. q * k >= k
      BY <2>1, <1>1, <1>2
    <2>3. a - k \in Addresses
      BY <2>2, <1>1, <1>2 DEF Addresses
    <2> QED BY <2>3, <1>4 DEF FlipBit, q
  <1>5. CASE q % 2 # 1
    <2> DEFINE p == q \div 2
    <2>1. q = 2 * p /\ p \in Nat
      BY <1>2, <1>5
    <2> HIDE DEF p
    <2>2. p < n
      <3>1. SUFFICES ASSUME p >= n PROVE FALSE
        BY <2>1, <1>3
      <3>2. p * (2 * k) >= n * (2 * k)
        BY <3>1, <2>1, <1>3, <1>1
      <3>3. q * k = p * (2 * k)
        BY <2>1, <1>1
      <3> QED BY <3>2, <3>3, <1>1, <1>2, <1>3
    <2>3. (p + 1) * (2 * k) <= n * (2 * k)
      BY <2>2, <2>1, <1>3, <1>1
    <2>4. (p + 1) * (2 * k) = q * k + 2 * k
      BY <2>1, <1>1
    <2>5. a + k \in Addresses
      <3>1. a + k = q * k + r + k
        BY <1>1, <1>2
      <3>2. q * k \in Nat
        BY <1>1, <1>2
      <3> HIDE DEF Addresses
      <3>3. a + k < AddressSize
        BY <3>1, <3>2, <2>3, <2>4, <1>1, <1>2, <1>3
      <3> QED BY <3>3, <1>1 DEF Addresses
    <2> QED BY <2>5, <1>5 DEF FlipBit, q
  <1> QED BY <1>4, <1>5

\* The ghosts have their types when a command is expected.
LEMMA DepositedType ==
    ASSUME TypeOK, bus_switches' \in Addresses, NEW a \in Addresses
    PROVE  Deposited(a) \subseteq [address : Addresses, data : Data]
  BY NextInMemory DEF TypeOK, Deposited

LEMMA ExpectType ==
    ASSUME TypeOK, bus_switches' \in Addresses, NEW cmd, Expect(cmd)
    PROVE  /\ cursor' \in Addresses \cup {None}
           /\ entered' \subseteq [address : Addresses, data : Data]
  <1>1. cursor \in Addresses => NextAddress(cursor) \in Addresses
    BY NextInMemory
  <1>2. cursor # None => cursor \in Addresses
    BY DEF TypeOK
  <1>3. cursor \in Addresses =>
           /\ Deposited(cursor) \subseteq [address : Addresses, data : Data]
           /\ Deposited(NextAddress(cursor)) \subseteq [address : Addresses, data : Data]
    BY <1>1, DepositedType
  <1> QED BY <1>1, <1>2, <1>3 DEF TypeOK, Expect, Forget, enterVars

LEMMA PanelInitInv == PanelInit => PanelInv
  <1> SUFFICES ASSUME PanelInit PROVE PanelInv
    OBVIOUS
  <1>1. TypeOK
    BY PanelAssumption, NextInMemory DEF PanelInit, TypeOK, Users
  <1>2. Alone /\ NothingExpected /\ SwitchesReset /\ PromisesKept /\ NothingLost
    BY DEF PanelInit, Alone, NothingExpected, SwitchesReset, PromisesKept, NothingLost,
       Held, At, EnteredIn, Before, Users
  <1> QED BY <1>1, <1>2 DEF PanelInv, PanelInit, BootOnItsWay

\* A command that a stopped CPU gets finds what it needs; a running one ignores it.
LEMMA CommandIssued ==
    ASSUME TypeOK, Held, NEW cmd \in SUBSET Commands, Expect(cmd), cmd_switches' = cmd,
           UNCHANGED <<cpu_operating_mode, cpuVars>>
    PROVE  (Stopped => Promised') /\ (~Stopped => Held')
  <1> USE DEF Held, At, EnteredIn, cpuVars
  <1>1. ASSUME ~Stopped \/ cmd = {} PROVE Held'
    BY <1>1 DEF Expect, enterVars
  <1>2. ASSUME Stopped PROVE Promised'
    <2> USE <1>2
    <2>1. CASE cmd \in {{"STOP"}, {"RUN"}}
      BY <2>1 DEF Expect, Promised
    <2>2. CASE cmd = {"SINGLE_STEP"}
      BY <2>2 DEF Expect, Promised, Forget, Forgot
    <2>3. CASE cmd = {"EXAMINE"}
      BY <2>3 DEF Expect, Promised
    <2>4. CASE cmd = {"EXAMINE_NEXT"}
      BY <2>4 DEF Expect, Promised, Forget
    <2>5. CASE cmd = {"DEPOSIT"}
      BY <2>5 DEF Expect, Promised, Forget, DepositedAt, Deposited
    <2>6. CASE cmd = {"DEPOSIT_NEXT"}
      BY <2>6 DEF Expect, Promised, Forget, DepositedAt, Deposited
    <2>7. CASE \A c \in Commands : cmd # {c}
      <3>1. /\ cmd \notin {{"STOP"}, {"RUN"}} /\ cmd # {"SINGLE_STEP"} /\ cmd # {"EXAMINE"}
            /\ cmd # {"EXAMINE_NEXT"} /\ cmd # {"DEPOSIT"} /\ cmd # {"DEPOSIT_NEXT"}
        BY <2>7
      <3>2. Held'
        BY <3>1 DEF Expect, Forget, enterVars
      <3> QED BY <3>1, <3>2 DEF Promised
    <2> QED BY <2>1, <2>2, <2>3, <2>4, <2>5, <2>6, <2>7 DEF Commands
  <1> QED BY <1>1, <1>2

\* A thread that is alone, between commands, finds everything as entered.
LEMMA HeldWhenQuiet ==
    ASSUME NothingLost, NEW t \in {"loop", "mqtt"}, OthersIdle(t),
           at[t] \in {"idle", "typed", "shortcut", "run", "panel"}
    PROVE  Held /\ ~Before("loop") /\ ~Before("mqtt")
  BY DEF NothingLost, OthersIdle, Before, Users

-----------------------------------------------------------------------------
(***************************************************************************)
(* Inside process_control_panel_commands and an instruction.               *)
(***************************************************************************)
\* process_control_panel_commands: the test of the mode.
LEMMA CheckModeInv ==
    ASSUME PanelInv, NEW t \in {"loop", "mqtt"}, CheckMode(t)
    PROVE  PanelInv'
  <1> USE DEF PanelInv
  <1>1. TypeOK'
    BY NextInMemory DEF CheckMode, Proceed, keyVars, switchVars, cpuVars, enterVars,
       TypeOK, Users, Processing
  <1>2. Alone'
    BY DEF CheckMode, Proceed, Alone
  <1>3. NothingExpected'
    BY DEF CheckMode, Proceed, enterVars, NothingExpected, Forgot
  <1>4. SwitchesReset'
    BY DEF CheckMode, Proceed, SwitchesReset, Processing
  <1>5. PromisesKept'
    BY DEF CheckMode, Proceed, Stopped, switchVars, cpuVars, enterVars, PromisesKept,
       Promised, DepositedAt, Before, Held, At, EnteredIn, Forgot
  <1>6. NothingLost'
    BY DEF CheckMode, Proceed, Stopped, switchVars, cpuVars, enterVars, NothingLost,
       Held, At, EnteredIn, Before
  <1>7. BootOnItsWay'
    BY DEF CheckMode, Proceed, Stopped, switchVars, cpuVars, BootOnItsWay, Processing
  <1>8. ~strayed'
    BY DEF CheckMode
  <1> QED BY <1>1, <1>2, <1>3, <1>4, <1>5, <1>6, <1>7, <1>8

\* The command, on a stopped CPU: the one step in which a promise is redeemed.
LEMMA PerformInv ==
    ASSUME PanelInv, NEW t \in {"loop", "mqtt"}, Perform(t)
    PROVE  PanelInv'
  <1> USE DEF PanelInv
  <1>1. TypeOK'
    BY NextInMemory DEF Perform, Proceed, Examine, ExamineNext, Deposit, cpuVars,
       keyVars, enterVars, TypeOK, Users, Processing
  <1>2. Alone'
    BY DEF Perform, Proceed, Alone
  <1>3. NothingExpected'
    BY DEF Perform, Proceed, enterVars, NothingExpected, Forgot
  <1>4. SwitchesReset'
    BY DEF Perform, Proceed, SwitchesReset, Processing
  <1>5. PromisesKept'
    BY DEF Perform, Proceed, enterVars, PromisesKept, Promised, Before, NothingExpected,
       Forgot, Alone, Users, TypeOK
  <1>6. NothingLost'
    <2>1. CASE overlap
      BY <2>1 DEF Perform, NothingExpected, Forgot, NothingLost, Held, At, EnteredIn,
         enterVars
    <2>2. CASE ~overlap
      <3>1. Promised /\ Stopped
        BY <2>2 DEF Perform, PromisesKept, Before
      <3> USE <3>1 DEF Promised, Held, At, EnteredIn
      <3>2. UNCHANGED <<bus_switches, cmd_switches, enterVars>>
        BY DEF Perform
      <3>3. CASE cmd_switches = {"STOP"}
        BY <3>2, <3>3 DEF Perform, Examine, enterVars, NothingLost
      <3>4. CASE cmd_switches = {"EXAMINE"}
        BY <3>2, <3>4 DEF Perform, Examine, enterVars, NothingLost
      <3>5. CASE cmd_switches = {"EXAMINE_NEXT"}
        BY <3>2, <3>5 DEF Perform, ExamineNext, enterVars, NothingLost
      <3>6. CASE cmd_switches = {"DEPOSIT"}
        <4>1. Deposit(address_bus)
          BY <3>6 DEF Perform
        <4> QED
          BY <3>2, <3>6, <4>1, NextInMemory DEF Deposit, DepositedAt, enterVars,
             NothingLost, TypeOK
      <3>7. CASE cmd_switches = {"DEPOSIT_NEXT"}
        <4>1. Deposit(NextAddress(address_bus))
          BY <3>7 DEF Perform
        <4>2. NextAddress(address_bus) \in Addresses
          BY NextInMemory DEF TypeOK
        <4> QED
          BY <3>2, <3>7, <4>1, <4>2, NextInMemory DEF Deposit, DepositedAt, enterVars,
             NothingLost, TypeOK
      <3>8. CASE cmd_switches \notin {{"STOP"}, {"EXAMINE"}, {"EXAMINE_NEXT"}, {"DEPOSIT"},
                                       {"DEPOSIT_NEXT"}}
        <4>1. UNCHANGED cpuVars
          BY <3>8 DEF Perform
        <4>2. Held
          BY <3>8 DEF Forgot, Commands
        <4> QED BY <3>2, <4>1, <4>2 DEF NothingLost, cpuVars, enterVars
      <3> QED BY <3>3, <3>4, <3>5, <3>6, <3>7, <3>8
    <2> QED BY <2>1, <2>2
  <1>7. BootOnItsWay'
    BY DEF Perform, Proceed, Examine, BootOnItsWay, Stopped, Processing
  <1>8. ~strayed'
    BY DEF Perform
  <1> QED BY <1>1, <1>2, <1>3, <1>4, <1>5, <1>6, <1>7, <1>8

\* The test for STOP.
LEMMA CheckStopInv ==
    ASSUME PanelInv, NEW t \in {"loop", "mqtt"}, CheckStop(t)
    PROVE  PanelInv'
  <1> USE DEF PanelInv
  <1>1. TypeOK'
    BY NextInMemory DEF CheckStop, Proceed, keyVars, cpuVars, enterVars, TypeOK, Users,
       Processing
  <1>2. Alone'
    BY DEF CheckStop, Proceed, Alone
  <1>3. NothingExpected'
    BY DEF CheckStop, Proceed, enterVars, NothingExpected, Forgot
  <1>4. SwitchesReset'
    BY DEF CheckStop, Proceed, SwitchesReset, Processing
  <1>5. PromisesKept'
    BY DEF CheckStop, Proceed, enterVars, PromisesKept, Before, Forgot, Alone, Users
  <1>6. NothingLost'
    BY DEF CheckStop, cpuVars, enterVars, NothingLost, Held, At, EnteredIn, Before,
       NothingExpected, Forgot, Alone, Users
  <1>7. BootOnItsWay'
    BY DEF CheckStop, Proceed, cpuVars, BootOnItsWay, Stopped, Processing
  <1>8. ~strayed'
    BY DEF CheckStop
  <1> QED BY <1>1, <1>2, <1>3, <1>4, <1>5, <1>6, <1>7, <1>8

\* The switches are cleared.
LEMMA ResetInv ==
    ASSUME PanelInv, NEW t \in {"loop", "mqtt"}, Reset(t)
    PROVE  PanelInv'
  <1> USE DEF PanelInv
  <1>1. TypeOK'
    BY NextInMemory DEF Reset, Proceed, Leave, keyVars, cpuVars, enterVars, Users,
       TypeOK
  <1>2. Alone'
    BY DEF Reset, Proceed, Leave, OthersIdle, Alone, TypeOK
  <1>3. NothingExpected'
    BY DEF Reset, Proceed, Leave, enterVars, NothingExpected, Forgot, TypeOK
  <1>4. SwitchesReset'
    BY DEF Reset, SwitchesReset
  <1>5. PromisesKept'
    BY DEF Reset, Proceed, Leave, enterVars, OthersIdle, Users, PromisesKept, Before,
       Forgot, Alone, TypeOK
  <1>6. NothingLost'
    BY DEF Reset, cpuVars, enterVars, Users, NothingLost, Held, At, EnteredIn,
       Before, NothingExpected, Forgot, Alone
  <1>7. BootOnItsWay'
    BY DEF Reset, Proceed, cpuVars, Users, BootOnItsWay, Stopped, TypeOK
  <1>8. ~strayed'
    BY DEF Reset
  <1> QED BY <1>1, <1>2, <1>3, <1>4, <1>5, <1>6, <1>7, <1>8

\* An instruction starts, in a single step or on the CPU thread.
LEMMA FetchInv ==
    ASSUME PanelInv, NEW t \in Users, Fetch(t)
    PROVE  PanelInv'
  <1> USE DEF PanelInv
  <1>1. TypeOK'
    BY NextInMemory DEF Fetch, Proceed, keyVars, switchVars, enterVars, TypeOK,
       Processing
  <1>2. Alone'
    BY DEF Fetch, Proceed, Alone
  <1>3. NothingExpected'
    BY DEF Fetch, Proceed, enterVars, NothingExpected, Forgot
  <1>4. SwitchesReset'
    BY DEF Fetch, Proceed, switchVars, SwitchesReset, Processing
  <1>5. PromisesKept'
    BY DEF Fetch, Proceed, enterVars, PromisesKept, Before, Forgot, Alone, Users
  <1>6. NothingLost'
    BY DEF Fetch, enterVars, NothingLost, Held, At, EnteredIn, PromisesKept,
       NothingExpected, Forgot, Users
  <1>7. BootOnItsWay'
    BY DEF Fetch, Proceed, switchVars, BootOnItsWay, Stopped
  <1>8. ~strayed'
    BY DEF Fetch
  <1> QED BY <1>1, <1>2, <1>3, <1>4, <1>5, <1>6, <1>7, <1>8

\* It ends: memory and buses are anything, of which nothing was expected.
LEMMA ExecuteInv ==
    ASSUME PanelInv, NEW t \in Users, Execute(t)
    PROVE  PanelInv'
  <1> USE DEF PanelInv
  <1>1. TypeOK'
    BY NextInMemory DEF Execute, Proceed, Leave, keyVars, switchVars, enterVars, TypeOK,
       Processing
  <1>2. Alone'
    BY DEF Execute, Proceed, Leave, OthersIdle, Alone, TypeOK
  <1>3. NothingExpected'
    BY DEF Execute, Proceed, enterVars, NothingExpected, Forgot
  <1>4. SwitchesReset'
    BY DEF Execute, Proceed, switchVars, SwitchesReset, Processing
  <1>5. PromisesKept'
    BY DEF Execute, Proceed, Leave, enterVars, OthersIdle, Users, PromisesKept, Before,
       Forgot, Alone, TypeOK
  <1>6. NothingLost'
    BY DEF Execute, enterVars, Users, NothingLost, Held, At, EnteredIn,
       PromisesKept, NothingExpected, Forgot
  <1>7. BootOnItsWay'
    BY DEF Execute, Users, BootOnItsWay, NothingExpected
  <1>8. ~strayed'
    BY DEF Execute
  <1> QED BY <1>1, <1>2, <1>3, <1>4, <1>5, <1>6, <1>7, <1>8

-----------------------------------------------------------------------------
(***************************************************************************)
(* The CPU thread and the MQTT thread.                                     *)
(***************************************************************************)
\* altair_thread takes a turn while the CPU runs.
LEMMA CpuTurnInv ==
    ASSUME PanelInv, CpuTurn
    PROVE  PanelInv'
  <1> USE DEF PanelInv
  <1>1. TypeOK'
    BY NextInMemory DEF CpuTurn, Proceed, Forget, keyVars, switchVars, cpuVars, Users,
       TypeOK, Processing
  <1>2. Alone'
    BY DEF CpuTurn, Proceed, OthersIdle, Alone, TypeOK
  <1>3. NothingExpected'
    BY DEF CpuTurn, Forget, NothingExpected, Forgot
  <1>4. SwitchesReset'
    BY DEF CpuTurn, Proceed, switchVars, SwitchesReset
  <1>5. PromisesKept'
    BY DEF CpuTurn, Stopped, Proceed, Forget, switchVars, PromisesKept, Before, Forgot,
       TypeOK
  <1>6. NothingLost'
    BY DEF CpuTurn, Forget, NothingLost, Held, At, EnteredIn
  <1>7. BootOnItsWay'
    BY DEF CpuTurn, BootOnItsWay
  <1>8. ~strayed'
    BY DEF CpuTurn, BootOnItsWay
  <1> QED BY <1>1, <1>2, <1>3, <1>4, <1>5, <1>6, <1>7, <1>8

\* The MQTT thread: the key of the CPU monitor.
LEMMA ToggleMonitorInv ==
    ASSUME PanelInv, ToggleMonitor
    PROVE  PanelInv'
  <1> USE DEF PanelInv
  <1>1. TypeOK'
    BY NextInMemory DEF ToggleMonitor, SetMode, Enter, enterVars, cpuVars, Forget,
       TypeOK
  <1>2. Alone'
    BY DEF ToggleMonitor, SetMode, Enter, Alone
  <1>3. NothingExpected'
    BY DEF ToggleMonitor, SetMode, Enter, enterVars, Forget, NothingExpected, Forgot
  <1>4. SwitchesReset'
    BY DEF ToggleMonitor, SetMode, SwitchesReset
  <1>5. PromisesKept'
    BY DEF ToggleMonitor, SetMode, Enter, OthersIdle, Forget, Users, PromisesKept,
       Before, Forgot
  <1>6. NothingLost'
    BY DEF ToggleMonitor, SetMode, Enter, enterVars, cpuVars, OthersIdle, Forget,
       Users, NothingLost, Held, At, EnteredIn, Before
  <1>7. BootOnItsWay'
    BY DEF ToggleMonitor, SetMode, Enter, BootOnItsWay
  <1>8. ~strayed'
    BY DEF ToggleMonitor, SetMode
  <1> QED BY <1>1, <1>2, <1>3, <1>4, <1>5, <1>6, <1>7, <1>8

\* The first connection starts the CPU.
LEMMA FirstConnectionInv ==
    ASSUME PanelInv, FirstConnection
    PROVE  PanelInv'
  <1> USE DEF PanelInv
  <1>1. TypeOK'
    BY NextInMemory DEF FirstConnection, SetMode, Enter, enterVars, cpuVars, Forget,
       TypeOK
  <1>2. Alone'
    BY DEF FirstConnection, SetMode, Enter, Alone
  <1>3. NothingExpected'
    BY DEF FirstConnection, SetMode, Enter, enterVars, Forget, NothingExpected, Forgot
  <1>4. SwitchesReset'
    BY DEF FirstConnection, SetMode, SwitchesReset
  <1>5. PromisesKept'
    BY DEF FirstConnection, SetMode, Enter, OthersIdle, Forget, Users, PromisesKept,
       Before, Forgot
  <1>6. NothingLost'
    BY DEF FirstConnection, SetMode, Enter, enterVars, cpuVars, OthersIdle, Forget,
       Users, NothingLost, Held, At, EnteredIn, Before
  <1>7. BootOnItsWay'
    BY DEF FirstConnection, SetMode, Enter, BootOnItsWay
  <1>8. ~strayed'
    BY DEF FirstConnection, SetMode
  <1> QED BY <1>1, <1>2, <1>3, <1>4, <1>5, <1>6, <1>7, <1>8

\* A line is typed into the CPU monitor.
LEMMA TypeLineInv ==
    ASSUME PanelInv, TypeLine
    PROVE  PanelInv'
  <1> USE DEF PanelInv
  <1>1. TypeOK'
    BY NextInMemory DEF TypeLine, Proceed, Enter, enterVars, keyVars, switchVars,
       cpuVars, Forget, Users, TypeOK
  <1>2. Alone'
    BY DEF TypeLine, Proceed, Enter, OthersIdle, Alone, TypeOK
  <1>3. NothingExpected'
    BY DEF TypeLine, Proceed, Enter, enterVars, Forget, NothingExpected, Forgot
  <1>4. SwitchesReset'
    BY DEF TypeLine, Proceed, switchVars, SwitchesReset, Processing
  <1>5. PromisesKept'
    BY DEF TypeLine, Stopped, Proceed, Enter, enterVars, switchVars, cpuVars, Forget,
       PromisesKept, Promised, DepositedAt, Before, Held, At, EnteredIn,
       NothingExpected, Forgot
  <1>6. NothingLost'
    BY DEF TypeLine, Stopped, Proceed, Enter, enterVars, switchVars, cpuVars, Forget,
       NothingLost, Held, At, EnteredIn, Before
  <1>7. BootOnItsWay'
    BY DEF TypeLine, Enter, BootOnItsWay
  <1>8. ~strayed'
    BY DEF TypeLine
  <1> QED BY <1>1, <1>2, <1>3, <1>4, <1>5, <1>6, <1>7, <1>8

\* It is a command.
LEMMA MonitorCommandInv ==
    ASSUME PanelInv, MonitorCommand
    PROVE  PanelInv'
  <1> USE DEF PanelInv
  <1>1. TypeOK'
    <2>1. PICK c \in MonitorCommands :
             /\ Issue("mqtt", {c}, "idle")
             /\ Enter("mqtt", Expect({c}) /\ UNCHANGED booting)
      BY DEF MonitorCommand
    <2>2. bus_switches' \in Addresses
      BY DEF MonitorCommand, TypeOK
    <2>3. /\ cursor' \in Addresses \cup {None}
          /\ entered' \subseteq [address : Addresses, data : Data]
      BY <2>1, <2>2, ExpectType DEF Enter, Forget
    <2>4. {c} \subseteq Commands
      BY PanelAssumption DEF MonitorCommands
    <2> QED
      BY <2>1, <2>2, <2>3, <2>4 DEF MonitorCommand, Issue, Proceed, Enter, keyVars,
         cpuVars, TypeOK, Users, Processing
  <1>2. Alone'
    BY DEF MonitorCommand, Issue, Enter, Proceed, Alone, TypeOK
  <1>3. NothingExpected'
    BY DEF MonitorCommand, Issue, Enter, Proceed, OthersIdle, Forget, Users,
       NothingExpected, Forgot, TypeOK
  <1>4. SwitchesReset'
    BY DEF MonitorCommand, Issue, Proceed, Users, SwitchesReset, Processing, TypeOK
  <1>5. PromisesKept'
    <2>1. PICK c \in MonitorCommands :
             /\ Issue("mqtt", {c}, "idle")
             /\ Enter("mqtt", Expect({c}) /\ UNCHANGED booting)
      BY DEF MonitorCommand
    <2>2. CASE overlap'
      BY <2>1, <2>2 DEF PromisesKept, Enter, Forget, Forgot
    <2>3. CASE ~overlap'
      <3>1. OthersIdle("mqtt") /\ Expect({c})
        BY <2>1, <2>3 DEF Enter
      <3>2. Held
        BY <3>1, HeldWhenQuiet DEF MonitorCommand
      <3>3. {c} \in SUBSET Commands
        BY PanelAssumption DEF MonitorCommands
      <3>4. Stopped' => Promised'
        BY <2>1, <3>1, <3>2, <3>3, CommandIssued DEF MonitorCommand, Issue, Stopped
      <3> QED
        BY <2>1, <3>1, <3>4 DEF MonitorCommand, Issue, Proceed, PromisesKept, Before,
           OthersIdle, Users
    <2> QED BY <2>2, <2>3
  <1>6. NothingLost'
    BY DEF MonitorCommand, Issue, Enter, Expect, cpuVars, Proceed, Forget, Stopped,
       enterVars, Users, NothingLost, Held, At, EnteredIn, Before, TypeOK
  <1>7. BootOnItsWay'
    BY DEF MonitorCommand, Enter, BootOnItsWay
  <1>8. ~strayed'
    BY DEF MonitorCommand
  <1> QED BY <1>1, <1>2, <1>3, <1>4, <1>5, <1>6, <1>7, <1>8

\* It sets the switches.
LEMMA MonitorSwitchesInv ==
    ASSUME PanelInv, MonitorSwitches
    PROVE  PanelInv'
  <1> USE DEF PanelInv
  <1>1. TypeOK'
    BY NextInMemory DEF MonitorSwitches, Proceed, Leave, keyVars, cpuVars, enterVars,
       Users, TypeOK
  <1>2. Alone'
    BY DEF MonitorSwitches, Proceed, Leave, OthersIdle, Alone, TypeOK
  <1>3. NothingExpected'
    BY DEF MonitorSwitches, Proceed, Leave, enterVars, NothingExpected, Forgot, TypeOK
  <1>4. SwitchesReset'
    BY DEF MonitorSwitches, Proceed, SwitchesReset, Processing
  <1>5. PromisesKept'
    BY DEF MonitorSwitches, Proceed, Leave, enterVars, OthersIdle, Users, PromisesKept,
       Before, Forgot, Alone, TypeOK
  <1>6. NothingLost'
    BY DEF MonitorSwitches, cpuVars, enterVars, Users, NothingLost, Held, At,
       EnteredIn, Before, NothingExpected, Forgot, Alone
  <1>7. BootOnItsWay'
    BY DEF MonitorSwitches, BootOnItsWay
  <1>8. ~strayed'
    BY DEF MonitorSwitches
  <1> QED BY <1>1, <1>2, <1>3, <1>4, <1>5, <1>6, <1>7, <1>8

-----------------------------------------------------------------------------
(***************************************************************************)
(* The event loop: twin, buttons and panel.                                *)
(***************************************************************************)
\* The event loop: the device twin sets the mode.
LEMMA TwinSetsModeInv ==
    ASSUME PanelInv, TwinSetsMode
    PROVE  PanelInv'
  <1> USE DEF PanelInv
  <1>1. TypeOK'
    BY NextInMemory DEF TwinSetsMode, SetMode, Enter, enterVars, cpuVars, Forget,
       TypeOK
  <1>2. Alone'
    BY DEF TwinSetsMode, SetMode, Enter, Alone
  <1>3. NothingExpected'
    BY DEF TwinSetsMode, SetMode, Enter, enterVars, Forget, NothingExpected, Forgot
  <1>4. SwitchesReset'
    BY DEF TwinSetsMode, SetMode, SwitchesReset
  <1>5. PromisesKept'
    BY DEF TwinSetsMode, SetMode, Enter, OthersIdle, Forget, Users, PromisesKept,
       Before, Forgot
  <1>6. NothingLost'
    BY DEF TwinSetsMode, SetMode, Enter, enterVars, cpuVars, OthersIdle, Forget,
       Users, NothingLost, Held, At, EnteredIn, Before
  <1>7. BootOnItsWay'
    BY DEF TwinSetsMode, SetMode, Enter, BootOnItsWay
  <1>8. ~strayed'
    BY DEF TwinSetsMode, SetMode
  <1> QED BY <1>1, <1>2, <1>3, <1>4, <1>5, <1>6, <1>7, <1>8

\* Button A stops the CPU.
LEMMA ButtonAInv ==
    ASSUME PanelInv, ButtonA
    PROVE  PanelInv'
  <1> USE DEF PanelInv
  <1>1. TypeOK'
    BY NextInMemory DEF ButtonA, Proceed, Enter, enterVars, keyVars, cpuVars, Forget,
       Users, TypeOK, Processing
  <1>2. Alone'
    BY DEF ButtonA, Proceed, Enter, OthersIdle, Alone, TypeOK
  <1>3. NothingExpected'
    BY DEF ButtonA, Proceed, Enter, OthersIdle, Forget, Users, NothingExpected, Forgot,
       TypeOK
  <1>4. SwitchesReset'
    BY DEF ButtonA, Proceed, SwitchesReset, Processing
  <1>5. PromisesKept'
    <2>1. CASE overlap'
      BY <2>1 DEF ButtonA, Enter, Forget, PromisesKept, Forgot
    <2>2. CASE ~overlap'
      <3>1. OthersIdle("loop") /\ UNCHANGED enterVars
        BY <2>2 DEF ButtonA, Enter
      <3>2. Held'
        BY <3>1, HeldWhenQuiet DEF ButtonA, Held, At, EnteredIn, enterVars, cpuVars
      <3>3. cmd_switches' = {}
        BY <3>1 DEF ButtonA, OthersIdle, SwitchesReset, Users, Processing
      <3>4. Promised'
        BY <3>2, <3>3 DEF Promised, Held
      <3> QED
        BY <3>1, <3>4 DEF ButtonA, Proceed, OthersIdle, PromisesKept, Users
    <2> QED BY <2>1, <2>2
  <1>6. NothingLost'
    BY DEF ButtonA, Enter, enterVars, cpuVars, OthersIdle, Forget, Users,
       NothingLost, Held, At, EnteredIn, Before
  <1>7. BootOnItsWay'
    <2> SUFFICES ASSUME booting' PROVE BootOnItsWay'
      BY DEF BootOnItsWay
    <2>1. OthersIdle("loop")
      BY DEF ButtonA, Enter
    <2>2. cmd_switches' = {}
      BY <2>1 DEF ButtonA, OthersIdle, SwitchesReset, Users, Processing
    <2>3. Stopped' /\ at'["mqtt"] = "idle" /\ at'["loop"] = "process"
          /\ then'["loop"] = "shortcut"
      BY <2>1 DEF ButtonA, OthersIdle, Proceed, Stopped, Users, TypeOK
    <2> QED BY <2>2, <2>3 DEF BootOnItsWay, Processing
  <1>8. ~strayed'
    BY DEF ButtonA
  <1> QED BY <1>1, <1>2, <1>3, <1>4, <1>5, <1>6, <1>7, <1>8

\* Button A: the loader is examined.
LEMMA ShortcutInv ==
    ASSUME PanelInv, Shortcut
    PROVE  PanelInv'
  <1> USE DEF PanelInv
  <1>1. TypeOK'
    BY NextInMemory, ExpectType DEF Shortcut, Issue, Enter, keyVars, cpuVars, Proceed,
       Forget, Users, Commands, TypeOK, Processing
  <1>2. Alone'
    BY DEF Shortcut, Issue, Enter, Proceed, Alone, TypeOK
  <1>3. NothingExpected'
    BY DEF Shortcut, Issue, Enter, Proceed, OthersIdle, Forget, Users, NothingExpected,
       Forgot, TypeOK
  <1>4. SwitchesReset'
    BY DEF Shortcut, Issue, Proceed, Users, SwitchesReset, Processing, TypeOK
  <1>5. PromisesKept'
    BY DEF Shortcut, Issue, Enter, Expect, cpuVars, Proceed, Forget, Stopped, Users,
       Commands, PromisesKept, Promised, Before, NothingLost, Held, At, EnteredIn,
       Forgot, Alone, TypeOK
  <1>6. NothingLost'
    BY DEF Shortcut, Issue, Enter, Expect, cpuVars, Proceed, Forget, Stopped, enterVars,
       Users, NothingLost, Held, At, EnteredIn, Before, TypeOK
  <1>7. BootOnItsWay'
    BY DEF Shortcut, Issue, Enter, Proceed, Stopped, Users, BootOnItsWay, TypeOK,
       Processing
  <1>8. ~strayed'
    BY DEF Shortcut
  <1> QED BY <1>1, <1>2, <1>3, <1>4, <1>5, <1>6, <1>7, <1>8

\* Button A: the CPU runs.
LEMMA ShortcutRunInv ==
    ASSUME PanelInv, ShortcutRun
    PROVE  PanelInv'
  <1> USE DEF PanelInv
  <1>1. TypeOK'
    BY NextInMemory DEF ShortcutRun, Proceed, keyVars, cpuVars, enterVars, TypeOK,
       Users, Processing
  <1>2. Alone'
    BY DEF ShortcutRun, Proceed, Alone
  <1>3. NothingExpected'
    BY DEF ShortcutRun, Proceed, enterVars, NothingExpected, Forgot
  <1>4. SwitchesReset'
    BY DEF ShortcutRun, Proceed, SwitchesReset, Processing
  <1>5. PromisesKept'
    BY DEF ShortcutRun, Proceed, PromisesKept, Before, Stopped, enterVars, Forgot, Alone,
       Users
  <1>6. NothingLost'
    BY DEF ShortcutRun, cpuVars, enterVars, NothingLost, Held, At, EnteredIn, Before,
       NothingExpected, Forgot, Alone, Users
  <1>7. BootOnItsWay'
    BY DEF ShortcutRun, Proceed, cpuVars, BootOnItsWay, Stopped, TypeOK, Users,
       Processing
  <1>8. ~strayed'
    BY DEF ShortcutRun
  <1> QED BY <1>1, <1>2, <1>3, <1>4, <1>5, <1>6, <1>7, <1>8

\* The panel is polled and nothing is pressed.
LEMMA NoInputInv ==
    ASSUME PanelInv, NoInput
    PROVE  PanelInv'
  <1> USE DEF PanelInv
  <1>1. TypeOK'
    BY NextInMemory DEF NoInput, Proceed, Leave, keyVars, switchVars, cpuVars, enterVars,
       Users, TypeOK
  <1>2. Alone'
    BY DEF NoInput, Proceed, Leave, OthersIdle, Alone, TypeOK
  <1>3. NothingExpected'
    BY DEF NoInput, Proceed, Leave, enterVars, NothingExpected, Forgot, TypeOK
  <1>4. SwitchesReset'
    BY DEF NoInput, Proceed, switchVars, SwitchesReset, Processing
  <1>5. PromisesKept'
    BY DEF NoInput, Proceed, Leave, enterVars, OthersIdle, Users, PromisesKept, Before,
       Forgot, Alone, TypeOK
  <1>6. NothingLost'
    BY DEF NoInput, cpuVars, enterVars, Users, NothingLost, Held, At, EnteredIn,
       Before, NothingExpected, Forgot, Alone
  <1>7. BootOnItsWay'
    BY DEF NoInput, Proceed, switchVars, cpuVars, BootOnItsWay, Stopped, Processing
  <1>8. ~strayed'
    BY DEF NoInput
  <1> QED BY <1>1, <1>2, <1>3, <1>4, <1>5, <1>6, <1>7, <1>8

\* The kit: the switches are polled as they are.
LEMMA KitSwitchesInv ==
    ASSUME PanelInv, KitSwitches
    PROVE  PanelInv'
  <1> USE DEF PanelInv
  <1>1. TypeOK'
    <2>1. PICK cmd \in Pressed :
             /\ Issue("loop", cmd, "idle")
             /\ Enter("loop", Expect(cmd) /\ booting' = (booting /\ cmd = {}))
      BY DEF KitSwitches
    <2>2. bus_switches' \in Addresses
      BY DEF KitSwitches
    <2>3. /\ cursor' \in Addresses \cup {None}
          /\ entered' \subseteq [address : Addresses, data : Data]
      BY <2>1, <2>2, ExpectType DEF Enter, Forget
    <2>4. cmd \subseteq Commands
      BY PanelAssumption
    <2> QED
      BY <2>1, <2>2, <2>3, <2>4 DEF KitSwitches, Issue, Proceed, Enter, keyVars, cpuVars,
         TypeOK, Users, Processing
  <1>2. Alone'
    BY DEF KitSwitches, AtPanel, Issue, Enter, keyVars, cpuVars, Proceed, OthersIdle,
       Forget, Users, Commands, Alone, Processing, TypeOK
  <1>3. NothingExpected'
    BY DEF KitSwitches, Issue, Enter, Proceed, OthersIdle, Forget, Users,
       NothingExpected, Forgot, TypeOK
  <1>4. SwitchesReset'
    BY DEF KitSwitches, Issue, Proceed, Users, SwitchesReset, Processing, TypeOK
  <1>5. PromisesKept'
    <2>1. PICK cmd \in Pressed :
             /\ Issue("loop", cmd, "idle")
             /\ Enter("loop", Expect(cmd) /\ booting' = (booting /\ cmd = {}))
      BY DEF KitSwitches
    <2>2. CASE overlap'
      BY <2>1, <2>2 DEF PromisesKept, Enter, Forget, Forgot
    <2>3. CASE ~overlap'
      <3>1. OthersIdle("loop") /\ Expect(cmd)
        BY <2>1, <2>3 DEF Enter
      <3>2. Held
        BY <3>1, HeldWhenQuiet DEF KitSwitches, AtPanel
      <3>3. cmd \in SUBSET Commands
        BY PanelAssumption
      <3>4. Stopped' => Promised'
        BY <2>1, <3>1, <3>2, <3>3, CommandIssued DEF KitSwitches, Issue, Stopped
      <3> QED
        BY <2>1, <3>1, <3>4 DEF Issue, Proceed, PromisesKept, Before, OthersIdle,
           Users, TypeOK
    <2> QED BY <2>2, <2>3
  <1>6. NothingLost'
    BY DEF KitSwitches, Issue, Enter, Expect, cpuVars, Proceed, Forget, Stopped,
       enterVars, Users, NothingLost, Held, At, EnteredIn, Before, TypeOK
  <1>7. BootOnItsWay'
    BY DEF KitSwitches, AtPanel, Issue, Enter, cpuVars, Proceed, Stopped, Users,
       BootOnItsWay, TypeOK, Processing
  <1>8. ~strayed'
    BY DEF KitSwitches
  <1> QED BY <1>1, <1>2, <1>3, <1>4, <1>5, <1>6, <1>7, <1>8

\* The click panel: Button B changes the mode of the keys.
LEMMA ButtonBInv ==
    ASSUME PanelInv, ButtonB
    PROVE  PanelInv'
  <1> USE DEF PanelInv
  <1>1. TypeOK'
    BY NextInMemory DEF ButtonB, switchVars, cpuVars, enterVars, TypeOK
  <1>2. Alone'
    BY DEF ButtonB, Alone
  <1>3. NothingExpected'
    BY DEF ButtonB, enterVars, NothingExpected, Forgot
  <1>4. SwitchesReset'
    BY DEF ButtonB, switchVars, SwitchesReset
  <1>5. PromisesKept'
    BY DEF ButtonB, Stopped, switchVars, cpuVars, enterVars, PromisesKept, Promised,
       DepositedAt, Before, Held, At, EnteredIn, Forgot
  <1>6. NothingLost'
    BY DEF ButtonB, Stopped, switchVars, cpuVars, enterVars, NothingLost, Held, At,
       EnteredIn, Before
  <1>7. BootOnItsWay'
    BY DEF ButtonB, Stopped, switchVars, cpuVars, BootOnItsWay
  <1>8. ~strayed'
    BY DEF ButtonB
  <1> QED BY <1>1, <1>2, <1>3, <1>4, <1>5, <1>6, <1>7, <1>8

\* The click panel: a key flips an address bit.
LEMMA InputKeyInv ==
    ASSUME PanelInv, InputKey
    PROVE  PanelInv'
  <1> USE DEF PanelInv
  <1>1. TypeOK'
    <2>1. PICK k \in {n \in Addresses : n # 0 /\ AddressSize % (2 * n) = 0} :
             bus_switches' = FlipBit(bus_switches, k)
      BY DEF InputKey
    <2>2. bus_switches' \in Addresses
      BY <2>1, FlipInMemory DEF TypeOK
    <2> QED
      BY <2>2 DEF InputKey, Proceed, Enter, Forget, keyVars, cpuVars, enterVars, TypeOK,
         Users
  <1>2. Alone'
    BY DEF InputKey, Proceed, Enter, Alone, TypeOK
  <1>3. NothingExpected'
    BY DEF InputKey, Proceed, Enter, enterVars, Forget, NothingExpected, Forgot
  <1>4. SwitchesReset'
    BY DEF InputKey, AtPanel, Proceed, SwitchesReset, Processing
  <1>5. PromisesKept'
    BY DEF InputKey, Proceed, Enter, OthersIdle, Forget, Users, PromisesKept, Before,
       Forgot, TypeOK
  <1>6. NothingLost'
    BY DEF InputKey, AtPanel, Stopped, Proceed, Enter, enterVars, cpuVars, Forget,
       NothingLost, Held, At, EnteredIn, Before
  <1>7. BootOnItsWay'
    BY DEF InputKey, AtPanel, Enter, BootOnItsWay, Processing
  <1>8. ~strayed'
    BY DEF InputKey
  <1> QED BY <1>1, <1>2, <1>3, <1>4, <1>5, <1>6, <1>7, <1>8

\* The click panel: a key is a command.
LEMMA ControlKeyInv ==
    ASSUME PanelInv, ControlKey
    PROVE  PanelInv'
  <1> USE DEF PanelInv
  <1>1. TypeOK'
    <2>1. PICK cmd \in {{c} : c \in Commands} \cup {{}} :
             IF Stopped = (cmd # {"STOP"})
                THEN /\ Issue("loop", cmd, "idle")
                     /\ Enter("loop", Expect(cmd) /\ booting' = (booting /\ cmd = {}))
                ELSE /\ cmd_switches' = {} /\ Proceed("loop", "idle") /\ UNCHANGED then
                     /\ Enter("loop", UNCHANGED <<enterVars, booting>>)
      BY DEF ControlKey
    <2>2. cmd \subseteq Commands
      OBVIOUS
    <2>3. bus_switches' \in Addresses
      BY DEF ControlKey, TypeOK
    <2>4. /\ cursor' \in Addresses \cup {None}
          /\ entered' \subseteq [address : Addresses, data : Data]
      BY <2>1, <2>3, ExpectType DEF Enter, Forget, enterVars, TypeOK
    <2>5. /\ cmd_switches' \subseteq Commands
          /\ Proceed("loop", "process") \/ Proceed("loop", "idle")
          /\ then' = [then EXCEPT !["loop"] = "idle"] \/ UNCHANGED then
      BY <2>1, <2>2 DEF Issue
    <2>6. overlap' \in BOOLEAN /\ booting' \in BOOLEAN
      BY <2>1 DEF Enter, TypeOK
    <2> QED
      BY <2>3, <2>4, <2>5, <2>6 DEF ControlKey, Proceed, keyVars, cpuVars, TypeOK,
         Users, Processing
  <1>2. Alone'
    <2>1. PICK cmd \in {{c} : c \in Commands} \cup {{}} :
             IF Stopped = (cmd # {"STOP"})
                THEN /\ Issue("loop", cmd, "idle")
                     /\ Enter("loop", Expect(cmd) /\ booting' = (booting /\ cmd = {}))
                ELSE /\ cmd_switches' = {} /\ Proceed("loop", "idle") /\ UNCHANGED then
                     /\ Enter("loop", UNCHANGED <<enterVars, booting>>)
      BY DEF ControlKey
    <2>2. /\ Proceed("loop", "process") \/ Proceed("loop", "idle")
          /\ overlap' = (overlap \/ ~OthersIdle("loop"))
      BY <2>1 DEF Issue, Enter
    <2> QED
      BY <2>2 DEF Proceed, OthersIdle, Alone, TypeOK, Users
  <1>3. NothingExpected'
    BY DEF ControlKey, Issue, Enter, Proceed, OthersIdle, Forget, Users,
       NothingExpected, Forgot, TypeOK
  <1>4. SwitchesReset'
    BY DEF ControlKey, Issue, Proceed, Users, SwitchesReset, Processing, TypeOK
  <1>5. PromisesKept'
    <2>1. PICK cmd \in {{c} : c \in Commands} \cup {{}} :
             IF Stopped = (cmd # {"STOP"})
                THEN /\ Issue("loop", cmd, "idle")
                     /\ Enter("loop", Expect(cmd) /\ booting' = (booting /\ cmd = {}))
                ELSE /\ cmd_switches' = {} /\ Proceed("loop", "idle") /\ UNCHANGED then
                     /\ Enter("loop", UNCHANGED <<enterVars, booting>>)
      BY DEF ControlKey
    <2>2. cmd \subseteq Commands
      OBVIOUS
    <2>3. CASE overlap'
      BY <2>1, <2>3 DEF PromisesKept, Enter, Forget, Forgot
    <2>4. CASE ~overlap'
      <3>1. OthersIdle("loop")
        BY <2>1, <2>4 DEF Enter
      <3>2. Held
        BY <3>1, HeldWhenQuiet DEF ControlKey, AtPanel
      <3>3. CASE Stopped = (cmd # {"STOP"})
        <4>1. cmd_switches' = cmd /\ Expect(cmd)
          BY <2>1, <2>4, <3>3 DEF Issue, Enter
        <4>2. UNCHANGED <<cpu_operating_mode, cpuVars>>
          BY DEF ControlKey
        <4>3. Stopped' => Promised'
          BY <2>2, <3>2, <4>1, <4>2, CommandIssued DEF Stopped
        <4> QED
          BY <2>1, <3>1, <3>3, <4>3 DEF Issue, Proceed, PromisesKept, Before, OthersIdle,
             Users, TypeOK
      <3>4. CASE ~(Stopped = (cmd # {"STOP"}))
        BY <2>1, <3>1, <3>4 DEF Proceed, PromisesKept, Before, OthersIdle, Users,
           TypeOK
      <3> QED BY <3>3, <3>4
    <2> QED BY <2>3, <2>4
  <1>6. NothingLost'
    BY DEF ControlKey, AtPanel, Stopped, Issue, Enter, Expect, Proceed, enterVars,
       cpuVars, Forget, Users, NothingLost, Held, At, EnteredIn, Before, TypeOK
  <1>7. BootOnItsWay'
    BY DEF ControlKey, AtPanel, Stopped, Enter, Proceed, enterVars, cpuVars, Forget,
       Users, BootOnItsWay, NothingExpected, Alone, TypeOK, Processing
  <1>8. ~strayed'
    BY DEF ControlKey
  <1> QED BY <1>1, <1>2, <1>3, <1>4, <1>5, <1>6, <1>7, <1>8

-----------------------------------------------------------------------------
(***************************************************************************)
(* The invariant, and what follows from it.                                *)
(***************************************************************************)
LEMMA PanelNextInv == PanelInv /\ [PanelNext]_panelVars => PanelInv'
  <1> SUFFICES ASSUME PanelInv, [PanelNext]_panelVars PROVE PanelInv'
    OBVIOUS
  <1>1. CASE PanelNext
    BY <1>1, CheckModeInv, PerformInv, CheckStopInv, ResetInv, FetchInv, ExecuteInv,
       CpuTurnInv, ToggleMonitorInv, FirstConnectionInv, TypeLineInv,
       MonitorCommandInv, MonitorSwitchesInv, TwinSetsModeInv, ButtonAInv,
       ShortcutInv, ShortcutRunInv, NoInputInv, KitSwitchesInv, ButtonBInv,
       InputKeyInv, ControlKeyInv DEF PanelNext, Process
  <1>2. CASE UNCHANGED panelVars
    <2>1. TypeOK' /\ Alone' /\ NothingExpected' /\ SwitchesReset'
      BY <1>2 DEF PanelInv, panelVars, keyVars, switchVars, cpuVars, enterVars, TypeOK,
         Alone, NothingExpected, SwitchesReset, Forgot
    <2>2. PromisesKept' /\ NothingLost' /\ BootOnItsWay' /\ ~strayed'
      BY <1>2 DEF PanelInv, panelVars, switchVars, cpuVars, enterVars, PromisesKept,
         NothingLost, BootOnItsWay, Promised, DepositedAt, Before, Held, At,
         EnteredIn, Forgot, Stopped
    <2> QED BY <2>1, <2>2 DEF PanelInv
  <1> QED BY <1>1, <1>2

LEMMA PanelSpecInv == PanelSpec => []PanelInv
  BY PanelInitInv, PanelNextInv, PTL DEF PanelSpec

\* Button A starts the CPU at the disk loader, whatever was pressed, typed and run
\* before it, unless another thread was inside the panel's code or an instruction
\* (main.c, ButtonPressCheckHandler and the panel's polls).
THEOREM ButtonAStartsCpm == PanelSpec => []ButtonStartsCpm
  <1>1. PanelInv => ButtonStartsCpm
    BY DEF PanelInv, BootOnItsWay, ButtonStartsCpm, Processing
  <1> QED BY <1>1, PanelSpecInv, PTL

\* What is entered byte by byte on a stopped CPU is in memory where it was entered,
\* and the panel is at the byte that was examined or deposited last, whichever of
\* the web terminal and the panel the commands came from.
THEOREM EnteredProgramStays == PanelSpec => []ProgramIsEntered
  <1>1. PanelInv => ProgramIsEntered
    BY DEF PanelInv, NothingLost, Before, Held, At, EnteredIn, ProgramIsEntered
  <1> QED BY <1>1, PanelSpecInv, PTL
=============================================================================
