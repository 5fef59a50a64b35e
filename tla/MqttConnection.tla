--------------------------- MODULE MqttConnection ---------------------------
(***************************************************************************)
(* The connection to the MQTT broker and the output that travels on it     *)
(* (comms_manager_wolf.c, and the two places of main.c that drive it).     *)
(* Three threads share the flags:                                          *)
(*   "mqtt"  waitMessage_task, which connects, subscribes, waits and       *)
(*           reconnects, and runs the CPU monitor's single steps;          *)
(*   "cpu"   altair_thread, which publishes what the guest prints, the     *)
(*           requests for sectors, and the pings;                          *)
(*   the event loop, whose timer asks for a flush or for a ping.           *)
(* A thread that meets a network error runs the disconnect callback, whose *)
(* two assignments are steps of their own.                                 *)
(*                                                                         *)
(* Not here: what is in the messages, the mode of the CPU (the guest may   *)
(* print at any turn, the monitor may step at any message), what becomes   *)
(* of terminal input (TerminalInput) but that the MQTT thread waits for a  *)
(* line to be read, the bytes of the buffer.                               *)
(***************************************************************************)
EXTENDS Integers

CONSTANTS
    BufferSize,     \* sizeof output_buffer: 256
    PingTicks,      \* ticks without output that call for a ping: 4 * 15
    MaxFailures     \* bounds the connections the network breaks or refuses

ASSUME ConnectionAssumption ==
    BufferSize \in Nat \ {0} /\ PingTicks \in Nat \ {0} /\ MaxFailures \in Nat

Threads == {"mqtt", "cpu"}

VARIABLES
    mqtt_connected, got_disconnected,
    channel, network,               \* a channel id is known; dx_isNetworkReady
    socket,                         \* of the MqttClient
    output_buffer_length, dirty_buffer, send_messages, send_ping, mqtt_ping_count,
    pc, after,                      \* where each thread is; where it returns to
    failures, unsubscribed, raced    \* bound and ghosts

flags == <<mqtt_connected, got_disconnected>>
netVars == <<channel, network, socket, failures>>
outVars == <<output_buffer_length, dirty_buffer>>
askVars == <<send_messages, send_ping, mqtt_ping_count>>
ghosts == <<unsubscribed, raced>>
vars == <<flags, netVars, outVars, askVars, pc, after, ghosts>>

ClientPcs == {"send", "error", "noted", "answer"}
MqttPcs == ClientPcs \cup
    {"loop", "closed", "connect", "login", "accepted", "subscribe", "announce",
     "check", "drop", "cleanup", "wait", "handing", "waited",
     "append", "emptied", "report"}
CpuPcs == ClientPcs \cup
    {"cycle", "append", "emptied", "messages", "flushed",
     "clear", "ping", "pinged"}

\* Each thread is in its own code, and a call of the client returns to it.
PcOK ==
    /\ pc \in [Threads -> MqttPcs \cup CpuPcs]
    /\ pc["mqtt"] \in MqttPcs /\ pc["cpu"] \in CpuPcs
    /\ after \in [Threads -> {"nowhere"} \cup MqttPcs \cup CpuPcs]
    /\ pc["mqtt"] \in ClientPcs => after["mqtt"] \in MqttPcs \ ClientPcs
    /\ pc["cpu"] \in ClientPcs => after["cpu"] \in CpuPcs \ ClientPcs

Init ==
    /\ mqtt_connected = FALSE /\ got_disconnected = TRUE
    /\ channel \in BOOLEAN /\ network = FALSE /\ socket = "closed"
    /\ output_buffer_length = 0 /\ dirty_buffer = FALSE
    /\ send_messages = FALSE /\ send_ping = FALSE /\ mqtt_ping_count = 0
    /\ pc = [mqtt |-> "loop", cpu |-> "cycle"]
    /\ after = [t \in Threads |-> "nowhere"]
    /\ failures = 0
    /\ unsubscribed = FALSE /\ raced = FALSE

----------------------------------------------------------------------------
(***************************************************************************)
(* The network, and the client that both threads use.                      *)
(***************************************************************************)
\* The device twin delivers the channel id, if storage had none.
ChannelArrives ==
    /\ ~channel /\ channel' = TRUE
    /\ UNCHANGED <<flags, network, socket, failures, outVars, askVars, pc, after,
                   ghosts>>

NetworkReady ==
    /\ ~network /\ network' = TRUE
    /\ UNCHANGED <<flags, channel, socket, failures, outVars, askVars, pc, after,
                   ghosts>>

\* The network, or the broker, fails once more.
Fail == failures < MaxFailures /\ failures' = failures + 1

NetworkBreaks ==
    /\ Fail
    /\ network' = FALSE
    /\ socket' = IF socket = "open" THEN "broken" ELSE socket
    /\ UNCHANGED <<flags, channel, outVars, askVars, pc, after, ghosts>>

Goto(t, l) == pc' = [pc EXCEPT ![t] = l]

Return(t) ==
    /\ pc' = [pc EXCEPT ![t] = after[t]]
    /\ after' = [after EXCEPT ![t] = "nowhere"]

Call(t, l, return) == Goto(t, l) /\ after' = [after EXCEPT ![t] = return]

\* publish_message, vdisk_mqtt_*_sector and send_mqtt_ping ask mqtt_connected,
\* and use the client in a later step.
Publish(t, return) ==
    IF mqtt_connected
    THEN Call(t, "send", return)
    ELSE Goto(t, return) /\ UNCHANGED after

\* MqttClient_Publish, MqttClient_Ping: the packet goes out, and the answer may not
\* come in time; a client that the other thread has closed gives an error, with or
\* without the callback.
Send(t) ==
    /\ pc[t] = "send"
    /\ \/ socket = "open" /\ failures' = failures /\ Return(t)
       \/ socket = "open" /\ Fail /\ Goto(t, "answer") /\ after' = after
       \/ socket # "open" /\ failures' = failures /\ Goto(t, "error") /\ after' = after
       \/ socket = "closed" /\ failures' = failures /\ Return(t)
    /\ UNCHANGED <<flags, channel, network, socket, outVars, askVars, ghosts>>

\* azure_sphere_mqtt_disconnect_cb, for MQTT_CODE_ERROR_NETWORK: two steps,
NetworkError(t) ==
    /\ pc[t] = "error"
    /\ mqtt_connected' = FALSE
    /\ Goto(t, "noted")
    /\ UNCHANGED <<got_disconnected, netVars, outVars, askVars, after, ghosts>>

\* A mutant: got_disconnected is set only if mqtt_connected (still) is.
NoteDisconnectIfConnected(t) ==
    /\ pc[t] = "noted"
    /\ got_disconnected' = (got_disconnected \/ mqtt_connected)
    /\ Goto(t, "answer")
    /\ UNCHANGED <<mqtt_connected, netVars, outVars, askVars, after, ghosts>>

NoteDisconnect(t) ==
    /\ pc[t] = "noted"
    /\ got_disconnected' = TRUE
    /\ Goto(t, "answer")
    /\ UNCHANGED <<mqtt_connected, netVars, outVars, askVars, after, ghosts>>

\* and, for every error, a ping if the flag is (again) set.
AnswerError(t) ==
    /\ pc[t] = "answer"
    /\ IF mqtt_connected THEN Goto(t, "send") /\ after' = after ELSE Return(t)
    /\ UNCHANGED <<flags, netVars, outVars, askVars, ghosts>>

UseClient(t) == Send(t) \/ NetworkError(t) \/ NoteDisconnect(t) \/ AnswerError(t)

----------------------------------------------------------------------------
(***************************************************************************)
(* An instruction of the guest, and publish_character, on the thread that  *)
(* runs it.  The CPU monitor single-steps the guest on the MQTT thread;    *)
(* raced says that the two threads were inside the buffer's code at the    *)
(* same time.                                                              *)
(***************************************************************************)
InBuffer(t) ==
    \/ pc[t] \in {"append", "emptied", "flushed", "clear"}
    \/ pc[t] \in ClientPcs /\ after[t] \in {"emptied", "flushed"}

PrintCharacter(t) ==
    /\ pc[t] = (IF t = "cpu" THEN "cycle" ELSE "wait")
    /\ dirty_buffer' = TRUE
    /\ Goto(t, "append")
    /\ raced' = (raced \/ \E u \in Threads \ {t} : InBuffer(u))
    /\ t = "mqtt" => socket = "open"
    /\ UNCHANGED <<flags, netVars, output_buffer_length, askVars, after,
                   unsubscribed>>

\* The guest's OUT is over: the CPU thread goes on in its loop, the MQTT thread
\* reports the state of the CPU.
Printed(t) == IF t = "cpu" THEN "messages" ELSE "report"

\* A mutant: the buffer is published when it is more than full.
AppendCharacterLate(t) ==
    /\ pc[t] = "append"
    /\ output_buffer_length' = output_buffer_length + 1
    /\ IF output_buffer_length' > BufferSize
       THEN Publish(t, "emptied")
       ELSE Goto(t, Printed(t)) /\ UNCHANGED after
    /\ UNCHANGED <<flags, netVars, dirty_buffer, askVars, ghosts>>

AppendCharacter(t) ==
    /\ pc[t] = "append"
    /\ output_buffer_length' = output_buffer_length + 1
    /\ IF output_buffer_length' >= BufferSize
       THEN Publish(t, "emptied")
       ELSE Goto(t, Printed(t)) /\ UNCHANGED after
    /\ UNCHANGED <<flags, netVars, dirty_buffer, askVars, ghosts>>

EmptyFull(t) ==
    /\ pc[t] = "emptied"
    /\ output_buffer_length' = 0 /\ dirty_buffer' = FALSE
    /\ Goto(t, Printed(t))
    /\ UNCHANGED <<flags, netVars, askVars, after, ghosts>>

\* An instruction that prints nothing, or asks for a sector.
Cycle(t) ==
    /\ pc[t] = (IF t = "cpu" THEN "cycle" ELSE "wait")
    /\ \/ Goto(t, Printed(t)) /\ UNCHANGED after
       \/ Publish(t, Printed(t))
    /\ t = "mqtt" => socket = "open"
    /\ UNCHANGED <<flags, netVars, outVars, askVars, ghosts>>

RunGuest(t) ==
    Cycle(t) \/ PrintCharacter(t) \/ AppendCharacter(t) \/ EmptyFull(t)

----------------------------------------------------------------------------
(***************************************************************************)
(* altair_thread.                                                          *)
(***************************************************************************)
\* send_partial_message: what cannot be published is dropped.
SendPartial ==
    IF output_buffer_length > 0
    THEN Publish("cpu", "flushed")
    ELSE Goto("cpu", "flushed") /\ UNCHANGED after

\* A mutant: without a connection there is nothing to flush for.
CheckMessagesWhenConnected ==
    /\ pc["cpu"] = "messages"
    /\ IF send_messages /\ dirty_buffer /\ mqtt_connected
       THEN SendPartial
       ELSE Goto("cpu", IF send_messages THEN "clear" ELSE "ping") /\ UNCHANGED after
    /\ raced' = (raced \/ (send_messages /\ InBuffer("mqtt")))
    /\ UNCHANGED <<flags, netVars, outVars, askVars, unsubscribed>>

CheckMessages ==
    /\ pc["cpu"] = "messages"
    /\ IF send_messages /\ dirty_buffer
       THEN SendPartial
       ELSE Goto("cpu", IF send_messages THEN "clear" ELSE "ping") /\ UNCHANGED after
    /\ raced' = (raced \/ (send_messages /\ InBuffer("mqtt")))
    /\ UNCHANGED <<flags, netVars, outVars, askVars, unsubscribed>>

\* A mutant: the characters that were sent are kept.
PartialKept ==
    /\ pc["cpu"] = "flushed"
    /\ dirty_buffer' = FALSE
    /\ Goto("cpu", "clear")
    /\ UNCHANGED <<flags, netVars, output_buffer_length, askVars, after, ghosts>>

PartialSent ==
    /\ pc["cpu"] = "flushed"
    /\ output_buffer_length' = 0 /\ dirty_buffer' = FALSE
    /\ Goto("cpu", "clear")
    /\ UNCHANGED <<flags, netVars, askVars, after, ghosts>>

ClearMessages ==
    /\ pc["cpu"] = "clear"
    /\ send_messages' = FALSE /\ dirty_buffer' = FALSE
    /\ Goto("cpu", "ping")
    /\ UNCHANGED <<flags, netVars, output_buffer_length, send_ping, mqtt_ping_count,
                   after, ghosts>>

\* The turn ends.
CheckPing ==
    /\ pc["cpu"] = "ping"
    /\ IF send_ping
       THEN Publish("cpu", "pinged")
       ELSE Goto("cpu", "cycle") /\ after' = after
    /\ UNCHANGED <<flags, netVars, outVars, askVars, unsubscribed, raced>>

Pinged ==
    /\ pc["cpu"] = "pinged"
    /\ send_ping' = FALSE
    /\ Goto("cpu", "cycle")
    /\ UNCHANGED <<flags, netVars, outVars, send_messages, mqtt_ping_count, after,
                   unsubscribed, raced>>

CpuStep ==
    \/ RunGuest("cpu") \/ UseClient("cpu")
    \/ CheckMessages \/ PartialSent \/ ClearMessages
    \/ CheckPing \/ Pinged

(***************************************************************************)
(* mqtt_work_scheduler_handler, every 250 ms.                              *)
(***************************************************************************)
Tick ==
    /\ LET due == ~dirty_buffer /\ mqtt_ping_count + 1 > PingTicks
       IN /\ mqtt_ping_count' = IF dirty_buffer \/ due THEN 0 ELSE mqtt_ping_count + 1
          /\ send_messages' = (send_messages \/ dirty_buffer)
          /\ send_ping' = (send_ping \/ due)
    /\ UNCHANGED <<flags, netVars, outVars, pc, after, unsubscribed, raced>>

----------------------------------------------------------------------------
(***************************************************************************)
(* waitMessage_task.                                                       *)
(***************************************************************************)
LoopTop ==
    /\ pc["mqtt"] = "loop"
    /\ Goto("mqtt", IF mqtt_connected THEN "wait" ELSE "closed")
    /\ UNCHANGED <<flags, netVars, outVars, askVars, after, ghosts>>

\* Without a reason to connect, or a channel, or a network: sleep two seconds (as
\* after every turn that ends without a connection), and look again.
ReadyToConnect ==
    /\ pc["mqtt"] = "closed"
    /\ Goto("mqtt", IF got_disconnected /\ channel /\ network THEN "connect" ELSE "loop")
    /\ UNCHANGED <<flags, netVars, outVars, askVars, after, ghosts>>

\* init_mqtt_connection up to MqttClient_NetConnect, which may fail.
NetConnect ==
    /\ pc["mqtt"] = "connect"
    /\ \/ network /\ socket' = "open" /\ failures' = failures /\ Goto("mqtt", "login")
       \/ ~network /\ socket' = "closed" /\ failures' = failures /\ Goto("mqtt", "check")
       \/ Fail /\ socket' = "closed" /\ Goto("mqtt", "check")
    /\ unsubscribed' = FALSE
    /\ UNCHANGED <<flags, channel, network, outVars, askVars, after, raced>>

\* MqttClient_Connect: a session, a refusal or a timeout, or a network error.  After
\* a failure init_mqtt_connection disconnects, and waitMessage_task once more.
Login ==
    /\ pc["mqtt"] = "login"
    /\ \/ socket = "open" /\ failures' = failures /\ Goto("mqtt", "accepted")
          /\ after' = after
       \/ Fail /\ Call("mqtt", "answer", "drop")
       \/ socket # "open" /\ failures' = failures
          /\ Call("mqtt", "error", "drop")
    /\ UNCHANGED <<flags, channel, network, socket, outVars, askVars, ghosts>>

Accepted ==
    /\ pc["mqtt"] = "accepted"
    /\ got_disconnected' = FALSE
    /\ Goto("mqtt", "subscribe")
    /\ UNCHANGED <<mqtt_connected, netVars, outVars, askVars, after, ghosts>>

\* subscribe_task.  A timeout, or an answer that is not the acknowledgement, fails
\* it and leaves the socket and got_disconnected alone.
Subscribe ==
    /\ pc["mqtt"] = "subscribe"
    /\ \/ socket = "open" /\ mqtt_connected' = TRUE
          /\ Goto("mqtt", "announce") /\ UNCHANGED <<after, failures, unsubscribed>>
       \/ Fail /\ mqtt_connected' = FALSE /\ unsubscribed' = TRUE
          /\ Call("mqtt", "answer", "announce")
       \/ socket # "open" /\ mqtt_connected' = FALSE
          /\ Call("mqtt", "error", "announce") /\ UNCHANGED <<failures, unsubscribed>>
    /\ UNCHANGED <<got_disconnected, channel, network, socket, outVars, askVars, raced>>

\* A mutant: got_disconnected is cleared (again) after subscribe_task.
AnnounceReconnected ==
    /\ pc["mqtt"] = "announce"
    /\ got_disconnected' = FALSE
    /\ Publish("mqtt", "check")
    /\ UNCHANGED <<mqtt_connected, netVars, outVars, askVars, ghosts>>

\* mqtt_connected_cb publishes a greeting, also when the subscription failed.
Announce ==
    /\ pc["mqtt"] = "announce"
    /\ Publish("mqtt", "check")
    /\ UNCHANGED <<flags, netVars, outVars, askVars, ghosts>>

CheckDisconnected ==
    /\ pc["mqtt"] \in {"check", "waited"}
    /\ IF got_disconnected
       THEN Goto("mqtt", "drop")
       ELSE Goto("mqtt", "loop")
    /\ UNCHANGED <<flags, netVars, outVars, askVars, after, ghosts>>

\* client_disconnect: the flag first, then the client is closed and cleaned up.  (An
\* error on the way writes the flags as they already are.)
Drop ==
    /\ pc["mqtt"] = "drop"
    /\ mqtt_connected' = FALSE
    /\ Goto("mqtt", "cleanup")
    /\ UNCHANGED <<got_disconnected, netVars, outVars, askVars, after, ghosts>>

Cleanup ==
    /\ pc["mqtt"] = "cleanup"
    /\ socket' = "closed"
    /\ Goto("mqtt", "loop")
    /\ UNCHANGED <<flags, channel, network, failures, outVars, askVars, after, ghosts>>

\* MqttClient_WaitMessage: a message, a timeout (which pings), or a network error.
\* The message is handled within the call: here one that is not waited for,
WaitMessage ==
    /\ pc["mqtt"] = "wait"
    /\ \/ socket = "open" /\ Goto("mqtt", "waited") /\ UNCHANGED after
       \/ socket = "open" /\ Call("mqtt", "answer", "waited")
       \/ socket # "open" /\ Call("mqtt", "error", "waited")
    /\ UNCHANGED <<flags, netVars, outVars, askVars, ghosts>>

\* and here a line, which handle_inbound_message hands over to the CPU.
HandLine ==
    /\ pc["mqtt"] = "wait" /\ socket = "open"
    /\ Goto("mqtt", "handing")
    /\ UNCHANGED <<flags, netVars, outVars, askVars, after, ghosts>>

\* The CPU has read the line, and the MQTT thread has heard it.  That need not
\* happen: the CPU may be stopped, the guest may not read, the signal may be lost.
LineProcessed ==
    /\ pc["mqtt"] = "handing"
    /\ Goto("mqtt", "waited")
    /\ UNCHANGED <<flags, netVars, outVars, askVars, after, ghosts>>

\* publish_cpu_state, after a single step.
Report ==
    /\ pc["mqtt"] = "report"
    /\ Publish("mqtt", "waited")
    /\ UNCHANGED <<flags, netVars, outVars, askVars, ghosts>>

MqttStep ==
    \/ LoopTop \/ ReadyToConnect \/ NetConnect \/ Login \/ Accepted \/ Subscribe
    \/ Announce \/ CheckDisconnected \/ Drop \/ Cleanup
    \/ WaitMessage \/ HandLine \/ Report \/ RunGuest("mqtt") \/ UseClient("mqtt")

----------------------------------------------------------------------------
Next ==
    \/ ChannelArrives \/ NetworkReady \/ NetworkBreaks
    \/ CpuStep \/ MqttStep \/ LineProcessed \/ Tick

\* The two threads run, the timer fires, a network that is down comes back and the
\* twin arrives in the end.  Nothing says that a line is read (LineProcessed).
Fairness ==
    /\ WF_vars(CpuStep) /\ WF_vars(MqttStep) /\ WF_vars(Tick)
    /\ WF_vars(NetworkReady) /\ WF_vars(ChannelArrives)

Spec == Init /\ [][Next]_vars /\ Fairness

----------------------------------------------------------------------------
\* No thread is on its way to set got_disconnected, and the MQTT thread is outside
\* the attempt that would set mqtt_connected.
Reporting(t) == pc[t] \in {"error", "noted"}

Forgotten ==
    /\ ~mqtt_connected /\ ~got_disconnected
    /\ ~Reporting("mqtt") /\ ~Reporting("cpu")
    /\ pc["mqtt"] # "subscribe"

\* A connection that is gone is never forgotten, whichever thread met the error and
\* wherever the other was between the two assignments of the callback: there is
\* always something that makes waitMessage_task connect again.  The exception is a
\* subscription that failed on a network that works.
DisconnectIsNoticed == Forgotten => unsubscribed

\* So, once the network is back, the program is connected again, whichever thread met
\* the error.  The exceptions are that subscription, and a line that is being handed
\* over: the thread that would reconnect waits for the CPU to read it, maybe for ever.
Recovers ==
    ~mqtt_connected ~> (mqtt_connected \/ unsubscribed \/ pc["mqtt"] = "handing")

\* The MQTT thread has closed the client and connects again while the CPU thread is
\* still in a call on it.
Overtaken == pc["cpu"] \in ClientPcs /\ pc["mqtt"] = "connect"

\* What the guest has printed is flagged: characters in output_buffer without
\* dirty_buffer would stay there until the next one is printed, since the timer asks
\* for a flush, and the CPU thread makes it, only for a buffer that is flagged.
OutputIsFlagged == output_buffer_length > 0 /\ ~raced => dirty_buffer

\* A character is only ever written inside output_buffer, also while a full buffer
\* or a partial one is still being published.
OutputFits ==
    \A t \in Threads : pc[t] = "append" /\ ~raced => output_buffer_length < BufferSize

\* What the guest has printed does not stay in output_buffer: it is published, or
\* dropped for want of a connection.  Two things keep it: the CPU monitor printing at
\* the same moment on another thread, whose dirty_buffer the CPU thread then clears;
\* and a CPU thread that is overtaken in the callback, which ends the new connection
\* and may be overtaken again.
OutputLeaves ==
    (output_buffer_length > 0 /\ ~raced) ~> (output_buffer_length = 0 \/ raced \/ Overtaken)
=============================================================================
