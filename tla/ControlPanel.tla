---------------------------- MODULE ControlPanel ----------------------------
(***************************************************************************)
(* The control panel and the mode of the CPU.  Three threads share the     *)
(* mode, the switches and the registers of the CPU, without a lock:        *)
(*   "loop"  the event loop: panel_refresh_handler with Button A and the   *)
(*           physical panels, and the device twin that sets the mode;      *)
(*   "mqtt"  the CPU monitor of the web terminal (front_panel_virtual.c)   *)
(*           and the control message that turns it on and off;             *)
(*   "cpu"   altair_thread, one instruction per turn while running.        *)
(* The accesses to the shared variables are steps of their own.  Commands  *)
(* are sets of switches, as in the byte cmd_switches.                      *)
(*                                                                         *)
(* Not here: the lamps and the texts, the switches that the guest senses,  *)
(* and what instructions do beyond a jump or a store (Intel8080).          *)
(***************************************************************************)
EXTENDS Integers

CONSTANTS
    AddressSize,    \* of memory: 2^16
    DataSize,       \* of a byte: 2^8
    Boot,           \* where the disk loader is: 0xff00
    Panels,         \* the builds: "kit", "click", "none"
    Pressed,        \* the command switches of the kit that are down at once
    None

Addresses == 0 .. AddressSize - 1
Data == 0 .. DataSize - 1
Commands == {"RUN", "STOP", "SINGLE_STEP", "EXAMINE", "EXAMINE_NEXT", "DEPOSIT",
             "DEPOSIT_NEXT"}
MonitorCommands == Commands \ {"RUN", "STOP"}
\* The threads that come here.
Users == {"loop", "mqtt", "cpu"}

ASSUME PanelAssumption ==
    /\ AddressSize \in Nat \ {0} /\ DataSize \in Nat \ {0}
    /\ AddressSize % DataSize = 0 /\ Boot \in Addresses
    /\ Panels \subseteq {"kit", "click", "none"}
    /\ Pressed \subseteq SUBSET Commands

VARIABLES
    panel,                                      \* the build
    cpu_operating_mode, cmd_switches, bus_switches,
    click_4x4_key_mode, initialised,
    regPc, address_bus, data_bus, memory,       \* of the CPU
    at, then,                                   \* where each thread is, and goes next
    overlap, cursor, entered, booting, strayed  \* ghosts

switchVars == <<cpu_operating_mode, cmd_switches, bus_switches>>
cpuVars == <<regPc, address_bus, data_bus, memory>>
keyVars == <<panel, click_4x4_key_mode, initialised>>
enterVars == <<cursor, entered>>
panelVars ==
    <<keyVars, switchVars, cpuVars, at, then, overlap, enterVars, booting, strayed>>

Stopped == cpu_operating_mode = "CPU_STOPPED"
NextAddress(a) == (a + 1) % AddressSize
LowByte(a) == a % DataSize

PanelInit ==
    /\ panel \in Panels
    /\ cpu_operating_mode = "CPU_STOPPED" /\ cmd_switches = {} /\ bus_switches = 0
    /\ click_4x4_key_mode = "CONTROL_MODE" /\ initialised = FALSE
    /\ regPc = Boot /\ address_bus = Boot /\ data_bus = 0
    /\ memory = [a \in Addresses |-> 0]
    /\ at = [t \in Users |-> "idle"] /\ then = [t \in Users |-> "idle"]
    /\ overlap = FALSE /\ cursor = None /\ entered = {}
    /\ booting = FALSE /\ strayed = FALSE

----------------------------------------------------------------------------
(***************************************************************************)
(* The ghosts.  A thread is inside from the first access of a command or   *)
(* an instruction to the last.  cursor is the address the user has         *)
(* examined and entered what was deposited since the CPU ran; booting says *)
(* that Button A was pressed.  All is forgotten when two threads overlap.  *)
(***************************************************************************)
OthersIdle(t) == \A u \in Users \ {t} : at[u] = "idle"

Proceed(t, l) == at' = [at EXCEPT ![t] = l]

Forget == cursor' = None /\ entered' = {}

\* t begins something; the user means what Meant says if no other thread is inside.
Enter(t, Meant) ==
    /\ overlap' = (overlap \/ ~OthersIdle(t))
    /\ IF overlap' THEN Forget /\ booting' = FALSE ELSE Meant

Leave(t) == overlap' = (overlap /\ ~OthersIdle(t))

Deposited(a) == {e \in entered : e.address # a}
                    \cup {[address |-> a, data |-> LowByte(bus_switches')]}

\* What the user of a stopped CPU expects of a command.
Expect(cmd) ==
    LET next == NextAddress(cursor)
    IN  IF ~Stopped \/ cmd = {}
        THEN UNCHANGED enterVars
        ELSE IF cursor = None /\ cmd \notin {{"EXAMINE"}, {"STOP"}, {"RUN"}}
        THEN Forget
        ELSE CASE cmd = {"EXAMINE"} -> cursor' = bus_switches' /\ entered' = entered
               [] cmd \in {{"STOP"}, {"RUN"}} -> cursor' = None /\ entered' = entered
               [] cmd = {"SINGLE_STEP"} -> Forget
               [] cmd = {"EXAMINE_NEXT"} -> cursor' = next /\ entered' = entered
               [] cmd = {"DEPOSIT"} -> cursor' = cursor /\ entered' = Deposited(cursor)
               [] cmd = {"DEPOSIT_NEXT"} -> cursor' = next /\ entered' = Deposited(next)
               [] OTHER -> UNCHANGED enterVars

----------------------------------------------------------------------------
(***************************************************************************)
(* process_control_panel_commands, on the thread t that set the switches;  *)
(* it returns to then[t].                                                  *)
(***************************************************************************)
Issue(t, cmd, return) ==
    /\ cmd_switches' = cmd
    /\ Proceed(t, "process")
    /\ then' = [then EXCEPT ![t] = return]

CheckMode(t) ==
    /\ at[t] = "process"
    /\ Proceed(t, IF Stopped THEN "perform" ELSE "stop")
    /\ UNCHANGED <<keyVars, switchVars, cpuVars, then, overlap, enterVars, booting, strayed>>

\* i8080_examine, i8080_examine_next, i8080_deposit, i8080_deposit_next
Examine(address) ==
    /\ regPc' = address /\ address_bus' = address
    /\ data_bus' = memory[address]
    /\ UNCHANGED memory

ExamineNext ==
    /\ address_bus' = NextAddress(address_bus)
    /\ data_bus' = memory[address_bus']
    /\ UNCHANGED <<regPc, memory>>

Deposit(address) ==
    /\ address_bus' = address
    /\ data_bus' = LowByte(bus_switches)
    /\ memory' = [memory EXCEPT ![address] = data_bus']
    /\ UNCHANGED regPc

Perform(t) ==
    /\ at[t] = "perform"
    /\ Proceed(t, IF cmd_switches = {"SINGLE_STEP"} THEN "fetch" ELSE "stop")
    /\ cpu_operating_mode' =
          IF cmd_switches = {"RUN"} THEN "CPU_RUNNING" ELSE cpu_operating_mode
    /\ CASE cmd_switches = {"STOP"} -> Examine(regPc)
         [] cmd_switches = {"EXAMINE"} -> Examine(bus_switches)
         [] cmd_switches = {"EXAMINE_NEXT"} -> ExamineNext
         [] cmd_switches = {"DEPOSIT"} -> Deposit(address_bus)
         [] cmd_switches = {"DEPOSIT_NEXT"} -> Deposit(NextAddress(address_bus))
         [] OTHER -> UNCHANGED cpuVars
    /\ UNCHANGED <<keyVars, cmd_switches, bus_switches, then, overlap, enterVars,
                   booting, strayed>>

\* STOP is a bit of the switches, not a case: it counts whatever else is pressed.
CheckStop(t) ==
    /\ at[t] = "stop"
    /\ Proceed(t, "reset")
    /\ cpu_operating_mode' =
          IF "STOP" \in cmd_switches THEN "CPU_STOPPED" ELSE cpu_operating_mode
    /\ UNCHANGED <<keyVars, cmd_switches, bus_switches, cpuVars, then, overlap, enterVars,
                   booting, strayed>>

\* A mutant: the switches are left as they are.
ResetKeeps(t) ==
    /\ at[t] = "reset"
    /\ Proceed(t, then[t])
    /\ IF then[t] = "idle" THEN Leave(t) ELSE overlap' = overlap
    /\ UNCHANGED <<keyVars, switchVars, cpuVars, then, enterVars, booting, strayed>>

Reset(t) ==
    /\ at[t] = "reset"
    /\ cmd_switches' = {}
    /\ Proceed(t, then[t])
    /\ IF then[t] = "idle" THEN Leave(t) ELSE overlap' = overlap
    /\ UNCHANGED <<keyVars, cpu_operating_mode, bus_switches, cpuVars, then, enterVars,
                   booting, strayed>>

----------------------------------------------------------------------------
(***************************************************************************)
(* i8080_cycle, on the CPU thread or on a thread that single-steps.        *)
(***************************************************************************)
\* altair_thread reads the mode once per turn.
CpuTurn ==
    /\ at["cpu"] = "idle" /\ ~Stopped
    /\ Proceed("cpu", "fetch")
    /\ strayed' = (strayed \/ (booting /\ regPc # Boot))
    /\ overlap' = (overlap \/ ~OthersIdle("cpu"))
    /\ Forget /\ booting' = FALSE
    /\ UNCHANGED <<keyVars, switchVars, cpuVars, then>>

Fetch(t) ==
    /\ at[t] = "fetch"
    /\ address_bus' = regPc /\ data_bus' = memory[regPc]
    /\ Proceed(t, "execute")
    /\ UNCHANGED <<keyVars, switchVars, regPc, memory, then, overlap, enterVars, booting, strayed>>

\* Whatever the instruction does: pc goes on or jumps, and it may store a byte.
Execute(t) ==
    /\ at[t] = "execute"
    /\ regPc' \in Addresses
    /\ \/ UNCHANGED <<address_bus, data_bus, memory>>
       \/ \E a \in Addresses, d \in Data :
             address_bus' = a /\ data_bus' = d /\ memory' = [memory EXCEPT ![a] = d]
    /\ Proceed(t, IF t = "cpu" THEN "idle" ELSE "stop")
    /\ IF t = "cpu" THEN Leave(t) ELSE overlap' = overlap
    /\ UNCHANGED <<keyVars, switchVars, then, enterVars, booting, strayed>>

----------------------------------------------------------------------------
(***************************************************************************)
(* The MQTT thread: the CPU monitor and the first connection.              *)
(***************************************************************************)
SetMode(t, mode) ==
    /\ at[t] = "idle"
    /\ cpu_operating_mode' = mode
    /\ Enter(t, UNCHANGED enterVars /\ booting' = FALSE)
    /\ UNCHANGED <<panel, click_4x4_key_mode, cmd_switches, bus_switches, cpuVars, at,
                   then, strayed>>

\* Control-M
ToggleMonitor ==
    /\ SetMode("mqtt", IF Stopped THEN "CPU_RUNNING" ELSE "CPU_STOPPED")
    /\ UNCHANGED initialised

\* mqtt_connected_cb, the first time
FirstConnection ==
    /\ ~initialised /\ initialised' = TRUE
    /\ SetMode("mqtt", "CPU_RUNNING")

\* A line while the CPU is stopped: process_virtual_input
TypeLine ==
    /\ at["mqtt"] = "idle" /\ Stopped
    /\ Proceed("mqtt", "typed")
    /\ Enter("mqtt", UNCHANGED enterVars /\ booting' = FALSE)
    /\ UNCHANGED <<keyVars, switchVars, cpuVars, then, strayed>>

MonitorCommand ==
    /\ at["mqtt"] = "typed"
    /\ \E cmd \in MonitorCommands :
          /\ Issue("mqtt", {cmd}, "idle")
          /\ bus_switches' = bus_switches
          /\ Enter("mqtt", Expect({cmd}) /\ UNCHANGED booting)
    /\ UNCHANGED <<keyVars, cpu_operating_mode, cpuVars, strayed>>

\* process_virtual_switches; a line that is not of zeros and ones changes nothing.
MonitorSwitches ==
    /\ at["mqtt"] = "typed"
    /\ bus_switches' \in Addresses
    /\ Proceed("mqtt", "idle")
    /\ Leave("mqtt")
    /\ UNCHANGED <<keyVars, cpu_operating_mode, cmd_switches, cpuVars, then, enterVars,
                   booting, strayed>>

----------------------------------------------------------------------------
(***************************************************************************)
(* The event loop.                                                         *)
(***************************************************************************)
\* device_twin_set_cpu_state_handler
TwinSetsMode ==
    /\ initialised
    /\ \E mode \in {"CPU_RUNNING", "CPU_STOPPED"} : SetMode("loop", mode)
    /\ UNCHANGED initialised

\* Button A, in read_panel_input: stop; load the address; run.
ButtonA ==
    /\ at["loop"] = "idle"
    /\ cpu_operating_mode' = "CPU_STOPPED"
    /\ Proceed("loop", "process") /\ then' = [then EXCEPT !["loop"] = "shortcut"]
    /\ Enter("loop", UNCHANGED enterVars /\ booting' = TRUE)
    /\ UNCHANGED <<keyVars, cmd_switches, bus_switches, cpuVars, strayed>>

\* A mutant: the CPU is set running before the address is examined.
ShortcutRuns ==
    /\ at["loop"] = "shortcut"
    /\ cpu_operating_mode' = "CPU_RUNNING" /\ bus_switches' = Boot
    /\ Issue("loop", {"EXAMINE"}, "run")
    /\ Enter("loop", cursor' = Boot /\ entered' = entered /\ UNCHANGED booting)
    /\ UNCHANGED <<keyVars, cpuVars, strayed>>

Shortcut ==
    /\ at["loop"] = "shortcut"
    /\ bus_switches' = Boot
    /\ Issue("loop", {"EXAMINE"}, "run")
    /\ Enter("loop", Expect({"EXAMINE"}) /\ UNCHANGED booting)
    /\ UNCHANGED <<keyVars, cpu_operating_mode, cpuVars, strayed>>

ShortcutRun ==
    /\ at["loop"] = "run"
    /\ cpu_operating_mode' = "CPU_RUNNING"
    /\ Proceed("loop", "process") /\ then' = [then EXCEPT !["loop"] = "panel"]
    /\ UNCHANGED <<keyVars, cmd_switches, bus_switches, cpuVars, overlap, enterVars,
                   booting, strayed>>

\* read_altair_panel_switches follows, with or without Button A.
AtPanel(build) == panel = build /\ at["loop"] \in {"idle", "panel"}

\* The panel that is none, or whose 250 ms are not over, or where nothing is pressed.
NoInput ==
    /\ at["loop"] = "panel"
    /\ Proceed("loop", "idle")
    /\ Leave("loop")
    /\ UNCHANGED <<keyVars, switchVars, cpuVars, then, enterVars, booting, strayed>>

\* The kit: sixteen address switches and the command switches, as they are.
KitSwitches ==
    /\ AtPanel("kit")
    /\ bus_switches' \in Addresses
    /\ \E cmd \in Pressed :
          /\ Issue("loop", cmd, "idle")
          /\ Enter("loop", Expect(cmd) /\ booting' = (booting /\ cmd = {}))
    /\ UNCHANGED <<keyVars, cpu_operating_mode, cpuVars, strayed>>

\* The click panel, Button B: the keys mean commands, or bits if the CPU is stopped.
ButtonB ==
    /\ AtPanel("click")
    /\ click_4x4_key_mode' = IF click_4x4_key_mode = "CONTROL_MODE" /\ Stopped
                             THEN "INPUT_MODE" ELSE "CONTROL_MODE"
    /\ UNCHANGED <<panel, initialised, switchVars, cpuVars, at, then, overlap, enterVars,
                   booting, strayed>>

FlipBit(a, k) == IF (a \div k) % 2 = 1 THEN a - k ELSE a + k

InputKey ==
    /\ AtPanel("click") /\ click_4x4_key_mode = "INPUT_MODE" /\ Stopped
    /\ \E k \in {n \in Addresses : n # 0 /\ AddressSize % (2 * n) = 0} :
          bus_switches' = FlipBit(bus_switches, k)
    /\ Proceed("loop", "idle")
    /\ Enter("loop", UNCHANGED <<enterVars, booting>>)
    /\ UNCHANGED <<keyVars, cpu_operating_mode, cmd_switches, cpuVars, then, strayed>>

\* Only STOP while the CPU runs, and all but STOP while it is stopped.
ControlKey ==
    /\ AtPanel("click") /\ click_4x4_key_mode = "CONTROL_MODE"
    /\ bus_switches' = bus_switches
    /\ \E cmd \in {{c} : c \in Commands} \cup {{}} :
          IF Stopped = (cmd # {"STOP"})
          THEN /\ Issue("loop", cmd, "idle")
               /\ Enter("loop", Expect(cmd) /\ booting' = (booting /\ cmd = {}))
          ELSE /\ cmd_switches' = {} /\ Proceed("loop", "idle") /\ UNCHANGED then
               /\ Enter("loop", UNCHANGED <<enterVars, booting>>)
    /\ UNCHANGED <<keyVars, cpu_operating_mode, cpuVars, strayed>>

----------------------------------------------------------------------------
Process(t) == CheckMode(t) \/ Perform(t) \/ CheckStop(t) \/ Reset(t)

PanelNext ==
    \/ \E t \in {"loop", "mqtt"} : Process(t)
    \/ \E t \in Users : Fetch(t) \/ Execute(t)
    \/ CpuTurn
    \/ ToggleMonitor \/ FirstConnection \/ TypeLine \/ MonitorCommand \/ MonitorSwitches
    \/ TwinSetsMode \/ ButtonA \/ Shortcut \/ ShortcutRun
    \/ NoInput \/ KitSwitches \/ ButtonB \/ InputKey \/ ControlKey

PanelSpec == PanelInit /\ [][PanelNext]_panelVars

----------------------------------------------------------------------------
\* Whatever was pressed, typed and run before, and whatever is left in the switches:
\* Button A starts the CPU at the disk loader, unless the CPU thread was inside an
\* instruction or the MQTT thread inside a command when it was pressed.
ButtonStartsCpm ==
    /\ ~strayed
    /\ (booting /\ at["loop"] = "idle") => (~Stopped /\ regPc = Boot)

\* A program entered byte by byte on a stopped CPU, from any of the panels, is in
\* memory where it was entered, and the panel is at the byte that was last examined
\* or deposited: no command is lost, repeated or carried out on stale switches.
ProgramIsEntered ==
    at["loop"] = "idle" /\ at["mqtt"] = "idle" =>
        /\ \A e \in entered : memory[e.address] = e.data
        /\ cursor # None => address_bus = cursor /\ data_bus = memory[cursor]
=============================================================================
