--------------------------- MODULE MCControlPanel ---------------------------
(***************************************************************************)
(* Memory of two bytes: one address switch, which is also the byte that    *)
(* is deposited.  One combination of two switches, of which STOP counts.   *)
(***************************************************************************)
EXTENDS ControlPanel

MCPanels == {"kit", "click", "none"}
MCPressed == {{}, {"STOP"}, {"STOP", "EXAMINE"}} \cup {{c} : c \in MonitorCommands \cup {"RUN"}}
=============================================================================
