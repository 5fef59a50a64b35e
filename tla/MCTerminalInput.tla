-------------------------- MODULE MCTerminalInput --------------------------
(***************************************************************************)
(* Bounds for TerminalInput: lines of no, one and two characters, one of   *)
(* them without a carriage return, and a program of three bytes.           *)
(***************************************************************************)
EXTENDS TerminalInput

CONSTANTS a, b, nul, cr, lf

MCPrintable == {a, b}
MCMessages == {Line(<<a>>, TRUE), Line(<<a, b>>, FALSE), Line(<<>>, TRUE),
               Control(b), Monitor, Load(<<a, b, a>>)}

\* A behaviour is followed until two threads are inside at once: no property claims
\* anything from then on, and appLoadPtr may run on without an end.
UntilRaced == ~raced
=============================================================================
