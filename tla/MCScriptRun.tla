----------------------------- MODULE MCScriptRun -----------------------------
(* A small instance of the run of a script for TLC.                         *)
EXTENDS ScriptRun

CONSTANTS c1, c2, c3, p1, p2

ThreeCommands == {c1, c2, c3}
TwoPages      == {p1, p2}
=============================================================================
