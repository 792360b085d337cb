-------------------------- MODULE MCBrowserRegistry --------------------------
(* Small instances of the browser registry for TLC.                         *)
EXTENDS BrowserRegistry

CONSTANTS e1, e2, headed, headless

TwoEndpoints == {e1, e2}
TwoModes     == {headed, headless}
=============================================================================
