-------------------------- MODULE MCBrowserPageLock --------------------------
(* Small instances of the browser/page lock for TLC.                        *)
EXTENDS BrowserPageLock

CONSTANTS b1, b2, p1, p2, r1, r2, r3, r4

TwoBrowsers  == {b1, b2}
TwoPages     == {p1, p2}
FourRequests == {r1, r2, r3, r4}
=============================================================================
