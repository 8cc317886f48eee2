-------------------------- MODULE MCBrowserBridge --------------------------
(***************************************************************************)
(* BrowserBridge over two origins, one of them https, each with a robots   *)
(* file and a page.                                                        *)
(***************************************************************************)
EXTENDS BrowserBridge, TLC

CONSTANTS o1, o2, r1, p1, r2, p2

MCOrigin == (r1 :> o1) @@ (p1 :> o1) @@ (r2 :> o2) @@ (p2 :> o2)
MCRobotsFile == (o1 :> r1) @@ (o2 :> r2)
=============================================================================
