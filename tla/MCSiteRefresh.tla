---------------------------- MODULE MCSiteRefresh ----------------------------
(* A site of a seed s, two pages a and b and a page x of another host; the *)
(* third discovery tool looks for files.                                   *)
EXTENDS SiteRefresh

CONSTANTS s, a, b, x, direct, browser

MCRedirects == {<<s, a>>, <<s, x>>, <<b, x>>}
MCLinks == {{s}, {a, b}}
MCCapabilities == [g \in BOOLEAN |-> IF g THEN {{{3}, {1}}} ELSE {{{1, 2}}, {{1}, {2}}}]
MCKinds == [g \in BOOLEAN |-> IF g THEN {"html", "file"} ELSE {"html", "empty"}]
MCPrevious == {{s, a, b}}
=============================================================================
