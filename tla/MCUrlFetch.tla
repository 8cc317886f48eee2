----------------------------- MODULE MCUrlFetch -----------------------------
(***************************************************************************)
(* A site of three URLs: pages that link on, redirect, loop back, fan out, *)
(* or are files; expensive and cheap acquisitions.                         *)
(***************************************************************************)
EXTENDS UrlFetch

CONSTANTS a, b, c, c1, c2

Answer(final, source, links, clean) ==
  [final |-> final, source |-> source, links |-> links, clean |-> clean]

MCAnswers ==
  {Answer(a, "none", "failed", FALSE), Answer(c, "file", "failed", TRUE),
   Answer(b, "html", "many", FALSE)}
    \cup {Answer(final, "html", links, TRUE) : final \in {a, b}, links \in {a, b, c}}

Cost(requests, runtime, attempts) ==
  [requests |-> requests, runtime |-> runtime, attempts |-> attempts]

MCCosts == {Cost(1, 2, 1), Cost(2, 0, 2)}
=============================================================================
