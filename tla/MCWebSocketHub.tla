--------------------------- MODULE MCWebSocketHub ---------------------------
(***************************************************************************)
(* Instances of WebSocketHub for TLC.                                      *)
(***************************************************************************)
EXTENDS WebSocketHub, TLC

\* Requests are interchangeable, and so are connections when all or none of
\* them may be slow.
Symmetry == Permutations(Requests) \cup Permutations(Conns)
=============================================================================
