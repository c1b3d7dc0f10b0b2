------------------------------ MODULE MCServer ------------------------------
(***************************************************************************)
(* An instance of Server for TLC.                                          *)
(***************************************************************************)
EXTENDS ServerProperties

Ask(origin, preflight, path, soak) ==
  [origin |-> origin, preflight |-> preflight, path |-> path, soak |-> soak]

(* A tool call of a program, one of a page with the soak token, a look at  *)
(* the metrics without the token, two preflights, and a foreign page.      *)
SomeKinds ==
  {Ask("none", FALSE, "mcp", FALSE), Ask("allowed", FALSE, "mcp", TRUE),
   Ask("none", FALSE, "metrics", FALSE), Ask("allowed", TRUE, "mcp", FALSE),
   Ask("foreign", TRUE, "mcp", FALSE), Ask("foreign", FALSE, "mcp", FALSE)}
=============================================================================
