--------------------------- MODULE MCPicocScript ---------------------------
(* PicocScript for TLC, beside a shell that prints.                        *)
EXTENDS PicocScript

MCTasks == {"HTTP"}
MCLines == [HTTP |-> {"print"}]
=============================================================================
