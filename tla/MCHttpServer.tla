---------------------------- MODULE MCHttpServer ----------------------------
(* HttpServer for TLC: two connections with a request each.                *)
(* Requests: commands with more and with less output than httpdOut takes,  *)
(* SPI transactions with and without bytes, one that is longer than the    *)
(* input buffer, one that leaves no room behind it, a device that is read, *)
(* registers, more than the buffer takes, a write to registers without     *)
(* values, a command of the script and of a browser, a page, an icon and   *)
(* text that is no GET.                                                    *)
EXTENDS HttpServer, TLC
CONSTANTS c1, c2
R(code, len, ans) == [code |-> code, len |-> len, ans |-> ans]
MCRequests ==
  {R(1, 2, 5), R(1, 1, 1), R(2, 3, 0), R(2, 5, 0), R(2, 0, 0), R(3, 4, 2),
   R(16, 8, 0), R(16, 12, 0), R(5, 2, 4), R(6, 1, 12), R(7, 2, 0),
   R(71, 1, 1), R(72, 1, 4), R(73, 1, 1), R(74, 1, 0), R(80, 1, 0)}
=============================================================================
