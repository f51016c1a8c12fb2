-------------------------- MODULE MCGpioInterrupt --------------------------
(* GpioInterrupt for TLC: texts of one, two and three commands, that fit   *)
(* in the buffer of four words and an end, exactly fit, and are cut; two   *)
(* of them configure the interrupt they run in.                            *)
EXTENDS GpioInterrupt

MCWords == {"a", "b", "on", "off", Separator, NUL}
MCTexts == {<<"a">>, <<"b", ";", "off">>, <<"off", ";", "on", ";", "a">>}
=============================================================================
