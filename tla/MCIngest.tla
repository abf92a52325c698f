------------------------------ MODULE MCIngest ------------------------------
(***************************************************************************)
(* Two access points and the kinds of lines they send.                     *)
(***************************************************************************)
EXTENDS IngestProperties

Line(host, says, freq, chan) == [host |-> host, says |-> says, freq |-> freq, chan |-> chan]

\* hostapd gives a frequency, the controller's own log a channel, some lines
\* neither or both; one line about a switch is really about radar.
LogLines ==
  {Line("ap1", {"radar", "switch"}, 5180, NoChan), Line("ap1", {"switch"}, 5180, 40),
   Line("ap1", {"done"}, 5180, NoChan), Line("ap2", {"start", "done"}, 2437, NoChan),
   Line("unknown", {"radar"}, 0, NoChan)}

\* One clock is ahead of UTC, one is behind.
Clocks == [h \in Hosts |-> IF h = "ap1" THEN 1 ELSE IF h = "ap2" THEN -1 ELSE 0]
=============================================================================
