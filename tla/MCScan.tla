------------------------------- MODULE MCScan -------------------------------
(* Scan on a small instance.                                               *)
EXTENDS Scan

\* A shift ends while a scan throws; the network fails; a scan throws, or the
\* ticket is refunded, and the device fails to write it down; a scan outlives
\* its claim; the app dies.
Plans == {{"sign-out", "throw"}, {"net"}, {"throw", "disk"}, {"void", "disk"},
          {"slow"}, {"app"}}
Calm == {{}}
=============================================================================
