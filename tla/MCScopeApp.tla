------------------------------ MODULE MCScopeApp ------------------------------
(***************************************************************************)
(* Two units with serial numbers, one of them found at two ports and the   *)
(* other at one of these; a third without a serial number; a source that   *)
(* is always there, of another driver; a bench instrument that has its own *)
(* setup and no waveform; and a capture file.                              *)
(***************************************************************************)
EXTENDS ScopeApp

Unit(u, s, p) == [driver |-> "hantek", unit |-> u, serial |-> s, port |-> p, usb |-> TRUE,
                  acquires |-> TRUE, owns |-> FALSE]
Here == Unit(1, "s1", "p1")
Moved == Unit(1, "s1", "p2")
Other == Unit(2, "s2", "p1")
Mute == Unit(3, "", "p3")
Synthetic == [driver |-> "synthetic", unit |-> 4, serial |-> "", port |-> "", usb |-> FALSE,
              acquires |-> TRUE, owns |-> FALSE]
Bench == [driver |-> "bench", unit |-> 6, serial |-> "", port |-> "", usb |-> FALSE,
          acquires |-> FALSE, owns |-> TRUE]
Capture == [driver |-> "replay", unit |-> 5, serial |-> "", port |-> "", usb |-> FALSE,
            acquires |-> TRUE, owns |-> FALSE]

MCDevices == {Here, Moved, Other, Mute, Synthetic, Bench}
MCBuses == {{}, {Here, Synthetic}, {Moved, Other}, {Other}, {Mute, Synthetic}}
MCOptions == {None, "hantek"}
MCCaptures == {Capture}
==============================================================================
