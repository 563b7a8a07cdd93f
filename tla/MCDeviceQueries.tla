---- MODULE MCDeviceQueries ----
(* DeviceQueries for model checking: card 1 with two rawmidi devices, a     *)
(* hwdep device, and card 10, whose number starts with that of card 1.      *)
EXTENDS DeviceQueries

Dev(kind, card, dev) == [kind |-> kind, card |-> card, dev |-> dev]

MCDevices ==
  {Dev("card", 1, 0), Dev("card", 10, 0), Dev("control", 1, 0), Dev("midi", 1, 0),
   Dev("midi", 1, 1), Dev("midi", 10, 0), Dev("hw", 1, 0), Dev("timer", 0, 0), Dev("seq", 0, 0)}

MCFds == 0..2
====
