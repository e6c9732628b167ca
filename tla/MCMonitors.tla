---------------------------- MODULE MCMonitors ----------------------------
(* Displays for the runs of Monitors: one display, two, two with the roles  *)
(* exchanged, two that mirror each other, one with a wider taskbar, none.   *)
EXTENDS Monitors

CONSTANTS left, right, w1, w2

Monitor(h, id, area, pos, size, primary) ==
  [handle |-> h, id |-> id, area |-> area, primary |-> primary,
   work |-> [pos |-> pos, size |-> size]]

Single    == <<Monitor(left, 1, "origin", 0, 10, TRUE)>>
Taskbar   == <<Monitor(left, 1, "origin", 2, 8, TRUE)>>
Extended  == <<Monitor(left, 1, "origin", 0, 10, TRUE), Monitor(right, 2, "beside", 10, 7, FALSE)>>
Exchanged == <<Monitor(right, 2, "origin", 0, 7, TRUE), Monitor(left, 1, "before", -10, 10, FALSE)>>
Mirrored  == <<Monitor(left, 1, "origin", 0, 10, TRUE), Monitor(right, 2, "origin", 0, 10, FALSE)>>

AllLayouts == {Single, Taskbar, Extended, Exchanged, Mirrored, <<>>}
Margins == [w \in Windows |-> IF w = w1 THEN [pos |-> 1, size |-> 2] ELSE [pos |-> 0, size |-> 0]]
NearTheEnd == {[pos |-> 80, size |-> 35]}

=============================================================================
