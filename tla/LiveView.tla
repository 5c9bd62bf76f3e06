------------------------------ MODULE LiveView ------------------------------
(***************************************************************************)
(* What a subscriber of the bridge is promised, seen from the outside:     *)
(* every cell (the primary attribute of an endpoint) has a value that may  *)
(* change at any time, and a value last shown to the subscriber.  The only *)
(* thing that ever happens to the shown value is that it becomes the value *)
(* of that moment, and a cell that stays out of date is refreshed.         *)
(***************************************************************************)
CONSTANTS Cells, Values

VARIABLES value, shown

vars == <<value, shown>>

Init == /\ value \in [Cells -> Values]
        /\ shown = value

Change == /\ value' \in [Cells -> Values]
          /\ UNCHANGED shown

Refresh(c) == /\ shown[c] # value[c]
              /\ shown' = [shown EXCEPT ![c] = value[c]]
              /\ UNCHANGED value

Next == Change \/ \E c \in Cells : Refresh(c)

Spec == Init /\ [][Next]_vars /\ \A c \in Cells : WF_vars(Refresh(c))
=============================================================================
