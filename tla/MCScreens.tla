------------------------------ MODULE MCScreens ------------------------------
(* The TUI: what follows the running entry, and the History pane.  A         *)
(* behaviour moves one of the two.                                           *)
EXTENDS TuiFollow, HistoryPane

VARIABLE part

ScreensInit == part \in {"follow", "history"} /\ FollowInit /\ PaneInit

ScreensNext ==
    /\ UNCHANGED part
    /\ \/ part = "follow" /\ FollowNext /\ UNCHANGED paneVars
       \/ part = "history" /\ PaneNext /\ UNCHANGED followVars

ScreensSpec == ScreensInit /\ [][ScreensNext]_<<part, followVars, paneVars>>
=============================================================================
