---------------------------- MODULE DesktopScreen ----------------------------
(***************************************************************************)
(* The desktop from its two sides: its windows as the handlers see them    *)
(* (DesktopUI), and as they get to the screen (Screen).  Both begin with   *)
(* WindowManager's operations, of which handlers change what a window is   *)
(* and compose never does, so that each side is taken with the other one   *)
(* standing still.                                                         *)
(***************************************************************************)
EXTENDS DesktopUI

CONSTANTS Width, MaxRects, FifoWords, UpdateWords, CursorWords, MaxOps

VARIABLES side, win, vram, host, fifo, todo, card, mouse, dropped, ops

S == INSTANCE Screen WITH lost <- dropped

pixels == <<win, vram, host, fifo, todo, card, mouse, dropped, ops>>
all == <<side, vars, pixels>>

\* The side that stands still begins in one of its initial states.
MCInit == /\ side \in {"handlers", "pixels"} /\ Init /\ S!Init
          /\ side = "handlers" => ~card.svga
          /\ side = "pixels" => ui.enrolled
MCNext == /\ UNCHANGED side
          /\ \/ side = "handlers" /\ Next /\ UNCHANGED pixels
             \/ side = "pixels" /\ S!Next /\ UNCHANGED vars
MCSpec == /\ MCInit /\ [][MCNext]_all
          /\ WF_all(side = "handlers" /\ Return /\ UNCHANGED <<side, pixels>>)
          /\ WF_all(side = "pixels" /\ (S!Render \/ S!Present) /\ UNCHANGED <<side, vars>>)
          /\ WF_all(side = "pixels" /\ S!Device /\ UNCHANGED <<side, vars>>)

-----------------------------------------------------------------------------
\* See Screen for what the two say.
ScreenExact == S!ScreenExact
CaughtUp == <>[](side = "pixels" => S!Settled)
=============================================================================
