------------------------------ MODULE MCDesktop ------------------------------
(***************************************************************************)
(* The desktop for TLC, with the functions that draw it and lay it out     *)
(* compared with their references before.                                  *)
(***************************************************************************)
EXTENDS DesktopScreen, MCGraphics
=============================================================================
