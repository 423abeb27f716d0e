---------------------------- MODULE MCInputPath ----------------------------
(***************************************************************************)
(* The input path for TLC, and what the PS/2 drivers make of the bytes     *)
(* they read; TLC evaluates the assumptions before it runs the model.      *)
(***************************************************************************)
EXTENDS InputPath

D == INSTANCE Ps2

\* Keys are up or down as they are on the desk, and shifted as the flags say.
ASSUME KeysAreKnown == D!KeyboardAgrees({"leftShift", "rightShift", "caps", "a"}, 4)
\* A movement is reported as it was made, as long as no byte of it is lost.
ASSUME MovesAreReported == D!MouseAgrees({<<0, 0, 0, 1>>, <<-1, 255, 0, 0>>, <<100, -256, -1, 7>>}, <<0, 0, 50, 40>>)
=============================================================================
