------------------------------ MODULE MCCamera ------------------------------
(* CameraReceiver for TLC: a level with which light frames do not render.  *)
EXTENDS CameraReceiver

CONSTANTS light, bias, plain, endless

MCUnrenderable == {<<light, endless>>}

=============================================================================
