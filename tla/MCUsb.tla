------------------------------- MODULE MCUsb -------------------------------
(***************************************************************************)
(* Boards for the model checker: the stick after something that may be     *)
(* left behind, before it, and behind a port with nobody who answers.      *)
(***************************************************************************)
EXTENDS Usb
MCBoards == {<<"keyboard", "disk">>, <<"disk", "card">>, <<"mute", "disk">>, <<"hub", "disk">>}
=============================================================================
