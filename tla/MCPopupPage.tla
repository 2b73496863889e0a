---------------------------- MODULE MCPopupPage ----------------------------
(* An instance of PopupPage for TLC, whose cfg gives all its constants. *)
EXTENDS PopupPage
=============================================================================
