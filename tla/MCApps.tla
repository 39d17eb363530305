------------------------------- MODULE MCApps -------------------------------
(* TLC instance of AppTransaction: one installation, and Ctrl-C. *)
EXTENDS AppTransaction

MCCommands == [add |-> [kind |-> "install", package |-> "x", path |-> "p"],
               turn |-> [kind |-> "disable", package |-> "x", path |-> "-"]]
MCOwner == [p |-> "o"]
=============================================================================
