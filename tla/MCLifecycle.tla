----------------------------- MODULE MCLifecycle -----------------------------
(* The process with both backends, two or three block events and a channel of one. *)
EXTENDS Lifecycle

AllScripts == {Command, CommandClosingZmq, Restarts}
CommandOnly == {Command}
=============================================================================
