---------------------------- MODULE MCXrfSystem ----------------------------
(***************************************************************************)
(* Instances of the composed system for TLC.                               *)
(***************************************************************************)
EXTENDS XrfSystem

\* Every command.
AllCommands == INITIALISE_CMD .. QUIT_CMD

\* Enough to run, pause and stop, and to start again after a pause.
DriveCommands == {INITIALISE_CMD, START_CMD, STOP_CMD, PAUSE_CMD}

\* Enough to run twice over a reset.
ResetCommands == {INITIALISE_CMD, START_CMD, RESET_CMD}

\* Enough to run, and a value that is no command.
LiveValues == {INITIALISE_CMD, START_CMD, 7}
=============================================================================
