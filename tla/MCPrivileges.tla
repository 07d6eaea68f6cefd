---------------------------- MODULE MCPrivileges ----------------------------
(* Small instances of Privileges for TLC.  The jobs are those PrepareAdjust  *)
(* builds: renice with $SUDO always comes first, behind the test that sets   *)
(* SUDO; then a utility without privileges (choom) and, last, the commands   *)
(* for systemd, with $SUDO outside the slice of the user.                    *)
EXTENDS Privileges

Test == [util |-> FALSE, sudo |-> FALSE, skip |-> TRUE]
Renice == [util |-> TRUE, sudo |-> TRUE, skip |-> FALSE]
Choom == [util |-> TRUE, sudo |-> FALSE, skip |-> FALSE]
OwnSlice == [util |-> FALSE, sudo |-> FALSE, skip |-> FALSE]
ForeignSlice == [util |-> FALSE, sudo |-> TRUE, skip |-> FALSE]

MCJobs ==
  {<<Test, Renice>>, <<Test, Renice, OwnSlice>>,
   <<Test, Renice, Choom, ForeignSlice, ForeignSlice>>}
=============================================================================
