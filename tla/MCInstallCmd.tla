---------------------------- MODULE MCInstallCmd ----------------------------
(* Small instances of InstallCmd for TLC: four names, of which one is linked *)
(* and ignored names and a broken rule come and go; three installs, for one  *)
(* that completes and two that do not.                                       *)
EXTENDS InstallCmd

CONSTANTS firefox, mpv, make, lost

MCRuleSets == {{firefox, mpv, make}, {firefox, mpv}, {mpv, lost}}
=============================================================================
