----------------------- MODULE MCInstallerTransaction -----------------------
(* TLC instance of InstallerTransaction.                                   *)
EXTENDS InstallerTransaction

(* A fresh machine, an upgrade, and a machine with only Blender's files.   *)
MCOriginals == {{}, {"runtime", "extension", "userpref", "codex", "active"}, {"userpref"}}
=============================================================================
