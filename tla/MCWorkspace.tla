---------------------------- MODULE MCWorkspace ----------------------------
(* Two sites, a controller that may be added and removed, an edit.         *)
EXTENDS Workspace, TLC

CONSTANTS c1

MCHome == c1 :> NoSite
=============================================================================
