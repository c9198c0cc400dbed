---------------------------- MODULE MCWorkspaces ----------------------------
(* An instance of Workspaces: two roots, a client with the default name    *)
(* and a named one.                                                        *)
EXTENDS Workspaces

MCTarget == [root |-> "home", entity |-> "probe"]
MCClientNames == {"client", "probe"}
=============================================================================
