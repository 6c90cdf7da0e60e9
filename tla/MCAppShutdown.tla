---------------------------- MODULE MCAppShutdown ----------------------------
(* Instances of AppShutdown for TLC: it has no constants.                    *)
EXTENDS AppShutdown
==============================================================================
