------------------------------- MODULE MCLogger -------------------------------
(* Instances of Logger for TLC: the main thread and one it creates. *)
EXTENDS Logger

SomeLevels == {LOG.warning}
===============================================================================
