----------------------------- MODULE Deployment -----------------------------
(***************************************************************************)
(* What every handler of the sustainability part shares: the threads that  *)
(* serve requests and the database behind settings.database_url            *)
(* (core/config.py, db/connection.py), which a process keeps.              *)
(***************************************************************************)
CONSTANTS
  Workers,   \* request threads
  Engines    \* databases to consider, of {"postgresql", "sqlite"}

ASSUME EnginesAssumption == Engines \subseteq {"postgresql", "sqlite"}

VARIABLE engine
=============================================================================
