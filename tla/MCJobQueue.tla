---------------------------- MODULE MCJobQueue ----------------------------
(***************************************************************************)
(* Small instances of JobQueue.  Two jobs of different priorities: one     *)
(* like execute_order (runnable at once), one like settle (delayed).       *)
(***************************************************************************)
EXTENDS JobQueue, TLC

CONSTANTS exec, settle

MCMaxAttempts == [j \in Jobs |-> IF j = settle THEN 1 ELSE 2]
MCPriority == [j \in Jobs |-> IF j = settle THEN 0 ELSE 10]

===========================================================================
