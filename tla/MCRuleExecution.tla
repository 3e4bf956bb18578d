--------------------------- MODULE MCRuleExecution ---------------------------
(* Small instances of the execution of rules for TLC.                      *)
EXTENDS RuleExecution, TLC
=============================================================================
