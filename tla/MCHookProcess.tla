---------------------------- MODULE MCHookProcess ----------------------------
(***************************************************************************)
(* Every adapter, every class of payload, every decision.                  *)
(***************************************************************************)
EXTENDS HookProcess

MCAgents == AllAgents
MCCalls == Call
MCAuditCfgs == AuditCfg
=============================================================================
