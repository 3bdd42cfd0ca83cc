----------------------------- MODULE MCHostBridge -----------------------------
(***************************************************************************)
(* One tool call in each bridged host; every class of payload, every       *)
(* decision, with and without a reason too long to capture.                *)
(***************************************************************************)
EXTENDS HostBridge

Bridged == {"Pi", "OpencodeV1", "OpencodeV2"}
PiOnly == {"Pi"}
MCCalls == {c \in Call : ~c.hit /\ c.heard /\ (c.payload # "ok" => c.loads /\ c.kind = "allow")
                         /\ (~c.loads => c.kind = "allow")}
AllowDeny == {c \in MCCalls : c.payload = "ok" /\ c.loads /\ c.kind \in {"allow", "deny"}}
NoAudit == {[sink |-> "off", includeAllowed |-> FALSE, includeDenied |-> TRUE]}
MCHostCfgs == HostCfg
PlainHost == {[long |-> l, hasUI |-> FALSE, askMode |-> "always-deny"] : l \in BOOLEAN}
=============================================================================
