---------------------------- MODULE MCAncillary ----------------------------
(* The integrity checks, the Lite lane and the legacy program, each on its *)
(* own instance: a behaviour is one of its subject, and the others stay in *)
(* their initial states.                                                   *)
EXTENDS IntegrityAudit, LiteLane, LegacyTrader

VARIABLE subject

ancillaryVars == <<auditVars, liteVars, legacyVars, subject>>

MCInit ==
  /\ AuditInit /\ LiteInit /\ LegacyInit
  /\ subject \in {"audit", "lite", "legacy"}

OfAudit(A) ==
  subject = "audit" /\ A /\ UNCHANGED <<liteVars, legacyVars, subject>>
OfLite(A) ==
  subject = "lite" /\ A /\ UNCHANGED <<auditVars, legacyVars, subject>>
OfLegacy(A) ==
  subject = "legacy" /\ A /\ UNCHANGED <<auditVars, liteVars, subject>>

MCNext == OfAudit(AuditNext) \/ OfLite(LiteNext) \/ OfLegacy(LegacyNext)

MCSpec == MCInit /\ [][MCNext]_ancillaryVars
=============================================================================
