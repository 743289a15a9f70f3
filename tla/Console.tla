------------------------------- MODULE Console ------------------------------
(* The parts of the director that keep state of their own, side by side: tenants *)
(* and logins, capture policies, two-factor enrolment, signing in, CRM           *)
(* enrichment, the query audit, the runtime settings, export jobs, the           *)
(* dashboard's cache and its rollup.  They share tables by columns that the      *)
(* others do not write, so a behaviour follows one part while the others rest,   *)
(* and the state space is the sum of theirs.                                     *)
EXTENDS Accounts, Policies, TwoFactor, Login, CRM, AuditChain, Settings, Exports, Rollup, Dashboard

consoleVars ==
  <<accVars, polVars, tfVars, loginVars, crmVars, auditVars, setVars, expVars, rollVars, dashVars, part>>

Init ==
  /\ part \in {"accounts", "policies", "twofactor", "login", "crm", "audit", "settings", "exports", "rollup",
            "dashboard"}
  /\ AccInit /\ PolInit /\ TFInit /\ LoginInit /\ CRMInit /\ AuditInit /\ SetInit /\ ExpInit /\ RollInit
  /\ DashInit
  /\ part # "policies" => gateway   \* how the console is deployed matters to these two,
  /\ part # "settings" => ~direct
  /\ part # "exports" => hot = {}   \* what is stored to this one

Next ==
  /\ UNCHANGED part
  /\ \/ /\ part = "accounts" /\ AccNext
        /\ UNCHANGED <<polVars, tfVars, loginVars, crmVars, auditVars, setVars, expVars, rollVars, dashVars>>
     \/ /\ part = "policies" /\ PolNext
        /\ UNCHANGED <<accVars, tfVars, loginVars, crmVars, auditVars, setVars, expVars, rollVars, dashVars>>
     \/ /\ part = "twofactor" /\ TFNext
        /\ UNCHANGED <<accVars, polVars, loginVars, crmVars, auditVars, setVars, expVars, rollVars, dashVars>>
     \/ /\ part = "login" /\ LoginNext
        /\ UNCHANGED <<accVars, polVars, tfVars, crmVars, auditVars, setVars, expVars, rollVars, dashVars>>
     \/ /\ part = "crm" /\ CRMNext
        /\ UNCHANGED <<accVars, polVars, tfVars, loginVars, auditVars, setVars, expVars, rollVars, dashVars>>
     \/ /\ part = "audit" /\ AuditNext
        /\ UNCHANGED <<accVars, polVars, tfVars, loginVars, crmVars, setVars, expVars, rollVars, dashVars>>
     \/ /\ part = "settings" /\ SetNext
        /\ UNCHANGED <<accVars, polVars, tfVars, loginVars, crmVars, auditVars, expVars, rollVars, dashVars>>
     \/ /\ part = "exports" /\ ExpNext
        /\ UNCHANGED <<accVars, polVars, tfVars, loginVars, crmVars, auditVars, setVars, rollVars, dashVars>>
     \/ /\ part = "rollup" /\ RollNext
        /\ UNCHANGED <<accVars, polVars, tfVars, loginVars, crmVars, auditVars, setVars, expVars, dashVars>>
     \/ /\ part = "dashboard" /\ DashNext
        /\ UNCHANGED <<accVars, polVars, tfVars, loginVars, crmVars, auditVars, setVars, expVars, rollVars>>

TypeOK ==
  /\ AccTypeOK /\ PolTypeOK /\ TFTypeOK /\ LoginTypeOK /\ CRMTypeOK /\ AuditTypeOK /\ SetTypeOK
  /\ ExpTypeOK /\ RollTypeOK /\ DashTypeOK

\* Every part's state is of its type, and policies, devices and tenants fit together
\* (Policies).
ConsoleSound == TypeOK /\ PoliciesSound

Spec == Init /\ [][Next]_consoleVars
=============================================================================
