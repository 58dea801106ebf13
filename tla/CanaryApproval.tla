--------------------------- MODULE CanaryApproval ---------------------------
(***************************************************************************)
(* The documents a real canary needs (src/src/m05f, src/src/m05d2/         *)
(* approval.ts): an audit of the provider's packages, a plan, a request for*)
(* authorization and a person's approval.  Each names the ones before it by*)
(* their hash, so a document here holds the documents it names: a document *)
(* is what its hash says, and changing one makes it another.               *)
(*                                                                         *)
(* A workspace is what package.json, the lockfile and the installed        *)
(* provider show: the lockfile, and the contracts that do not hold.        *)
(***************************************************************************)
EXTENDS Naturals

Contract == {"provider_plugin", "provider_route", "model_catalog", "credential_reference",
             "isolated_profile", "zero_retry_path", "max_output_cap"}

Refused == [status |-> "refused"]

(* createProviderCompatibilityAudit                                        *)
AuditOf(workspace) ==
    [status   |-> "audit", lock |-> workspace.lock, failing |-> workspace.failing,
     decision |-> IF workspace.failing = {} THEN "compatible" ELSE "blocked"]

ValidAudit(a) ==
    /\ a.status = "audit" /\ a.failing \subseteq Contract
    /\ a.decision = IF a.failing = {} THEN "compatible" ELSE "blocked"

(* What the isolated dry run observed (see DryRun).                        *)
DryRunHolds(d, model) ==
    /\ d.streams = 1 /\ d.resolves = 0 /\ d.network = 0 /\ d.clean
    /\ d.model = model

(* createRealCanaryPlanInternal.  world: the fixtures and the offline plan *)
(* on disk.                                                                *)
PlanOf(a, d, world, model) ==
    IF ~ValidAudit(a) \/ a.decision # "compatible" \/ ~DryRunHolds(d, model) THEN Refused
    ELSE [status |-> "dry_run_validated", audit |-> a, world |-> world, model |-> model]

ValidPlan(p) == p.status \in {"dry_run_validated", "blocked"}

(* createRealCanaryAuthorizationRequestInternal                            *)
RequestOf(p, a, world, model, window, now) ==
    IF /\ p.status = "dry_run_validated" /\ ValidAudit(a) /\ a.decision = "compatible"
       /\ p.audit = a /\ p.world = world /\ p.model = model
       /\ window.created <= now /\ now < window.expires
    THEN [status |-> "pending_user_approval", audit |-> a, plan |-> p, world |-> world,
          model |-> model, created |-> window.created, expires |-> window.expires]
    ELSE Refused

ValidRequest(r) == r.status = "pending_user_approval" /\ r.created < r.expires

Gate(workspace, d, world, model, window, now) ==
    LET a == AuditOf(workspace)
        p == PlanOf(a, d, world, model)
    IN [audit |-> a, plan |-> p, request |-> RequestOf(p, a, world, model, window, now)]

(* createRealCanaryApprovalReceipt: a decision within the request's time,  *)
(* for one persistence root; it copies what is accepted.                   *)
ApprovalOf(r, decision, decided, root) ==
    IF ~ValidRequest(r) \/ decided < r.created \/ decided >= r.expires THEN Refused
    ELSE [status |-> "approval", request |-> r, decision |-> decision, decided |-> decided,
          root |-> root, model |-> r.model]

ValidApproval(p) == p.status = "approval" /\ p.decision \in {"approved", "rejected"}

(* validateApprovalAuthorizationBinding                                    *)
Binds(p, r, now) ==
    /\ ValidApproval(p) /\ ValidRequest(r)
    /\ p.request = r /\ p.decision = "approved" /\ p.model = r.model
    /\ r.created <= p.decided /\ p.decided < r.expires
    /\ p.decided <= now /\ now < r.expires

(* validateExecutionWorld: the documents agree with each other and with    *)
(* what is rebuilt from the disk at the time of the execution.             *)
WorldHolds(w) ==
    /\ ValidAudit(w.audit) /\ ValidPlan(w.plan) /\ ValidRequest(w.request)
    /\ w.audit.decision = "compatible" /\ w.audit = AuditOf(w.workspace)
    /\ w.plan.status = "dry_run_validated"
    /\ w.plan.audit = w.audit /\ w.plan.world = w.world
    /\ w.request.audit = w.audit /\ w.request.plan = w.plan /\ w.request.world = w.world
    /\ w.request.model = w.plan.model
    /\ Binds(w.approval, w.request, w.now)
    /\ w.approval.root = w.root

(* Mutant of ExecutionId: the time of the claim is a part of it.           *)
ExecutionIdAt(w) == <<w.request, w.approval, w.approval.root, w.now>>

(* computeExecutionId: one execution of an approval, whenever it is tried. *)
ExecutionId(w) == <<w.request, w.approval, w.approval.root>>
=============================================================================
