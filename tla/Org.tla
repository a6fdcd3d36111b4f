---------------------------------- MODULE Org ----------------------------------
(***************************************************************************)
(* The organisation blueprint and its delegations: the second half of      *)
(* routes/org.ts.  Every change appends a version to org-blueprint/<ws>    *)
(* (the last KeepVersions stay); delegations are a store of their own.     *)
(* Ids may be chosen by the caller.                                        *)
(***************************************************************************)
EXTENDS Integers, Sequences, FiniteSets, SequencesExt, Durable

CONSTANTS OrgDomains,       \* normalised domains
          OB_REQUIRED_DOMAINS,
          StoredChairs,     \* chairs the agent_blueprint has when the organisation is set up, a sequence
          UnitIds,          \* ids a caller gives a department or a team
          KeepVersions,     \* 50
          MaxOrgChanges, MaxOrgCrashes  \* bounds

ASSUME OrgAssumption ==
    /\ OB_REQUIRED_DOMAINS \subseteq OrgDomains /\ IsFiniteSet(OB_REQUIRED_DOMAINS)
    /\ StoredChairs \in Seq([id : {StoredChairs[i].id : i \in DOMAIN StoredChairs}, domain : OrgDomains])
    /\ KeepVersions \in Nat \ {0}
    /\ {MaxOrgChanges, MaxOrgCrashes} \subseteq Nat

VARIABLES orgVersions,   \* org-blueprint/<ws>, oldest first
          delegations,   \* org-delegations/<ws>, newest first; `none` before the bootstrap
          orgEvents,     \* org_activated events
          delegated,     \* ids of the units delegations put into a version
          orgChanges, orgCrashes

orgVars == <<orgVersions, delegations, orgEvents, delegated, orgChanges, orgCrashes>>

OrgStatus == {"active", "paused", "retired"}

OrgInit ==
    /\ orgVersions = <<>>
    /\ delegations = [ready |-> FALSE, requests |-> <<>>]
    /\ orgEvents = 0 /\ orgChanges = 0 /\ orgCrashes = 0
    /\ delegated = {}

-----------------------------------------------------------------------------
ObLatest == orgVersions[Len(orgVersions)]
HasBlueprint == orgVersions # <<>>

(* Mutant: what is on file is cut before the new version is added. *)
CutFirst(blueprint) ==
    Append(IF Len(orgVersions) > KeepVersions THEN Tail(orgVersions) ELSE orgVersions, blueprint)

(* The last KeepVersions versions stay. *)
ObPersist(blueprint) ==
    LET all == Append(orgVersions, blueprint)
    IN  IF Len(all) > KeepVersions THEN Tail(all) ELSE all

ById(units, id) == {i \in DOMAIN units : units[i].id = id}
Ids(units) == {units[i].id : i \in DOMAIN units}

(* obToChairId: <domain>-chair, or the first free number behind it. *)
ObToChairId(domain, ids) ==
    LET free == {n \in 1..(Cardinality(ids) + 1) : <<domain, n>> \notin ids}
    IN  <<domain, CHOOSE n \in free : \A m \in free : n <= m>>

NewChair(id, domain, status) == [id |-> id, domain |-> domain, status |-> status]

(* obReconcileRequiredChairs: every required domain has a chair and all of *)
(* its chairs are active.                                                  *)
ObReconcile(blueprint) ==
    LET chairs == [i \in DOMAIN blueprint.chairs |->
                     IF blueprint.chairs[i].domain \in OB_REQUIRED_DOMAINS
                     THEN [blueprint.chairs[i] EXCEPT !.status = "active"] ELSE blueprint.chairs[i]]
        missing == OB_REQUIRED_DOMAINS \ {chairs[i].domain : i \in DOMAIN chairs}
        added == SetToSeq({NewChair(ObToChairId(d, Ids(chairs)), d, "active") : d \in missing})
    IN  [blueprint EXCEPT !.chairs = chairs \o added]

(* obBuildDefaultOrgBlueprint: a chair and a department per domain of the  *)
(* stored chairs, a team per stored chair; an ops chair if there is none.  *)
ObDefault ==
    LET domains == {StoredChairs[i].domain : i \in DOMAIN StoredChairs}
        members(d) == {StoredChairs[i].id : i \in {j \in DOMAIN StoredChairs : StoredChairs[j].domain = d}}
        chairs == SetToSeq({NewChair(<<d, 1>>, d, "active") : d \in domains})
    IN  [chairs |-> IF chairs = <<>> THEN <<NewChair(<<"ops", 1>>, "ops", "active")>> ELSE chairs,
         departments |-> SetToSeq({[id |-> d, chair |-> <<d, 1>>, status |-> "active", teams |-> members(d)] :
                                     d \in domains}),
         teams |-> [i \in DOMAIN StoredChairs |->
                      [id |-> StoredChairs[i].id, dept |-> StoredChairs[i].domain,
                       chair |-> <<StoredChairs[i].domain, 1>>, status |-> "active"]],
         autoApprove |-> FALSE]

OrgChange == orgChanges < MaxOrgChanges /\ orgChanges' = orgChanges + 1

OrgMayDie(cut) ==
    /\ cut => orgCrashes < MaxOrgCrashes
    /\ orgCrashes' = IF cut THEN orgCrashes + 1 ELSE orgCrashes

(* POST /bootstrap: the version, the queue of delegations if there is none,*)
(* the event.                                                              *)
Bootstrap(done) ==
    /\ OrgChange
    /\ OrgMayDie(done < 3)
    /\ orgVersions' = writeJsonAtomic(done, 1,
          ObPersist(ObReconcile(IF HasBlueprint THEN ObLatest ELSE ObDefault)), orgVersions)
    /\ delegations' = writeJsonAtomic(done, 2, [delegations EXCEPT !.ready = TRUE], delegations)
    /\ orgEvents' = writeJsonAtomic(done, 3, orgEvents + 1, orgEvents)
    /\ UNCHANGED delegated

(* A route that makes one version of the latest and nothing else. *)
Revise(blueprint) ==
    /\ OrgChange
    /\ orgVersions' = ObPersist(blueprint)
    /\ UNCHANGED <<delegations, orgEvents, delegated, orgCrashes>>

AddChair(id, domain, status) ==
    HasBlueprint /\ Revise([ObLatest EXCEPT !.chairs = Append(@, NewChair(id, domain, status))])

(* PATCH of the fields a body has; the status route asks for no chair. *)
PatchChair(id, patch) ==
    /\ HasBlueprint
    /\ DOMAIN patch = {"status"} \/ ById(ObLatest.chairs, id) # {}
    /\ \E chairs \in {[i \in DOMAIN ObLatest.chairs |->
                         IF ObLatest.chairs[i].id = id
                         THEN [f \in DOMAIN ObLatest.chairs[i] |->
                                 IF f \in DOMAIN patch THEN patch[f] ELSE ObLatest.chairs[i][f]]
                         ELSE ObLatest.chairs[i]]} :
         Revise([ObLatest EXCEPT !.chairs = chairs])

Depts(blueprint, id) == {blueprint.departments[i].id : i \in {j \in DOMAIN blueprint.departments :
                                                               blueprint.departments[j].chair = id}}

UnderChair(blueprint, id, team) == team.chair = id \/ team.dept \in Depts(blueprint, id)

(* Mutant: the departments of the chair are looked for, its teams are not. *)
LinkedDepartments(blueprint, id) == Depts(blueprint, id) # {}

LinkedUnits(blueprint, id) ==
    \/ Depts(blueprint, id) # {}
    \/ \E i \in DOMAIN blueprint.teams : UnderChair(blueprint, id, blueprint.teams[i])

(* DELETE /chairs/:chairId: never the last one, and with linked units only *)
(* when they go too.                                                       *)
DeleteChair(id, cascade) ==
    LET b == ObLatest
    IN  /\ HasBlueprint
        /\ ById(b.chairs, id) # {}
        /\ Len(b.chairs) > 1
        /\ cascade \/ ~LinkedUnits(b, id)
        /\ Revise([chairs |-> Kept(b.chairs, DOMAIN b.chairs \ ById(b.chairs, id)),
                   departments |-> IF cascade THEN Kept(b.departments, {i \in DOMAIN b.departments :
                                                                          b.departments[i].chair # id})
                                   ELSE b.departments,
                   teams |-> IF cascade THEN Kept(b.teams, {i \in DOMAIN b.teams :
                                                              ~UnderChair(b, id, b.teams[i])})
                             ELSE b.teams,
                   autoApprove |-> b.autoApprove])

NewDepartment(id, chair) == [id |-> id, chair |-> chair, status |-> "active", teams |-> {}]

WithTeam(blueprint, id, dept, chair) ==
    [chairs |-> blueprint.chairs,
     departments |-> [i \in DOMAIN blueprint.departments |->
        IF blueprint.departments[i].id = dept
        THEN [blueprint.departments[i] EXCEPT !.teams = @ \cup {id}] ELSE blueprint.departments[i]],
     teams |-> Append(blueprint.teams, [id |-> id, dept |-> dept, chair |-> chair, status |-> "active"]),
     autoApprove |-> blueprint.autoApprove]

AddDepartment(id, chair) ==
    /\ HasBlueprint
    /\ ById(ObLatest.chairs, chair) # {}
    /\ Revise([ObLatest EXCEPT !.departments = Append(@, NewDepartment(id, chair))])

AddTeam(id, dept, chair) ==
    /\ HasBlueprint
    /\ ById(ObLatest.chairs, chair) # {} /\ ById(ObLatest.departments, dept) # {}
    /\ Revise(WithTeam(ObLatest, id, dept, chair))

(* PATCH /departments/:id/status and /teams/:id/status *)
UnitStatus(units, id, status) ==
    [i \in DOMAIN units |-> IF units[i].id = id THEN [units[i] EXCEPT !.status = status] ELSE units[i]]

SetUnitStatus(id, status) ==
    /\ HasBlueprint
    /\ \/ /\ ById(ObLatest.departments, id) # {}
          /\ Revise([ObLatest EXCEPT !.departments = UnitStatus(@, id, status)])
       \/ /\ ById(ObLatest.teams, id) # {}
          /\ Revise([ObLatest EXCEPT !.teams = UnitStatus(@, id, status)])

(* POST /policies/scopes: of the scopes only the global one's permission   *)
(* to approve delegations at once matters here.                            *)
SetScopes(auto) == HasBlueprint /\ Revise([ObLatest EXCEPT !.autoApprove = auto])

-----------------------------------------------------------------------------
(* obApplyApprovedDelegation: it looks for neither the chair nor the       *)
(* department the request was made for.                                    *)
ObApply(blueprint, request) ==
    IF request.target = "department"
    THEN [blueprint EXCEPT !.departments = Append(@, NewDepartment(request.unit, request.chair))]
    ELSE WithTeam(blueprint, request.unit, request.dept, request.chair)

(* The blueprint first, then the queue. *)
PersistApproval(done, blueprint, requests, unit) ==
    /\ orgVersions' = writeJsonAtomic(done, 1, ObPersist(blueprint), orgVersions)
    /\ delegations' = writeJsonAtomic(done, 2, [delegations EXCEPT !.requests = requests], delegations)
    /\ delegated' = writeJsonAtomic(done, 1, delegated \cup {unit}, delegated)

(* POST /delegations: pending, or approved at once where the global scope  *)
(* allows it and the caller did not ask for a person.                      *)
Delegate(request, manualOnly, done) ==
    /\ HasBlueprint
    /\ OrgChange
    /\ ById(ObLatest.chairs, request.chair) # {}
    /\ IF ObLatest.autoApprove /\ ~manualOnly
       THEN /\ OrgMayDie(done < 2)
            /\ PersistApproval(done, ObApply(ObLatest, request),
                               <<[request EXCEPT !.status = "approved"]>> \o delegations.requests, request.unit)
       ELSE /\ done = 2
            /\ delegations' = [ready |-> TRUE, requests |-> <<request>> \o delegations.requests]
            /\ UNCHANGED <<orgVersions, delegated, orgCrashes>>
    /\ UNCHANGED orgEvents

(* POST /delegations/:id/approve: only what is pending. *)
ApproveDelegation(i, done) ==
    /\ HasBlueprint /\ delegations.ready
    /\ OrgChange
    /\ delegations.requests[i].status = "pending"
    /\ OrgMayDie(done < 2)
    /\ PersistApproval(done, ObApply(ObLatest, delegations.requests[i]),
                       [delegations.requests EXCEPT ![i].status = "approved"], delegations.requests[i].unit)
    /\ UNCHANGED orgEvents

(* POST /delegations/:id/reject: whatever its status. *)
RejectDelegation(i) ==
    /\ delegations.ready
    /\ OrgChange
    /\ delegations' = [delegations EXCEPT !.requests[i].status = "rejected"]
    /\ UNCHANGED <<orgVersions, orgEvents, delegated, orgCrashes>>

(* POST /blueprint/rollback: a version of the list is appended again. *)
Rollback(version) == Revise(orgVersions[version])

ChairIds == {<<d, n>> : d \in OrgDomains, n \in 1..2}
KnownUnits == UnitIds \cup OrgDomains \cup {StoredChairs[i].id : i \in DOMAIN StoredChairs}

Requests(status) ==
    [target : {"department"}, status : {status}, chair : ChairIds, dept : {"none"}, unit : UnitIds]
    \cup [target : {"team"}, status : {status}, chair : ChairIds, dept : OrgDomains, unit : UnitIds]

OrgNext ==
    \/ \E done \in 0..3 : Bootstrap(done)
    \/ \E id \in ChairIds :
         \/ \E status \in {"active", "paused"} : AddChair(id, id[1], status)
         \/ \E patch \in [{"status"} -> {"active", "retired"}] \cup [{"domain"} -> OrgDomains] :
              PatchChair(id, patch)
         \/ \E cascade \in BOOLEAN : DeleteChair(id, cascade)
         \/ \E unit \in UnitIds : AddDepartment(unit, id)
         \/ \E unit \in UnitIds, dept \in OrgDomains \cup UnitIds : AddTeam(unit, dept, id)
    \/ \E unit \in KnownUnits : SetUnitStatus(unit, "paused")
    \/ \E auto \in BOOLEAN : SetScopes(auto)
    \/ \E request \in Requests("pending"), manualOnly \in BOOLEAN, done \in 0..2 :
         Delegate(request, manualOnly, done)
    \/ \E i \in DOMAIN delegations.requests :
         \/ \E done \in 0..2 : ApproveDelegation(i, done)
         \/ RejectDelegation(i)
    \/ \E version \in DOMAIN orgVersions : Rollback(version)

OrgSpec == OrgInit /\ [][OrgNext]_orgVars

-----------------------------------------------------------------------------
OrgTypeOK ==
    /\ Len(orgVersions) <= KeepVersions
    /\ \A v \in DOMAIN orgVersions :
        /\ \A i \in DOMAIN orgVersions[v].chairs : orgVersions[v].chairs[i].status \in OrgStatus
        /\ \A i \in DOMAIN orgVersions[v].departments :
             orgVersions[v].departments[i].teams \subseteq KnownUnits
    /\ \A i \in DOMAIN delegations.requests :
         delegations.requests[i].status \in {"pending", "approved", "rejected"}
    /\ orgChanges \in 0..MaxOrgChanges

(* An approved delegation is in force: its unit reached the blueprint,     *)
(* even if the process died while it was approved.                         *)
ApprovedIsApplied ==
    \A i \in DOMAIN delegations.requests :
        delegations.requests[i].status = "approved" => delegations.requests[i].unit \in delegated

(* A unit whose chair the blueprint does not have came from a delegation:  *)
(* no other sequence of changes, deletions and rollbacks leaves orphans.   *)
OrphansWereDelegated ==
    \A v \in DOMAIN orgVersions :
        LET b == orgVersions[v]
        IN  \A unit \in {<<b.departments[i].id, b.departments[i].chair>> : i \in DOMAIN b.departments}
                     \cup {<<b.teams[i].id, b.teams[i].chair>> : i \in DOMAIN b.teams} :
              unit[2] \in Ids(b.chairs) \/ unit[1] \in delegated
=============================================================================
