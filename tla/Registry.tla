------------------------------ MODULE Registry ------------------------------
(***************************************************************************)
(* Contracts, the permissions on their functions and events, and the       *)
(* templates they take permissions from.  A zone operator writes any of    *)
(* them.  An organization's admin writes those of its own contracts, and   *)
(* three flags are not its to set: umbrella, disclosure, and a template    *)
(* that carries an umbrella permission.  Permissions follow the address    *)
(* of their contract, and go with it (ON UPDATE, ON DELETE CASCADE).       *)
(***************************************************************************)
EXTENDS AuditTrail

NotRegistered == [live |-> FALSE, owner |-> Zone, template |-> NoTemplate, disclose |-> FALSE]
OwnerOf(a) == db.contract[a].owner
OwnsContract(o, a) == db.contract[a].live /\ OwnerOf(a) = o

\* assertOrgContractRegisterable: the deployer is the caller or a member.  That there is code
\* at an address, the chain says.
Registerable(u, a, o) ==
    ZoneAdmin(u) \/ DeployerOf[a] = u \/ (db.user[DeployerOf[a]].live /\ db.user[DeployerOf[a]].org = o)

\* assertTemplateHasNoUmbrella
TemplateAllowed(t) == t \notin db.umbrella

\* What an organization's admin was let do to a contract still is its organization's.
StillOwns(q) == q.zone \/ OwnsContract(q.org, q.addr)

\* The permissions on this address are about to be read for an organization.
UnderRead(a) == \E s \in Slots : req[s].kind \in {"readFns", "readEvs"} /\ req[s].addr = a

\* What takes a row away: an operator's route, or the owner's.
Withdraws(u, a, onZone) == IF onZone THEN ZoneAdmin(u) ELSE AdminsOwn(u, OwnerOf(a))

-----------------------------------------------------------------------------
(* Contracts                                                               *)

ContractInserted(q) ==
    IF db.contract[q.addr].live THEN db
    ELSE [db EXCEPT !.contract[q.addr] = [live |-> TRUE, owner |-> q.org, template |-> q.template,
                                          disclose |-> q.disclose]]

\* resolveContractOwnerOrganizationId: an operator names any owner.
OwnerNamed(u) == ZoneAdmin(u) /\ AdminRole \in RolesOf(u)

\* What an organization's admin may register, and that it discloses nothing.
RegistersOwn(u, a, o, t, disclose) == AdminsOwn(u, o) /\ TemplateAllowed(t) /\ Registerable(u, a, o) /\ ~disclose

PostContract(s) ==
    \/ Due(s, "postContract") /\ \E u \in Users, a \in Addrs, o \in Scopes,
            t \in Templates \cup {NoTemplate}, disclose, onZone \in BOOLEAN :
         /\ ~db.contract[a].live
         /\ IF onZone THEN OwnerNamed(u) ELSE RegistersOwn(u, a, o, t, disclose)
         /\ Arrive(s, [kind |-> "postContract", by |-> u, zone |-> ZoneAdmin(u), org |-> o, addr |-> a,
                       template |-> t, disclose |-> disclose])
    \/ LET q == req[s] IN
         /\ Serving(s, "postContract")
         /\ Land(s, {q.addr}, TemplateAllowed(q.template) /\ ~UnderRead(q.addr), ContractInserted(q))

\* Mutant of KeptDisclosure: a rewrite takes the flags along.
CarriedDisclosure(a, b) == db.contract[a].disclose

\* What an organization's edit writes to the disclosure flags: in place what was read, and the
\* defaults on a rewrite, so that an approval does not move to an address the operator never saw.
KeptDisclosure(a, b) == a = b /\ db.contract[a].disclose

\* clearUmbrella, before the rewrite and in a transaction of its own.
ClearUmbrella(a) ==
    [db EXCEPT !.fn = [p \in FnPerms |-> IF @[p].addr = a THEN [@[p] EXCEPT !.umbrella = FALSE] ELSE @[p]]]

\* update: the owner stays, the rows on the address follow it.
Rewritten(q) ==
    LET a == q.addr
        b == q.to
        new == [db.contract[a] EXCEPT !.template = q.template, !.disclose = q.disclose] IN
    IF ~db.contract[a].live \/ (a # b /\ db.contract[b].live) THEN db
    ELSE [db EXCEPT !.contract = [x \in Addrs |-> IF x = b THEN new
                                                  ELSE IF x = a THEN NotRegistered ELSE @[x]],
                    !.fn = [p \in FnPerms |-> IF @[p].live /\ @[p].addr = a THEN [@[p] EXCEPT !.addr = b] ELSE @[p]],
                    !.ev = [p \in EvPerms |-> IF @[p].live /\ @[p].addr = a THEN [@[p] EXCEPT !.addr = b] ELSE @[p]]]

OnAddr(a) == {p \in FnPerms : db.fn[p].live /\ db.fn[p].addr = a}
EventsOn(a) == {p \in EvPerms : db.ev[p].live /\ db.ev[p].addr = a}

\* What an organization's admin may make of its contract.
EditsOwn(u, a, b, t, disclose) ==
    /\ AdminsOwn(u, OwnerOf(a)) /\ TemplateAllowed(t) /\ (a # b => Registerable(u, b, OwnerOf(a)))
    /\ disclose = KeptDisclosure(a, b)

PutContract(s) ==
    \/ Due(s, "putContract") /\ \E u \in Users, a, b \in Addrs,
            t \in Templates \cup {NoTemplate}, disclose, onZone \in BOOLEAN :
         /\ db.contract[a].live
         /\ IF onZone THEN ZoneAdmin(u) ELSE EditsOwn(u, a, b, t, disclose)
         /\ Arrive(s, [kind |-> IF onZone \/ a = b THEN "putContract" ELSE "clearUmbrella", by |-> u,
                       zone |-> ZoneAdmin(u), org |-> OwnerOf(a), addr |-> a, to |-> b,
                       template |-> t, disclose |-> disclose, read |-> db.contract[a].disclose])
    \/ /\ Serving(s, "clearUmbrella")
       /\ db' = ClearUmbrella(req[s].addr)
       /\ req' = [req EXCEPT ![s].kind = "putContract"]
       /\ approved' = approved \cap InForce(db')
       /\ UNCHANGED <<issued, menu, events, trail, raced>>
    \/ LET q == req[s]
           asRead == /\ OwnsContract(q.org, q.addr) /\ TemplateAllowed(q.template)
                     /\ IF q.addr = q.to THEN db.contract[q.addr].disclose = q.read
                        ELSE \A p \in OnAddr(q.addr) : ~db.fn[p].umbrella IN
         /\ Serving(s, "putContract")
         /\ Land(s, {q.addr, q.to} \cup OnAddr(q.addr) \cup EventsOn(q.addr),
                 (q.zone \/ asRead) /\ (q.addr # q.to => ~UnderRead(q.to)), Rewritten(q))

ContractDeleted(a) ==
    [db EXCEPT !.contract[a] = NotRegistered,
               !.fn = [p \in FnPerms |-> IF @[p].addr = a THEN [@[p] EXCEPT !.live = FALSE] ELSE @[p]],
               !.ev = [p \in EvPerms |-> IF @[p].addr = a THEN [@[p] EXCEPT !.live = FALSE] ELSE @[p]]]
DeleteContract(s) ==
    \/ Due(s, "deleteContract") /\ \E u \in Users, a \in Addrs, onZone \in BOOLEAN :
         /\ db.contract[a].live
         /\ Withdraws(u, a, onZone)
         /\ Arrive(s, [kind |-> "deleteContract", by |-> u, zone |-> ZoneAdmin(u), org |-> OwnerOf(a), addr |-> a])
    \/ LET q == req[s] IN
         /\ Serving(s, "deleteContract")
         /\ Land(s, {q.addr} \cup OnAddr(q.addr) \cup EventsOn(q.addr), StillOwns(q), ContractDeleted(q.addr))

-----------------------------------------------------------------------------
(* Permissions                                                             *)

\* assertRolesBelongToOrg
OrgRoles(R, o) == \A r \in R : LiveRole(r) /\ db.role[r].org = o

\* What an operator may name.
ZoneWrites(u, R) == ZoneAdmin(u) /\ AllLive(R)

\* What an organization's admin may name on a, and what is fixed for it.
OrgWrites(u, a, R, orgOnly) == AdminsOwn(u, OwnerOf(a)) /\ OrgRoles(R, OwnerOf(a)) /\ orgOnly

FnInserted(q) ==
    IF db.fn[q.fn].live \/ ~db.contract[q.addr].live \/ ~AllLive(q.roles) THEN db
    ELSE [db EXCEPT !.fn[q.fn] = [live |-> TRUE, addr |-> q.addr, orgOnly |-> q.orgOnly,
                                  umbrella |-> q.umbrella, roles |-> q.roles]]
PostFn(s) ==
    \/ Due(s, "postFn") /\ \E u \in Users, a \in Addrs, p \in FnPerms, R \in RoleSets,
            orgOnly, umbrella, onZone \in BOOLEAN :
         /\ db.contract[a].live /\ ~db.fn[p].live
         /\ IF onZone THEN ZoneWrites(u, R) ELSE OrgWrites(u, a, R, orgOnly) /\ ~umbrella
         /\ Arrive(s, [kind |-> "postFn", by |-> u, zone |-> ZoneAdmin(u), org |-> OwnerOf(a), fn |-> p, addr |-> a,
                       roles |-> R, orgOnly |-> orgOnly, umbrella |-> umbrella])
    \/ LET q == req[s] IN
         /\ Serving(s, "postFn")
         /\ Land(s, {q.fn, q.addr}, StillOwns(q), FnInserted(q))

\* An organization's edit takes the flag from the row it read, never from the body.
KeptUmbrella(p) == db.fn[p].umbrella

\* The row is written where it has this id and this address.
FnUpdated(q) ==
    IF ~db.fn[q.fn].live \/ db.fn[q.fn].addr # q.addr \/ ~AllLive(q.roles) THEN db
    ELSE [db EXCEPT !.fn[q.fn] = [@ EXCEPT !.orgOnly = q.orgOnly, !.umbrella = q.umbrella, !.roles = q.roles]]
PutFn(s) ==
    \/ Due(s, "putFn") /\ \E u \in Users, p \in FnPerms, R \in RoleSets, orgOnly, umbrella, onZone \in BOOLEAN :
         LET a == db.fn[p].addr IN
         /\ db.fn[p].live
         /\ IF onZone THEN ZoneWrites(u, R) ELSE OrgWrites(u, a, R, orgOnly)
         /\ Arrive(s, [kind |-> "putFn", by |-> u, zone |-> ZoneAdmin(u), org |-> OwnerOf(a), fn |-> p, addr |-> a, roles |-> R,
                       orgOnly |-> orgOnly, umbrella |-> IF onZone THEN umbrella ELSE KeptUmbrella(p),
                       read |-> db.fn[p].umbrella])
    \/ LET q == req[s] IN
         /\ Serving(s, "putFn")
         /\ Land(s, {q.fn}, StillOwns(q) /\ (q.zone \/ db.fn[q.fn].umbrella = q.read), FnUpdated(q))

DeleteFn(s) ==
    \/ Due(s, "deleteFn") /\ \E u \in Users, p \in FnPerms, onZone \in BOOLEAN :
         LET a == db.fn[p].addr IN
         /\ db.fn[p].live
         /\ Withdraws(u, a, onZone)
         /\ Arrive(s, [kind |-> "deleteFn", by |-> u, zone |-> ZoneAdmin(u), org |-> OwnerOf(a), fn |-> p, addr |-> a])
    \/ LET q == req[s] IN
         /\ Serving(s, "deleteFn")
         /\ Land(s, {q.fn}, StillOwns(q) /\ (q.zone \/ db.fn[q.fn].addr = q.addr),
                 [db EXCEPT !.fn[q.fn].live = FALSE])

EvInserted(q) ==
    IF db.ev[q.ev].live \/ ~db.contract[q.addr].live \/ ~AllLive(q.roles) THEN db
    ELSE [db EXCEPT !.ev[q.ev] = [live |-> TRUE, addr |-> q.addr, orgOnly |-> q.orgOnly, roles |-> q.roles]]
PostEv(s) ==
    \/ Due(s, "postEv") /\ \E u \in Users, a \in Addrs, p \in EvPerms, R \in RoleSets, orgOnly, onZone \in BOOLEAN :
         /\ db.contract[a].live /\ ~db.ev[p].live
         /\ IF onZone THEN ZoneWrites(u, R) ELSE OrgWrites(u, a, R, orgOnly)
         /\ Arrive(s, [kind |-> "postEv", by |-> u, zone |-> ZoneAdmin(u), org |-> OwnerOf(a), ev |-> p, addr |-> a,
                       roles |-> R, orgOnly |-> orgOnly])
    \/ LET q == req[s] IN
         /\ Serving(s, "postEv")
         /\ Land(s, {q.ev, q.addr}, StillOwns(q), EvInserted(q))

\* updateById writes the address too, and matches by the id alone; the operator's body may move it.
EvUpdated(q) ==
    IF ~db.ev[q.ev].live \/ ~db.contract[q.addr].live \/ ~AllLive(q.roles) THEN db
    ELSE [db EXCEPT !.ev[q.ev] = [live |-> TRUE, addr |-> q.addr, orgOnly |-> q.orgOnly, roles |-> q.roles]]
PutEv(s) ==
    \/ Due(s, "putEv") /\ \E u \in Users, a \in Addrs, p \in EvPerms, R \in RoleSets, orgOnly, onZone \in BOOLEAN :
         /\ db.ev[p].live /\ db.contract[a].live
         /\ IF onZone THEN ZoneWrites(u, R) ELSE db.ev[p].addr = a /\ OrgWrites(u, a, R, orgOnly)
         /\ Arrive(s, [kind |-> "putEv", by |-> u, zone |-> ZoneAdmin(u), org |-> OwnerOf(a), ev |-> p, addr |-> a,
                       roles |-> R, orgOnly |-> orgOnly])
    \/ LET q == req[s] IN
         /\ Serving(s, "putEv")
         /\ Land(s, {q.ev}, StillOwns(q) /\ (q.zone \/ db.ev[q.ev].addr = q.addr), EvUpdated(q))

DeleteEv(s) ==
    \/ Due(s, "deleteEv") /\ \E u \in Users, p \in EvPerms, onZone \in BOOLEAN :
         LET a == db.ev[p].addr IN
         /\ db.ev[p].live
         /\ Withdraws(u, a, onZone)
         /\ Arrive(s, [kind |-> "deleteEv", by |-> u, zone |-> ZoneAdmin(u), org |-> OwnerOf(a), ev |-> p, addr |-> a])
    \/ LET q == req[s] IN
         /\ Serving(s, "deleteEv")
         /\ Land(s, {q.ev}, StillOwns(q) /\ (q.zone \/ db.ev[q.ev].addr = q.addr),
                 [db EXCEPT !.ev[q.ev].live = FALSE])

-----------------------------------------------------------------------------
(* Templates                                                               *)

\* A template's permissions are the operator's; a contract loses the template that is deleted.
TemplateUmbrella(t) == [db EXCEPT !.umbrella = @ \cup {t}]
TemplatePlain(t) == [db EXCEPT !.umbrella = @ \ {t}]
TemplateDeleted(t) ==
    [TemplatePlain(t) EXCEPT !.contract =
        [a \in Addrs |-> IF @[a].template = t THEN [@[a] EXCEPT !.template = NoTemplate] ELSE @[a]]]
SetTemplate(s) ==
    \/ Due(s, "template") /\ \E u \in Users, t \in Templates, umbrella \in BOOLEAN :
         /\ ZoneAdmin(u)
         /\ Arrive(s, [kind |-> "template", by |-> u, zone |-> TRUE, org |-> Zone, template |-> t, umbrella |-> umbrella])
    \/ LET q == req[s] IN
         /\ Serving(s, "template")
         /\ Land(s, {}, TRUE, IF q.umbrella THEN TemplateUmbrella(q.template) ELSE TemplatePlain(q.template))

DeleteTemplate(s) ==
    \/ Due(s, "template") /\ \E u \in Users, t \in Templates :
         ZoneAdmin(u) /\ Arrive(s, [kind |-> "noTemplate", by |-> u, zone |-> TRUE, org |-> Zone, template |-> t])
    \/ Serving(s, "noTemplate") /\ Land(s, {}, TRUE, TemplateDeleted(req[s].template))

-----------------------------------------------------------------------------
RegistryNext(s) ==
    \/ PostContract(s) \/ PutContract(s) \/ DeleteContract(s)
    \/ PostFn(s) \/ PutFn(s) \/ DeleteFn(s) \/ PostEv(s) \/ PutEv(s) \/ DeleteEv(s)
    \/ SetTemplate(s) \/ DeleteTemplate(s)
=============================================================================
