--------------------------- MODULE Administration ---------------------------
(***************************************************************************)
(* The administration of a zone with organizations in it: its directory    *)
(* and its registry, written by a zone operator, by an admin of an         *)
(* organization and by the system, and read by the organization's admin.   *)
(***************************************************************************)
EXTENDS Directory, Registry

\* Mutant of VisibleToOrg: any credential that is linked to the organization, whoever owns it.
LinkedToOrg(o) == {p \in Apps : LiveApp(p) /\ (db.app[p].owner = o \/ o \in db.app[p].links)}

\* visibleToOrg
VisibleToOrg(o) ==
    {p \in Apps : LiveApp(p) /\ (db.app[p].owner = o \/ (db.app[p].owner = Zone /\ o \in db.app[p].links))}

\* The trail begins with the creation of what there is.
FirstRows ==
    {[action |-> "createApp", app |-> p, owner |-> db.app[p].owner, added |-> {}, removed |-> {},
      affected |-> {o \in Orgs : p \in VisibleToOrg(o)}, alone |-> TRUE] : p \in Apps}

Init ==
    /\ \E start \in Starts : db = start.db /\ menu = start.menu
    /\ req = [s \in Slots |-> Idle] /\ issued = 0
    /\ events = {} /\ trail = SetToSeq(FirstRows)
    /\ raced = {} /\ approved = InForce(db)

-----------------------------------------------------------------------------
(* What an organization's admin reads                                      *)

Lists == {"users", "admins", "roles", "apps", "contracts"}

\* The rows an answer would tell of now, of the kind it asks for.
UsersFor(o) == {u \in Users : Member(u, o)}
AdminsFor(o) == {u \in UsersFor(o) : OrgAdminRole(o) \in RolesOf(u)}
RolesFor(o) == {r \in Roles : LiveRole(r) /\ RoleOwnedBy(o, r)}
ContractsFor(o) == {a \in Addrs : OwnsContract(o, a)}
Listed(what, o) ==
    CASE what = "users" -> {"user"} \X UsersFor(o)
      [] what = "admins" -> {"user"} \X AdminsFor(o)
      [] what = "roles" -> {"role"} \X RolesFor(o)
      [] what = "apps" -> {"app"} \X VisibleToOrg(o)
      [] what = "contracts" -> {"contract"} \X ContractsFor(o)

\* The functions a role may call, of the contracts of one organization.
FnsOfRole(r, o) == {p \in FnPerms : db.fn[p].live /\ r \in db.fn[p].roles /\ OwnerOf(db.fn[p].addr) = o}

Answer(q) ==
    CASE q.kind = "readFns" -> {"fn"} \X OnAddr(q.addr)
      [] q.kind = "readEvs" -> {"ev"} \X EventsOn(q.addr)
      [] q.kind = "readRole" -> {"fn"} \X FnsOfRole(q.role, q.org)
      [] q.kind = "readKeys" -> {"key"} \X ({q.app} \cap db.keys)
      [] q.kind = "list" -> Listed(q.what, q.org)
      [] OTHER -> {}

\* GET on /organizations/:id: the organization, and the row that is named, are checked first.
AsksList(s, u, o) ==
    \E what \in Lists :
        Arrive(s, [kind |-> "list", by |-> u, zone |-> ZoneAdmin(u), org |-> o, what |-> what])
AsksFns(s, u, o) ==
    \E a \in ContractsFor(o) :
        Arrive(s, [kind |-> "readFns", by |-> u, zone |-> ZoneAdmin(u), org |-> o, addr |-> a])
AsksEvs(s, u, o) ==
    \E a \in ContractsFor(o) :
        Arrive(s, [kind |-> "readEvs", by |-> u, zone |-> ZoneAdmin(u), org |-> o, addr |-> a])
AsksRole(s, u, o) ==
    \E r \in RolesFor(o) :
        Arrive(s, [kind |-> "readRole", by |-> u, zone |-> ZoneAdmin(u), org |-> o, role |-> r])
AsksKeys(s, u, o) ==
    \E p \in Apps :
        /\ OwnsCredential(o, p)
        /\ Arrive(s, [kind |-> "readKeys", by |-> u, zone |-> ZoneAdmin(u), org |-> o, app |-> p])

Read(s) ==
    \/ Due(s, "read") /\ \E u \in Users, o \in Orgs :
         /\ AdminsOwn(u, o)
         /\ \/ AsksList(s, u, o) \/ AsksFns(s, u, o) \/ AsksEvs(s, u, o) \/ AsksRole(s, u, o) \/ AsksKeys(s, u, o)
    \/ /\ req[s].kind \in {"list", "readFns", "readEvs", "readRole", "readKeys"}
       /\ Land(s, {}, TRUE, db)

-----------------------------------------------------------------------------
Next ==
    \/ \E s \in Slots : DirectoryNext(s) \/ RegistryNext(s) \/ Read(s)
    \/ WriteEvent

Spec == Init /\ [][Next]_vars

-----------------------------------------------------------------------------
(* Properties                                                              *)

\* A user holds roles of its own organization, a user of the zone roles of the zone, and a
\* member of the only organization perhaps zone roles: assertRolesMatchOrganization is kept
\* by everything that moves a user or a role, as long as nothing overtakes what it has
\* checked.  (A role that an operator moves into an organization stays with its holders.)
RoleScope ==
    \A h \in db.holds : h[1] \in raced \/ h[2] \in raced \/ Assignable(h[2], db.user[h[1]].org)

\* The same without the excuse: what users-repository.ts says of every assignment.
MembersHoldOwnRoles ==
    \A h \in db.holds : Assignable(h[2], db.user[h[1]].org)

\* A request of s that comes from an organization, not from an operator or the system, is over.
Lands(s) == req[s] # Idle /\ ~req[s].zone /\ req'[s] = Idle

\* What a request gives away is its organization's to give.
GrantsOwn(s) ==
    LET own(R) == \A r \in R : db.role[r].org = req[s].org IN
    /\ \A h \in db'.holds \ db.holds :
         IF req[s].kind = "appUser" THEN Assignable(h[2], req[s].org)
         ELSE own({h[2]}) /\ (db.role[h[2]].admin => db.role[h[2]].system)
    /\ \A p \in Apps : LET R == db'.app[p].roles \ db.app[p].roles IN
         own(R) /\ \A r \in R : ~db.role[r].admin
    /\ \A p \in FnPerms : own(db'.fn[p].roles \ db.fn[p].roles)
    /\ \A p \in EvPerms : own(db'.ev[p].roles \ db.ev[p].roles)

\* Whatever an organization's admin, or a credential acting for it, attaches to a user, a
\* credential or a permission is a role of that organization; what reaches a user or a
\* credential is within the ceiling, or, for a user, the organization's own admin role.  The
\* defaults an operator chose are stamped as they are, zone roles too in the only organization.
GrantsWithinReach == [][\A s \in Slots : Lands(s) => GrantsOwn(s)]_vars

\* A request of s arrives that comes from an organization's admin who is no operator.
Comes(s) == req[s] = Idle /\ req'[s] # Idle /\ ~req'[s].zone /\ "by" \in DOMAIN req'[s]

\* It is an admin of the organization it belongs to.
ActsAtHome(s) ==
    LET u == req'[s].by IN
    ~db.user[u].live \/ db.user[u].org = req'[s].org \/ ({u} \cup RolesOf(u)) \cap raced # {}

\* What a request changes is its organization's.
SymmetricDiff(S, T) == (S \ T) \cup (T \ S)
ChangesOwn(s) ==
    LET o == req[s].org
        ours(org, x) == org = o \/ x \in raced'
        changed(row, new) == new # [row EXCEPT !.roles = {r \in @ : db'.role[r].state # "gone"}] IN
    /\ \A u \in Users : db'.user[u] # db.user[u] => ours(db.user[u].org, u) \/ ~db.user[u].live
    /\ \A h \in SymmetricDiff(db.holds, db'.holds) :
         ours(db.role[h[2]].org, h[1]) \/ (req[s].kind = "appUser" /\ Assignable(h[2], o))
    /\ \A r \in Roles : db'.role[r] # db.role[r] => ours(db'.role[r].org, r)
    /\ \A p \in Apps : changed(db.app[p], db'.app[p]) =>
         ours((IF LiveApp(p) THEN db ELSE db').app[p].owner, p)
    /\ \A p \in SymmetricDiff(db.keys, db'.keys) \cup SymmetricDiff(db.ips, db'.ips) : ours(db.app[p].owner, p)
    /\ \A a \in Addrs : db'.contract[a] # db.contract[a] =>
         /\ db.contract[a].live => ours(OwnerOf(a), a)
         /\ db'.contract[a].live => ours(db'.contract[a].owner, a)
    /\ \A p \in FnPerms : changed(db.fn[p], db'.fn[p]) => ours(OwnerOf(req[s].addr), p)
    /\ \A p \in EvPerms : changed(db.ev[p], db'.ev[p]) => ours(OwnerOf(req[s].addr), p)

\* An admin who is no operator acts on no organization but the one it is a member of.  Such a
\* request changes rows of its organization only, and no contract changes its owner, unless
\* it lands on a row that another request has since replaced.  (What loses a role that the
\* organization deletes is not changed.)
OwnRowsOnly == [][\A s \in Slots : (Comes(s) => ActsAtHome(s)) /\ (Lands(s) => ChangesOwn(s))]_vars

\* A function of an organization's contract carries the umbrella, its data are disclosed, or
\* its template is an umbrella one, only where the last zone operator who decided about that
\* row, at that address, wanted it so: an edit neither sets, restores nor moves it, unless
\* it lands on a decision taken since it read the row.
OnlyApproved ==
    \A f \in InForce(db) : f \in approved \/ f[2] \in raced \/ f[3] \in raced

\* An admin who is no operator is told of rows of its organization only, and of the zone's
\* credentials that are linked to it, at whatever moment the answer is read (a contract
\* that is registered anew under the read is excused).
RowsOf(o) ==
    {<<"user", u>> : u \in {u \in Users : db.user[u].org = o}}
    \cup {<<"role", r>> : r \in {r \in Roles : db.role[r].org = o}}
    \cup {<<"app", p>> : p \in {p \in Apps : db.app[p].owner = o \/ (db.app[p].owner = Zone /\ o \in db.app[p].links)}}
    \cup {<<"key", p>> : p \in {p \in Apps : db.app[p].owner = o}}
    \cup {<<"contract", a>> : a \in {a \in Addrs : OwnerOf(a) = o}}
    \cup {<<"fn", p>> : p \in {p \in FnPerms : OwnerOf(db.fn[p].addr) = o \/ db.fn[p].addr \in raced}}
    \cup {<<"ev", p>> : p \in {p \in EvPerms : OwnerOf(db.ev[p].addr) = o \/ db.ev[p].addr \in raced}}
TellsOnlyOwn ==
    \A s \in Slots : req[s] # Idle /\ ~req[s].zone => Answer(req[s]) \subseteq RowsOf(req[s].org)

\* The trail tells a live organization which credentials it can see: what it was told last of
\* one agrees with its list, once nothing about it waits to be written, and as long as no
\* two changes of it were answered so close together that their rows may be out of order.
\* (A link of a credential that an organization owns tells, but lists nothing.)
TrailTellsVisible ==
    \A p \in Apps : LET all == events \cup Range(trail) IN
        (\A e \in all : e.app = p => e.alone /\ e \notin events) =>
        \A o \in Orgs :
            /\ Live(o)
            /\ \A e \in all : e.app = p => e.owner = Zone \/ (e.owner = o /\ e.action # "linkApp")
            =>
            (LastTold(o, p) <=> p \in VisibleToOrg(o))

\* Once an organization is deleted no credential of its own authenticates, none acts for
\* it, and its members have no wallets left, but for one that was added under way.
DeletedOrgInert ==
    \A o \in Orgs : db.org[o] = "deleted" =>
        /\ \A p \in Apps : ~ActsFor(p, o) /\ (db.app[p].owner = o => ~Authenticates(p))
        /\ \A u \in Users : db.user[u].org = o /\ db.user[u].wallet => u \in raced
=============================================================================
