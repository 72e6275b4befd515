----------------------------- MODULE AuditTrail -----------------------------
(***************************************************************************)
(* What organizations are told of the machine credentials that act for     *)
(* them.  The transaction that changes a credential computes the audience  *)
(* of the change, under a lock on the credential's row; the audit row is   *)
(* written when the response is out, and may never be.                     *)
(***************************************************************************)
EXTENDS AdminDb, SequencesExt

\* The trail begins with a row for each credential.
ASSUME CredentialsFinite == IsFiniteSet(Apps)

\* applicationAuditDetails: the owner, or the live organizations that are linked.
Audience(d, p) ==
    IF d.app[p].owner # Zone THEN {d.app[p].owner} ELSE {o \in d.app[p].links : d.org[o] = "live"}

\* Mutant of Unlinked: only what is linked after the change is looked at.
UnlinkedNone(before, after) == {}

\* organizationLinkChanges, of what getOrganizations returns before and after.
LiveLinks(d, p) == {o \in d.app[p].links : d.org[o] = "live"}
Unlinked(before, after) == before \ after

\* replaceAuditedM2mOrganizations
RelinkDetails(p, new) ==
    LET added == LiveLinks(new, p) \ LiveLinks(db, p)
        removed == Unlinked(LiveLinks(db, p), LiveLinks(new, p)) IN
    [added |-> added, removed |-> removed,
     affected |-> ({db.app[p].owner} \ {Zone}) \cup added \cup removed]

Details(q, new) ==
    CASE q.kind = "linkApp" -> RelinkDetails(q.app, new)
      [] q.kind = "deleteApp" -> [added |-> {}, removed |-> {}, affected |-> Audience(db, q.app)]
      [] OTHER -> [added |-> {}, removed |-> {}, affected |-> Audience(new, q.app)]

\* The event of a request that changed a credential: who acts in an organization is told too.
\* alone says that no other event about this credential was waiting to be written.
AuditEvents(q, new) ==
    IF q.kind \notin {"createApp", "updateApp", "deleteApp", "linkApp"} \/ new = db THEN {}
    ELSE LET details == Details(q, new) IN
         {[action |-> q.kind, app |-> q.app, owner |-> (IF LiveApp(q.app) THEN db ELSE new).app[q.app].owner,
           affected |-> details.affected \cup ({q.org} \ {Zone}),
           added |-> details.added, removed |-> details.removed,
           alone |-> \A e \in events : e.app # q.app]}

\* The request of s, about the subjects, writes new; current says that what it checked still holds.
Land(s, subjects, current, new) ==
    /\ db' = new
    /\ raced' = IF current \/ new = db THEN raced ELSE raced \cup subjects
    /\ approved' = InForce(new) \cap
         (IF req[s].zone THEN approved \cup (InForce(new) \ InForce(db)) ELSE approved)
    /\ events' = events \cup AuditEvents(req[s], new)
    /\ req' = [req EXCEPT ![s] = Idle]
    /\ UNCHANGED <<issued, menu, trail>>

\* The onResponse hook writes the row, if it is reached and the insertion does not fail.
WriteEvent ==
    \E e \in events :
        /\ trail' = Append(trail, e) /\ events' = events \ {e}
        /\ UNCHANGED <<db, req, issued, menu, raced, approved>>

\* findForOrganization: the rows whose audience the organization is in.
RowsFor(o) == {i \in DOMAIN trail : o \in trail[i].affected}

\* organizationAuditSummary: what a row says to one organization.
Says(e, o) ==
    CASE e.action = "createApp" -> "there"
      [] e.action = "deleteApp" -> "gone"
      [] o \in e.added -> "there"
      [] o \in e.removed -> "gone"
      [] OTHER -> "same"

\* What the organization was told last: whether the credential is there.
ToldOf(o, p) == {i \in RowsFor(o) : trail[i].app = p /\ Says(trail[i], o) # "same"}
LastTold(o, p) == ToldOf(o, p) # {} /\ Says(trail[Max(ToldOf(o, p))], o) = "there"
=============================================================================
