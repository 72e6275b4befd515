---------------------------- MODULE MethodPolicy ----------------------------
(***************************************************************************)
(* Whether a user may call a method: the dispatch every boundary shares    *)
(* (services/authorization-service.ts), over rows that have been read.     *)
(*                                                                         *)
(* A contract row names the organization that owns it and the template it  *)
(* follows.  A permission row of the contract itself overrides the one of  *)
(* its template.  The roles and the restricted arguments of a row are kept *)
(* in tables of their own, which refer to the row by its id.               *)
(***************************************************************************)
EXTENDS Naturals

CONSTANTS
    Addresses,        \* contracts and accounts of the chain
    Reserved,         \* the ones isReservedContractAddress names
    Selectors,        \* method selectors; Bare is the one of empty calldata
    Bare,
    SystemContracts,  \* addresses with an umbrella policy of their own ...
    Inheritable,      \* ... and the pairs of address and method it lists
    Roles,
    Zone,             \* no organization
    NoRow,            \* a read that finds nothing
    MultiOrg          \* MULTI_ORG_ENABLED

ASSUME PolicyAssumption ==
    /\ Reserved \subseteq Addresses
    /\ SystemContracts \subseteq Addresses
    /\ Inheritable \subseteq SystemContracts \X Selectors
    /\ Bare \in Selectors
    /\ MultiOrg \in BOOLEAN

Rules == {"public", "checkRole", "restrictArgument",
          "checkRoleOrRestrictArgument", "checkRoleAndRestrictArgument"}
Restricting == Rules \ {"public", "checkRole"}

-----------------------------------------------------------------------------
(* Reading the tables of a policy p                                        *)

\* The row of a contract's own permission, else the one of its template.  A
\* template is only looked up for a registered contract that follows one.
Matched(contract, direct, templ, a, s) ==
    IF direct[a][s] # NoRow THEN direct[a][s]
    ELSE IF contract[a] # NoRow /\ contract[a].template # NoRow
         THEN templ[contract[a].template][s]
         ELSE NoRow

RowsOf(p) == {p.direct[a][s] : a \in Addresses, s \in Selectors}
             \cup {p.templ[t][s] : t \in DOMAIN p.templ, s \in Selectors}

\* What the keys and references of the tables guarantee: a permission row belongs
\* to a registered contract or to a template, and has an id of its own (the table it
\* is in and its number there).
Consistent(p) ==
    /\ p.user # NoRow => p.user.dead \in BOOLEAN
    /\ \A a \in Addresses, s \in Selectors :
          p.direct[a][s] # NoRow => p.contract[a] # NoRow
    /\ \A a \in Addresses :
          p.contract[a] # NoRow => p.contract[a].template \in (DOMAIN p.templ) \cup {NoRow}
    /\ \A q \in RowsOf(p) \ {NoRow} :
          /\ q.rule \in Rules
          /\ q.umbrella \in BOOLEAN /\ q.orgOnly \in BOOLEAN
          /\ \A other \in RowsOf(p) \ {NoRow} : q.id = other.id => q = other

\* What the tables of roles and of restricted arguments hold for a row read
\* earlier: nothing, once the row has been deleted.
LinksOf(p, row) ==
    LET same == {q \in RowsOf(p) : q # NoRow /\ q.id = row.id} IN
    IF same = {} THEN [roles |-> {}, args |-> {}]
    ELSE LET q == CHOOSE q \in same : TRUE IN [roles |-> q.roles, args |-> q.args]

\* checkArgumentRestrictions: every restricted argument has to be the acting
\* wallet, and call.own are the positions that hold it.
ArgsOutcome(links, call, abi) ==
    CASE call.sel \notin abi -> "unknown"
      [] call.sel \in abi /\ ~call.decodes -> "denied"
      [] call.sel \in abi /\ call.decodes ->
           IF links.args \subseteq call.own THEN "allowed" ELSE "denied"

-----------------------------------------------------------------------------
(* Deciding                                                                *)

AccessFits(row, access) ==
    access = "unenforced" \/ row.access = access \/ row.access = "write"

OrgFits(row, contract, user) ==
    (MultiOrg /\ contract # NoRow /\ contract.org # Zone /\ row.orgOnly)
        => user.org = contract.org

RuleHolds(row, roleOk, args) ==
    CASE row.rule = "public" -> TRUE
      [] row.rule = "checkRole" -> roleOk
      [] row.rule = "restrictArgument" -> args = "allowed"
      [] row.rule = "checkRoleOrRestrictArgument" -> roleOk \/ args = "allowed"
      [] row.rule = "checkRoleAndRestrictArgument" -> roleOk /\ args = "allowed"

\* A method outside the ABI throws wherever the rule looks at the arguments.
Throws(row, args) == row # NoRow /\ row.rule \in Restricting /\ args = "unknown"

\* A direct call: the row itself has to grant it.
Granted(user, contract, row, access, roleOk, args) ==
    /\ row # NoRow
    /\ AccessFits(row, access)
    /\ OrgFits(row, contract, user)
    /\ RuleHolds(row, roleOk, args)

\* A call below an umbrella: the gate of the row is waived, the organization
\* and the arguments are not.
UnderUmbrella(user, contract, row, args) ==
    /\ contract # NoRow
    /\ contract.org \in {Zone, user.org}
    /\ (row # NoRow /\ row.rule \in Restricting) => args = "allowed"

\* canInheritSystemContractUmbrella
MayInherit(a, s) == a \in SystemContracts => <<a, s>> \in Inheritable

\* decidePermission.  Nothing that is read for a check runs before the checks
\* that precede it: a method outside the ABI only throws when the rule is reached.
Decide(user, contract, row, call, access, covered, links, abi) ==
    LET roleOk == user.roles \cap links.roles # {}
        args == ArgsOutcome(links, call, abi)
        elsewhere == contract # NoRow /\ contract.org \notin {Zone, user.org}
        relaxed == covered /\ MultiOrg
        under == UnderUmbrella(user, contract, row, args)
        settled == relaxed /\ (~under \/ MayInherit(call.to, call.sel)) IN
    CASE user.dead -> "deny"
      [] ~user.dead /\ contract # NoRow /\ contract.org # Zone /\ call.to \in Reserved -> "deny"
      [] OTHER ->
           IF relaxed /\ contract # NoRow /\ ~elsewhere /\ Throws(row, args) THEN "error"
           ELSE IF settled THEN IF under THEN "allow" ELSE "deny"
           ELSE IF row = NoRow THEN "deny"
           ELSE IF AccessFits(row, access) /\ OrgFits(row, contract, user) /\ Throws(row, args)
                THEN "error"
           ELSE IF Granted(user, contract, row, access, roleOk, args)
                THEN IF row.umbrella THEN "umbrella" ELSE "allow"
                ELSE "deny"
=============================================================================
