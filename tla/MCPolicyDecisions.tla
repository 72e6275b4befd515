------------------------- MODULE MCPolicyDecisions -------------------------
EXTENDS PolicyDecisions, TLC
CONSTANTS router, foreign, token, account, unlisted, s1, bare, o1, o2, k1, t1

Row(id, access, rule, roles, args, umbrella, orgOnly) ==
    [id |-> id, access |-> access, rule |-> rule, roles |-> roles, args |-> args,
     umbrella |-> umbrella, orgOnly |-> orgOnly]
Contract(org, template) == [org |-> org, template |-> template, abi |-> {s1, bare}]
User(org, roles, dead) == [org |-> org, roles |-> roles, dead |-> dead]

Of(a, s, row) == [x \in Addresses |-> [y \in Selectors |->
                    IF x = a /\ y = s THEN row ELSE NoRow]]
Rows(r, f, t) == [x \in Addresses |-> [y \in Selectors |->
    IF y # s1 THEN NoRow
    ELSE CASE x = router -> r [] x = foreign -> f [] x = token -> t [] OTHER -> NoRow]]
TemplateRow(row) == [t \in {t1} |-> [s \in Selectors |-> IF s = s1 THEN row ELSE NoRow]]

\* The router is the signer's organization's, the foreign contract another's,
\* the token the zone's; the token follows a template.
PolicyOf(user, r, f, t, below) ==
    [user |-> user,
     contract |-> [a \in Addresses |->
        CASE a = router -> Contract(o1, NoRow) [] a = foreign -> Contract(o2, NoRow)
          [] a \in {token, unlisted} -> Contract(Zone, IF a = token THEN t1 ELSE NoRow)
          [] OTHER -> NoRow],
     direct |-> Rows(r, f, t), templ |-> TemplateRow(below)]

Member == User(o1, {k1}, FALSE)
Users == {User(o1, {}, FALSE), User(o1, {k1}, TRUE), User(Zone, {k1}, FALSE), NoRow}
OpenRouter == Row(1, "write", "public", {}, {}, TRUE, TRUE)
ReadRouter == Row(1, "read", "checkRole", {k1}, {}, TRUE, TRUE)
ForeignRows == {Row(2, "write", "public", {}, {}, FALSE, TRUE),
                Row(2, "write", "checkRole", {k1}, {}, FALSE, FALSE)}
PlainToken == Row(3, "write", "checkRole", {k1}, {}, FALSE, TRUE)
TokenRows == {NoRow} \cup {Row(3, "write", rule, {k1}, {0}, FALSE, TRUE) : rule \in Restricting}
BelowRow == Row(4, "write", "restrictArgument", {}, {0}, TRUE, TRUE)

\* The ones between which operators switch, and variations on them.
Edited == {PolicyOf(Member, r, NoRow, t, BelowRow) : r \in {ReadRouter, NoRow}, t \in {NoRow, PlainToken}}
SomePolicies == Edited
    \cup {PolicyOf(u, OpenRouter, NoRow, PlainToken, BelowRow) : u \in Users}
    \cup {PolicyOf(Member, OpenRouter, f, PlainToken, BelowRow) : f \in ForeignRows}
    \cup {PolicyOf(Member, OpenRouter, NoRow, t, BelowRow) : t \in TokenRows}
    \cup {PolicyOf(Member, NoRow, NoRow, t, BelowRow) :
              t \in {Row(3, "write", "checkRoleAndRestrictArgument", {k1}, {0}, FALSE, TRUE)}}
Edits4 == Edited \X Edited

Frame(parent, kind, to, sel, own) ==
    [parent |-> parent, kind |-> kind, to |-> to, sel |-> sel, value |-> sel = bare,
     own |-> own, decodes |-> TRUE]
Ask4(route, access, frames) ==
    [route |-> route, version |-> 1, access |-> access, frames |-> frames]
Root == Frame(0, "call", router, s1, {})
Traces ==
    { <<Root, Frame(1, "call", foreign, s1, {0})>>,
      <<Root, Frame(1, "call", router, s1, {}), Frame(2, "call", foreign, s1, {0})>>,
      <<Root, Frame(1, "constructor", account, s1, {}), Frame(2, "staticCall", token, s1, {})>>,
      <<Root, Frame(1, "call", token, s1, {0}), Frame(2, "call", token, s1, {0}),
        Frame(1, "call", account, bare, {})>>,
      <<Root, Frame(1, "call", unlisted, s1, {}), Frame(1, "call", account, s1, {})>>,
      <<Frame(0, "constructor", account, s1, {}), Frame(1, "delegateCall", router, s1, {}),
        Frame(2, "call", token, "short", {})>> }
SomeInputs ==
    {Ask4("judge", "write", t) : t \in Traces}
    \cup {Ask4("judge", "read", <<Root, Frame(1, "call", token, s1, {})>>)}
    \cup {Ask4("judge", "write", <<>>), [Ask4("admit", "write", <<Root>>) EXCEPT !.version = 2]}
    \cup {Ask4("admit", access, <<Root>>) : access \in {"read", "write"}}
    \cup {Ask4("admit", "write", <<f>>) : f \in {Frame(0, "call", token, s1, {0}),
            Frame(0, "call", account, bare, {}), Frame(0, "constructor", account, s1, {})}}
SystemOnes == {<<unlisted, bare>>}
=============================================================================
