-------------------------- MODULE PolicyDecisions --------------------------
(***************************************************************************)
(* The policy listener: /admit answers for the outermost call of a         *)
(* transaction, /judge for the calls its execution made, with a cache of   *)
(* decisions in front of both and the overlays of private features behind. *)
(*                                                                         *)
(* A decision reads the user, the contracts, their permission rows and     *)
(* what belongs to the rows in separate statements, while operators edit   *)
(* the policy.  /judge walks the trace one generation of frames at a time. *)
(***************************************************************************)
EXTENDS MethodPolicy, Sequences, SequencesExt

CONSTANTS
    Requests,      \* concurrent requests of the sequencer
    Inputs,        \* what it asks; a frame names the frame that made it, and its to is
                   \* the address its row is looked up for: the code that runs, for a
                   \* delegatecall the storage it runs on
    Policies,      \* contents of the policy tables
    Edits,         \* pairs of policies: one transaction of an operator
    CodeAt,        \* addresses the chain has code at
    Deployers,     \* roles with contract_deployment
    Versions,      \* POLICY_PROTOCOL_VERSIONS
    Overlays,      \* whether a feature has registered an overlay
    MaxEntries,    \* of the cache; 0 is no cache
    Ttl,           \* of its entries
    MaxLatency,    \* bound on the time an evaluation takes
    MaxTime        \* bound on the clock

ASSUME DecisionsAssumption ==
    /\ Edits \subseteq Policies \X Policies
    /\ Overlays \in BOOLEAN
    /\ {MaxEntries, MaxLatency, MaxTime} \subseteq Nat
    /\ Ttl \in Nat \ {0}
    /\ NoRow \notin Nat

VARIABLES
    policy,    \* the tables, as they are now
    edited,    \* when they were last changed, if they were
    vetoed,    \* whether the overlay refuses what is asked
    cache,     \* the entries, oldest first
    req,       \* the requests
    now

vars == <<policy, edited, vetoed, cache, req, now>>

Idle == [pc |-> "idle"]
Verdicts == {"none", "skip", "allow", "umbrella", "deny", "error"}
NoVerdicts(in) == [i \in 1..Len(in.frames) |-> "none"]
Pcs == {"user", "contracts", "rows", "templates", "links", "overlay", "answered"}

TypeOK ==
    /\ policy \in Policies
    /\ edited \in (0..now) \cup {NoRow}
    /\ vetoed \in BOOLEAN
    /\ \A k \in 1..Len(cache) :
          /\ cache[k].verdict \in {"allow", "deny"}
          /\ cache[k].expires \in Ttl..(MaxTime + Ttl)
    /\ \A r \in Requests : req[r] # Idle =>
          /\ req[r].pc \in Pcs
          /\ req[r].frames \in [1..Len(req[r].input.frames) -> Verdicts]
          /\ req[r].began \in 0..now
    /\ now \in 0..MaxTime

Init ==
    /\ policy \in Policies
    /\ edited = NoRow
    /\ vetoed \in IF Overlays THEN BOOLEAN ELSE {FALSE}
    /\ cache = <<>>
    /\ req = [r \in Requests |-> Idle]
    /\ now = 0

At(r, pc) == req[r] # Idle /\ req[r].pc = pc

-----------------------------------------------------------------------------
(* What is asked                                                           *)

CutOff == "short"   \* calldata that ends before its selector does
Frames == [parent : Nat, kind : {"call", "staticCall", "delegateCall", "constructor"},
           to : Addresses, sel : Selectors \cup {CutOff}, value : BOOLEAN,
           own : SUBSET Nat, decodes : BOOLEAN]

Transfer(f) == f.kind = "call" /\ f.sel = Bare /\ f.value /\ f.to \notin CodeAt

\* /admit is asked for one call, /judge for a trace in pre-order; where no code
\* runs nothing is called.
WellFormed(in) ==
    /\ in = [route |-> in.route, version |-> in.version, access |-> in.access,
             frames |-> in.frames]
    /\ in.route \in {"admit", "judge"}
    /\ in.access \in {"read", "write"}
    /\ in.frames \in Seq(Frames)
    /\ in.route = "admit" => Len(in.frames) = 1
    /\ \A i \in 2..Len(in.frames) :
          /\ in.frames[i].parent \in 1..(i - 1)
          /\ ~Transfer(in.frames[in.frames[i].parent])

ASSUME TablesAndInputs ==
    /\ \A p \in Policies : Consistent(p)
    /\ \A in \in Inputs : WellFormed(in)

-----------------------------------------------------------------------------
(* The walk over a trace                                                   *)

Ancestors(in) ==
    LET f[i \in 0..Len(in.frames)] ==
            IF i <= 1 THEN {} ELSE {in.frames[i].parent} \cup f[in.frames[i].parent]
    IN f

\* What lets the walk go on below a frame.  With one organization an umbrella
\* ends it instead.
Descends == {"skip", "allow"} \cup (IF MultiOrg THEN {"umbrella"} ELSE {})

\* The frames of the next generation.
Frontier(in, v) ==
    {i \in 1..Len(in.frames) :
        v[i] = "none" /\ (i = 1 \/ v[in.frames[i].parent] \in Descends)}

\* Mutant of Covered: only the frame directly above counts.
CoveredByParent(in, v, i) == i # 1 /\ v[in.frames[i].parent] = "umbrella"

Covered(in, v, i) == \E j \in Ancestors(in)[i] : v[j] = "umbrella"

\* The verdict on one frame, over rows read into view and links read from p.
\* The root of a trace has been admitted: only its umbrella is looked for.
FrameVerdict(in, v, i, user, view, p) ==
    LET f == in.frames[i]
        root == i = 1
        contract == view.contract[f.to]
        row == Matched(view.contract, view.direct, view.templ, f.to, f.sel)
        links == IF row = NoRow THEN [roles |-> {}, args |-> {}] ELSE LinksOf(p, row)
        abi == IF contract = NoRow THEN {} ELSE contract.abi
        made == Decide(user, contract, row, f, IF root THEN in.access ELSE "unenforced",
                       Covered(in, v, i), links, abi) IN
    IF f.kind = "constructor" THEN "skip"
    ELSE IF (in.route = "admit" \/ ~root) /\ Transfer(f) THEN "allow"
    ELSE IF f.sel \notin Selectors THEN "error"
    ELSE IF in.route = "judge" /\ root /\ made = "deny" THEN "skip"
    ELSE made

\* resolveDepthFirst: the first refusal or error in pre-order.
Resolve(in, v) ==
    LET bad == {i \in 1..Len(in.frames) : v[i] \in {"deny", "error"}} IN
    IF bad = {} THEN "allow" ELSE v[Min(bad)]

Finished(in, v) ==
    \/ Frontier(in, v) = {}
    \/ in.route = "admit"
    \/ v[1] = "error"

-----------------------------------------------------------------------------
(* The cache                                                               *)

\* Mutant of KeyOf: the access a read or a write asks for is left out.
KeyOfNoAccess(in) == <<in.route, in.version, in.frames>>

KeyOf(in) == <<in.route, in.version, in.access, in.frames>>

Places(entries, key) == {k \in 1..Len(entries) : entries[k].key = key}
PlaceOf(entries, key) == CHOOSE k \in Places(entries, key) : TRUE

\* What InMemoryDecisionCache.get leaves behind when it does not hit.
Without(key) ==
    IF Places(cache, key) = {} THEN cache ELSE RemoveAt(cache, PlaceOf(cache, key))

Live(e) == e.expires > now

\* InMemoryDecisionCache.set: a key that is there keeps its place, a new one
\* pushes out the oldest when the cache is full.
Stored(entries, in, verdict) ==
    LET key == KeyOf(in)
        entry == [key |-> key, verdict |-> verdict, expires |-> now + Ttl] IN
    IF MaxEntries = 0 THEN entries
    ELSE IF Places(entries, key) # {}
         THEN [entries EXCEPT ![PlaceOf(entries, key)] = entry]
         ELSE Append(IF Len(entries) >= MaxEntries THEN Tail(entries) ELSE entries, entry)

\* Mutant of Overlaid: a read is put to the overlay, a write is not.
OverlaidRead(in, verdict) == Overlays /\ verdict = "allow" /\ in.access = "read"

\* Only a write that has been allowed is put to the overlays.
Overlaid(in, verdict) ==
    Overlays /\ verdict = "allow" /\ in.access = "write" /\ in.frames # <<>>

\* The end of evaluate: what it returned is stored, what it threw is not.
Settle(r, q, verdict, entries) ==
    /\ cache' = IF verdict = "error" THEN entries ELSE Stored(entries, q.input, verdict)
    /\ req' = [req EXCEPT ![r] =
                  [q EXCEPT !.pc = IF Overlaid(q.input, verdict) THEN "overlay" ELSE "answered",
                            !.verdict = verdict, !.settled = now]]

-----------------------------------------------------------------------------
(* The requests                                                            *)

NoView == [contract |-> NoRow, direct |-> NoRow, templ |-> NoRow]

\* AdmitService.admit, JudgeService.judge, withDecisionCache.  A protocol
\* version nobody supports, or a trace without frames, is answered at once.
Ask(r, in) ==
    LET key == KeyOf(in)
        entry == cache[PlaceOf(cache, key)]
        fresh == [pc |-> "user", input |-> in, user |-> NoRow, view |-> NoView,
                  frames |-> NoVerdicts(in), verdict |-> "none", began |-> now,
                  settled |-> now, open |-> ~vetoed] IN
    /\ req[r] = Idle
    /\ IF Places(cache, key) # {} /\ Live(entry)
       THEN /\ req' = [req EXCEPT ![r] =
                 [fresh EXCEPT !.pc = IF Overlaid(in, entry.verdict) THEN "overlay" ELSE "answered",
                               !.verdict = entry.verdict]]
            /\ UNCHANGED cache
       ELSE IF in.version \notin Versions THEN Settle(r, fresh, "deny", Without(key))
       ELSE IF in.frames = <<>> THEN Settle(r, fresh, "allow", Without(key))
       ELSE /\ req' = [req EXCEPT ![r] = fresh]
            /\ cache' = Without(key)
    /\ UNCHANGED <<policy, edited, vetoed, now>>

\* evaluate up to the first permission that has to be looked up.
ReadUser(r) ==
    /\ At(r, "user")
    /\ LET user == policy.user
           in == req[r].input
           root == in.frames[1]
           q == [req[r] EXCEPT !.user = user] IN
       IF user = NoRow THEN Settle(r, q, "deny", cache)
       ELSE IF in.route = "admit" /\ user.dead THEN Settle(r, q, "deny", cache)
       ELSE IF in.route = "admit" /\ root.kind = "constructor"
            THEN Settle(r, q, IF user.roles \cap Deployers # {} THEN "allow" ELSE "deny", cache)
       ELSE IF in.route = "admit" /\ Transfer(root) THEN Settle(r, q, "allow", cache)
       ELSE /\ req' = [req EXCEPT ![r] = [q EXCEPT !.pc = "contracts"]]
            /\ UNCHANGED cache
    /\ UNCHANGED <<policy, edited, vetoed, now>>

\* One statement of the look-up, and the next.
Read(r, pc, next, column, value) ==
    /\ At(r, pc)
    /\ req' = [req EXCEPT ![r].pc = next, ![r].view[column] = value]
    /\ UNCHANGED <<policy, edited, vetoed, cache, now>>

ReadContracts(r) == Read(r, "contracts", "rows", "contract", policy.contract)
ReadRows(r) == Read(r, "rows", "templates", "direct", policy.direct)
ReadTemplates(r) == Read(r, "templates", "links", "templ", policy.templ)

\* The roles and restricted arguments of the matched rows are read, and one
\* generation is decided; the root of a trace is a generation of its own.
Evaluate(r) ==
    /\ At(r, "links")
    /\ LET in == req[r].input
           old == req[r].frames
           v == [i \in DOMAIN old |->
                    IF i \in Frontier(in, old)
                    THEN FrameVerdict(in, old, i, req[r].user, req[r].view, policy)
                    ELSE old[i]]
           q == [req[r] EXCEPT !.frames = v, !.view = NoView] IN
       IF Finished(in, v) THEN Settle(r, q, Resolve(in, v), cache)
       ELSE /\ req' = [req EXCEPT ![r] = [q EXCEPT !.pc = "contracts"]]
            /\ UNCHANGED cache
    /\ UNCHANGED <<policy, edited, vetoed, now>>

\* The overlays narrow: one that refuses, or that throws, is a denial.
Overlay(r) ==
    /\ At(r, "overlay")
    /\ \/ /\ ~vetoed
          /\ req' = [req EXCEPT ![r].pc = "answered"]
       \/ req' = [req EXCEPT ![r].pc = "answered", ![r].verdict = "deny"]
    /\ UNCHANGED <<policy, edited, vetoed, cache, now>>

Forget(r) ==
    /\ At(r, "answered")
    /\ req' = [req EXCEPT ![r] = Idle]
    /\ UNCHANGED <<policy, edited, vetoed, cache, now>>

-----------------------------------------------------------------------------
(* The environment                                                         *)

Edit(p) ==
    /\ <<policy, p>> \in Edits
    /\ policy' = p
    /\ edited' = now
    /\ UNCHANGED <<vetoed, cache, req, now>>

\* A rule of the feature changes.
Veto ==
    /\ Overlays
    /\ vetoed' = ~vetoed
    /\ req' = [r \in Requests |-> IF req[r] = Idle \/ At(r, "answered") THEN req[r]
                                  ELSE [req[r] EXCEPT !.open = TRUE]]
    /\ UNCHANGED <<policy, edited, cache, now>>

Evaluating(r) == req[r] # Idle /\ req[r].pc \in Pcs \ {"overlay", "answered"}

Tick ==
    /\ now < MaxTime
    /\ \A r \in Requests : Evaluating(r) => now < req[r].began + MaxLatency
    /\ now' = now + 1
    /\ UNCHANGED <<policy, edited, vetoed, cache, req>>

Next ==
    \/ \E r \in Requests : \/ \E in \in Inputs : Ask(r, in)
                           \/ ReadUser(r) \/ ReadContracts(r) \/ ReadRows(r)
                           \/ ReadTemplates(r) \/ Evaluate(r) \/ Overlay(r) \/ Forget(r)
    \/ \E p \in Policies : Edit(p)
    \/ Veto
    \/ Tick

Spec == Init /\ [][Next]_vars

-----------------------------------------------------------------------------
(* What the listener promises                                              *)

\* The sequential depth-first walk, over one state of the tables: what the
\* generations and the scattered reads stand in for.  A frame that the walk does
\* not reach has no verdict.
Walk(p, in) ==
    LET view == [contract |-> p.contract, direct |-> p.direct, templ |-> p.templ]
        w[i \in 0..Len(in.frames)] ==
            IF i = 0 \/ (i > 1 /\ w[in.frames[i].parent] \notin Descends) THEN "none"
            ELSE FrameVerdict(in, [j \in 1..Len(in.frames) |-> IF j < i THEN w[j] ELSE "none"],
                              i, p.user, view, p)
    IN w

AtOnce(p, in) ==
    LET root == in.frames[1] IN
    IF in.version \notin Versions THEN "deny"
    ELSE IF in.frames = <<>> THEN "allow"
    ELSE IF p.user = NoRow THEN "deny"
    ELSE IF in.route = "admit" /\ p.user.dead THEN "deny"
    ELSE IF in.route = "admit" /\ root.kind = "constructor"
         THEN IF p.user.roles \cap Deployers # {} THEN "allow" ELSE "deny"
    ELSE Resolve(in, [i \in 1..Len(in.frames) |-> Walk(p, in)[i]])

Settled(r) == At(r, "answered") \/ At(r, "overlay")

\* Nothing the answer can rest on is older than the last edit.
Quiet(r) == edited = NoRow \/ req[r].settled >= edited + Ttl + MaxLatency

\* An edit is in force everywhere once the time to live and the longest
\* evaluation have passed: from then on every answer, cached or not, is the one
\* the sequential walk gives over the tables (decision-cache.ts:16-19).  The
\* access type, the version and the whole trace are in the key, an entry is
\* never prolonged, and an evaluation that the edit overtook dies with its entry.
\* The cache keeps to its size, with one entry for a key.
ConvergesAfterTtl ==
  /\ Len(cache) <= MaxEntries
  /\ \A k, l \in 1..Len(cache) : cache[k].key = cache[l].key => k = l
  /\ \A r \in Requests : Settled(r) /\ Quiet(r) =>
        LET verdict == AtOnce(policy, req[r].input) IN
        \/ req[r].verdict = verdict
        \/ /\ At(r, "answered") /\ req[r].verdict = "deny" /\ verdict = "allow"
           /\ Overlays /\ req[r].input.access = "write"

\* What the signer holds and the call carries, against what a row asks for.
HasRole(p, row) == p.user.roles \cap row.roles # {}
IsOwn(row, f) == f.decodes /\ row.args \subseteq f.own
Meets(p, row, f) ==
    /\ row.rule \in {"checkRole", "checkRoleAndRestrictArgument"} => HasRole(p, row)
    /\ row.rule \in {"restrictArgument", "checkRoleAndRestrictArgument"} => IsOwn(row, f)
    /\ row.rule = "checkRoleOrRestrictArgument" => HasRole(p, row) \/ IsOwn(row, f)

RowOf(p, f) == Matched(p.contract, p.direct, p.templ, f.to, f.sel)

\* The frames above i that an umbrella row was met in.  A contract that an
\* organization registered at a reserved address opens none.
UmbrellasOver(p, in, i) ==
    {j \in Ancestors(in)[i] :
        LET row == RowOf(p, in.frames[j])
            org == p.contract[in.frames[j].to].org IN
        /\ in.frames[j].kind # "constructor"
        /\ row # NoRow /\ row.umbrella /\ Meets(p, row, in.frames[j])
        /\ row.orgOnly => org \in {Zone, p.user.org}
        /\ in.frames[j].to \in Reserved => org = Zone
        /\ j = 1 => AccessFits(row, in.access)}

\* What the signer may do to one address, by a call of its own or below an
\* umbrella, said without the order of the checks.
Reaches(p, in, i) ==
    LET f == in.frames[i]
        row == RowOf(p, f)
        met == row # NoRow /\ Meets(p, row, f)
        covered == UmbrellasOver(p, in, i) # {} IN
    /\ p.contract[f.to] # NoRow
    /\ ~covered => met
    /\ covered /\ row # NoRow /\ row.rule \in Restricting => IsOwn(row, f)
    /\ covered /\ ~MayInherit(f.to, f.sel) => met
    /\ p.contract[f.to].org \notin {Zone, p.user.org} => met /\ ~row.orgOnly /\ ~covered

\* An umbrella consents for the signer's organization and the zone only: a trace
\* that is allowed touches another organization's contract by a shared row the
\* signer meets itself, never below an umbrella; an argument restriction holds in
\* every frame, and below no umbrella every frame has a row that the signer meets
\* (judge-service.ts:101-131).
UmbrellaKeepsToItsOwn ==
    \A r \in Requests :
        (/\ MultiOrg /\ Settled(r) /\ Quiet(r)
         /\ req[r].verdict = "allow" /\ req[r].input.route = "judge") =>
            \A i \in 2..Len(req[r].input.frames) :
                LET f == req[r].input.frames[i] IN
                f.kind = "constructor" \/ Transfer(f) \/ Reaches(policy, req[r].input, i)

\* A rule of an overlay binds at once, also where the capability is served from
\* the cache: a write is only allowed if no veto stood throughout the request.
VetoBindsAtOnce ==
    \A r \in Requests :
        At(r, "answered") /\ req[r].verdict = "allow" /\ req[r].input.access = "write"
        /\ req[r].input.frames # <<>> => req[r].open
=============================================================================
