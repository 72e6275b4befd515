-------------------------- MODULE ConnectionSlots --------------------------
(***************************************************************************)
(* The database connections of the permissions API: the limiter that       *)
(* bounds how many requests pin one for their whole life, the connections  *)
(* the handlers take on top of their own, the ones used without the        *)
(* limiter, and the clean-up after the response or when the client goes    *)
(* away.  The pool is pg's: it knows whether a connection is checked out,  *)
(* client.release ends the check-out the connection is in at that moment,  *)
(* whoever's it is, and throws when there is none; and a connection        *)
(* answers its queries in the order in which they were sent.               *)
(***************************************************************************)
EXTENDS Naturals, Sequences, FiniteSets, SequencesExt

CONSTANTS
    Requests,   \* concurrent HTTP requests
    Conns,      \* the connections of the pool
    Reserved,   \* RESERVED_POOL_CONNECTIONS
    Borrowers,  \* whoever takes a connection without the limiter
    NoValue     \* undefined

ASSUME ConnectionAssumption ==
    /\ IsFiniteSet(Conns)
    /\ Conns # {}
    /\ Reserved \in Nat
    /\ NoValue \notin Conns \cup Requests \cup Borrowers
    /\ Requests \cap Borrowers = {}

VARIABLES
    pinned,     \* PinnedClientLimiter.pinned
    waiting,    \* PinnedClientLimiter.waiting, in order of insertion
    request,    \* the requests in flight
    conns,      \* who checked each connection out, NoValue when it is in the pool
    sent,       \* the queries sent on each connection and not yet answered
    borrowed,   \* the connection of each borrower
    context,    \* the app.* session variables of each connection
    overtaken   \* a setup has failed behind the abort of its request

poolVars == <<conns, sent, borrowed, context, overtaken>>
slotVars == <<pinned, waiting, request, poolVars>>

MaxConns == Cardinality(Conns)

\* Mutant of Limit: the reserve is one too small for the nested acquisitions.
LimitWholePool == MaxConns

\* pinnedClientLimiterFor
Limit == IF MaxConns > Reserved + 1 THEN MaxConns - Reserved ELSE 1

Waiting == [pc |-> "idle"]
Pcs == {"queued", "connect", "setup", "handler", "nest", "nested", "lost", "done"}
Queries == Requests \X {"setup", "clear"}

TypeOK ==
    /\ pinned \in 0 .. Limit
    /\ waiting \in Seq(Requests)
    /\ request \in [Requests ->
                  [pc : Pcs, conn : Conns \cup {NoValue}, extra : Conns \cup {NoValue},
                   slot : BOOLEAN, held : BOOLEAN, clearing : BOOLEAN,
                   aborted : BOOLEAN] \cup {Waiting}]
    /\ conns \in [Conns -> Requests \cup Borrowers \cup {NoValue}]
    /\ sent \in [Conns -> Seq(Queries)]
    /\ borrowed \in [Borrowers -> Conns \cup {NoValue}]
    /\ context \in [Conns -> Requests \cup {NoValue}]
    /\ overtaken \in BOOLEAN

SlotsInit ==
    /\ pinned = 0
    /\ waiting = <<>>
    /\ request = [r \in Requests |-> Waiting]
    /\ conns = [c \in Conns |-> NoValue]
    /\ sent = [c \in Conns |-> <<>>]
    /\ borrowed = [b \in Borrowers |-> NoValue]
    /\ context = [c \in Conns |-> NoValue]
    /\ overtaken = FALSE

-----------------------------------------------------------------------------
(* The limiter                                                             *)

InFlight(r) == request[r] # Waiting
At(r, pc) == InFlight(r) /\ request[r].pc = pc

\* acquire
Acquire(r) ==
    /\ ~InFlight(r)
    /\ LET at(pc, slot) == request' = [request EXCEPT ![r] =
              [pc |-> pc, conn |-> NoValue, extra |-> NoValue, slot |-> slot,
               held |-> FALSE, clearing |-> FALSE, aborted |-> FALSE]] IN
       IF pinned < Limit
       THEN pinned' = pinned + 1 /\ at("connect", TRUE) /\ UNCHANGED waiting
       ELSE waiting' = Append(waiting, r) /\ at("queued", FALSE) /\ UNCHANGED pinned
    /\ UNCHANGED poolVars

\* Mutant of GiveUp: the waiter that timed out stays in line.
GiveUpInLine(r) == waiting

\* A waiter is in line once.
GiveUp(r) == RemoveAt(waiting, CHOOSE i \in DOMAIN waiting : waiting[i] = r)

\* The timer of waitForSlot: 503.
SlotTimeout(r) ==
    /\ At(r, "queued")
    /\ waiting' = GiveUp(r)
    /\ request' = [request EXCEPT ![r] = Waiting]
    /\ UNCHANGED <<pinned, poolVars>>

\* handOverOrFree: the slot goes to the next waiter, or back.
PinnedAfter == IF waiting = <<>> THEN pinned - 1 ELSE pinned

\* A slot is released while the requests become reqs.
HandOverOrFree(reqs) ==
    /\ pinned' = PinnedAfter
    /\ IF waiting = <<>>
       THEN request' = reqs /\ UNCHANGED waiting
       ELSE /\ waiting' = Tail(waiting)
            /\ request' = [reqs EXCEPT ![Head(waiting)] =
                         IF @ = Waiting THEN @
                         ELSE [@ EXCEPT !.pc = "connect", !.slot = TRUE]]

\* The one-shot release of r, while r becomes new, and has used it up.
ReleaseSlot(r, new) ==
    LET reqs == [request EXCEPT ![r] =
                    IF new = Waiting THEN new ELSE [new EXCEPT !.slot = FALSE]] IN
    IF request[r].slot THEN HandOverOrFree(reqs)
    ELSE request' = reqs /\ UNCHANGED <<pinned, waiting>>

-----------------------------------------------------------------------------
(* The middleware and the handler                                          *)

\* pool.connect, and the fields releaseClient will look for; the query that sets
\* the audit context is sent at once.
Connect(r, c) ==
    /\ At(r, "connect")
    /\ conns[c] = NoValue
    /\ conns' = [conns EXCEPT ![c] = r]
    /\ sent' = [sent EXCEPT ![c] = Append(@, <<r, "setup">>)]
    /\ request' = [request EXCEPT ![r].pc = "setup", ![r].conn = c, ![r].held = TRUE]
    /\ UNCHANGED <<pinned, waiting, borrowed, context, overtaken>>

\* connectionTimeoutMillis
ConnectTimeout(r) ==
    /\ At(r, "connect")
    /\ ReleaseSlot(r, Waiting)
    /\ UNCHANGED poolVars

\* The connection of r answers a query of r.
Answers(r, what) ==
    LET c == request[r].conn IN
    /\ sent[c] # <<>>
    /\ Head(sent[c]) = <<r, what>>
    /\ sent' = [sent EXCEPT ![c] = Tail(@)]

\* The query has set the audit context; the handler's repositories are bound
\* to this connection from here on.
Setup(r) ==
    /\ At(r, "setup")
    /\ Answers(r, "setup")
    /\ context' = [context EXCEPT ![request[r].conn] = r]
    /\ request' = [request EXCEPT ![r].pc = "handler"]
    /\ UNCHANGED <<pinned, waiting, conns, borrowed, overtaken>>

\* client.release and then the one-shot release of the slot, which is not
\* reached when the first one throws; r becomes new.
ReleaseBoth(r, new) ==
    LET c == request[r].conn IN
    /\ conns' = [conns EXCEPT ![c] = NoValue]
    /\ IF conns[c] = NoValue
       THEN request' = [request EXCEPT ![r] = new] /\ UNCHANGED <<pinned, waiting>>
       ELSE ReleaseSlot(r, new)

\* The query fails: connection and slot are released, whether or not an abort
\* has taken the fields and sent the query that clears the context.
SetupFails(r) ==
    /\ At(r, "setup")
    /\ Answers(r, "setup")
    /\ ReleaseBoth(r, IF request[r].clearing
                      THEN [request[r] EXCEPT !.pc = "done", !.held = FALSE]
                      ELSE Waiting)
    /\ overtaken' = (overtaken \/ ~request[r].held)
    /\ UNCHANGED <<borrowed, context>>

\* A handler, or a pool-bound transaction in it, asks for a second connection.
Nest(r) ==
    /\ At(r, "handler")
    /\ request' = [request EXCEPT ![r].pc = "nest"]
    /\ UNCHANGED <<pinned, waiting, poolVars>>

NestedConnect(r, c) ==
    /\ At(r, "nest")
    /\ conns[c] = NoValue
    /\ conns' = [conns EXCEPT ![c] = r]
    /\ request' = [request EXCEPT ![r].pc = "nested", ![r].extra = c]
    /\ UNCHANGED <<pinned, waiting, sent, borrowed, context, overtaken>>

NestedTimeout(r) ==
    /\ At(r, "nest")
    /\ request' = [request EXCEPT ![r].pc = "handler"]
    /\ UNCHANGED <<pinned, waiting, poolVars>>

NestedRelease(r) ==
    /\ At(r, "nested")
    /\ conns' = [conns EXCEPT ![request[r].extra] = NoValue]
    /\ request' = [request EXCEPT ![r].pc = "handler", ![r].extra = NoValue]
    /\ UNCHANGED <<pinned, waiting, sent, borrowed, context, overtaken>>

-----------------------------------------------------------------------------
(* The clean-up                                                            *)

\* Mutant of Held: the fields are not cleared, so that both hooks release.
HeldAlways(r) == request[r].conn # NoValue

\* What releaseClient looks at first.
Held(r) == request[r].held

\* releaseClient up to its await, while r is at pc: the fields are cleared, and
\* the query that clears the audit context is sent.
BeginRelease(r, pc, aborted) ==
    /\ sent' = [sent EXCEPT ![request[r].conn] = Append(@, <<r, "clear">>)]
    /\ request' = [request EXCEPT ![r].pc = pc, ![r].held = FALSE, ![r].clearing = TRUE,
                                  ![r].aborted = aborted]

\* The handler is done: onResponse.  When the client has gone away, the server
\* may never report the response as finished.
Respond(r) ==
    /\ At(r, "handler")
    /\ \/ /\ Held(r)
          /\ BeginRelease(r, "done", request[r].aborted)
       \/ /\ ~Held(r)
          /\ request' = [request EXCEPT ![r] = IF @.clearing THEN [@ EXCEPT !.pc = "done"]
                                                             ELSE Waiting]
          /\ UNCHANGED sent
       \/ /\ Held(r) /\ request[r].aborted
          /\ request' = [request EXCEPT ![r].pc = "lost"]
          /\ UNCHANGED sent
    /\ UNCHANGED <<pinned, waiting, conns, borrowed, context, overtaken>>

\* onRequestAbort: the client goes away.  The handler is not told.
ClientAbort(r) ==
    /\ InFlight(r)
    /\ ~request[r].aborted
    /\ request[r].pc \notin {"lost", "done"}
    /\ IF Held(r)
       THEN BeginRelease(r, request[r].pc, TRUE)
       ELSE request' = [request EXCEPT ![r].aborted = TRUE] /\ UNCHANGED sent
    /\ UNCHANGED <<pinned, waiting, conns, borrowed, context, overtaken>>

\* The rest of releaseClient: the context is cleared, or the query failed, and
\* either way connection and slot are released.
EndRelease(r) ==
    /\ InFlight(r)
    /\ request[r].clearing
    /\ Answers(r, "clear")
    /\ \/ context' = [context EXCEPT ![request[r].conn] = NoValue]
       \/ UNCHANGED context
    /\ ReleaseBoth(r, IF request[r].pc = "done" THEN Waiting
                      ELSE [request[r] EXCEPT !.clearing = FALSE])
    /\ UNCHANGED <<borrowed, overtaken>>

-----------------------------------------------------------------------------
(* Connections taken without the limiter: the authentication hooks, routes *)
(* without audit context, jobs.                                            *)

TakeUnpinned(b, c) ==
    /\ borrowed[b] = NoValue
    /\ conns[c] = NoValue
    /\ conns' = [conns EXCEPT ![c] = b]
    /\ borrowed' = [borrowed EXCEPT ![b] = c]
    /\ UNCHANGED <<pinned, waiting, request, sent, context, overtaken>>

ReleaseUnpinned(b) ==
    /\ borrowed[b] # NoValue
    /\ conns' = [conns EXCEPT ![borrowed[b]] = NoValue]
    /\ borrowed' = [borrowed EXCEPT ![b] = NoValue]
    /\ UNCHANGED <<pinned, waiting, request, sent, context, overtaken>>

-----------------------------------------------------------------------------
RequestStep(r) ==
    \/ Acquire(r)
    \/ SlotTimeout(r)
    \/ \E c \in Conns : Connect(r, c) \/ NestedConnect(r, c)
    \/ ConnectTimeout(r)
    \/ Setup(r)
    \/ SetupFails(r)
    \/ Nest(r)
    \/ NestedTimeout(r)
    \/ NestedRelease(r)
    \/ Respond(r)
    \/ ClientAbort(r)
    \/ EndRelease(r)

SlotsNext ==
    \/ \E r \in Requests : RequestStep(r)
    \/ \E b \in Borrowers : ReleaseUnpinned(b) \/ \E c \in Conns : TakeUnpinned(b, c)

SlotsSpec == SlotsInit /\ [][SlotsNext]_slotVars

-----------------------------------------------------------------------------
(* Properties                                                              *)

\* The requests whose slot has not been released.
Slotted == {r \in Requests : InFlight(r) /\ request[r].slot}

\* The slots the limiter counts, against the requests that have one: no slot is
\* ever released twice, so that there are never more of them than the limiter
\* counts.  As long as no setup has failed behind the abort of its request none
\* is lost either: the limiter counts exactly those, and each will be released,
\* since its request is about to connect, will be found by releaseClient or is
\* in it.  Nobody waits while a slot is free, and whoever waits is in line
\* (audit-context.ts, "Resolves with a one-shot release once a slot is held").
SlotsAccounted ==
    /\ Cardinality(Slotted) <= pinned
    /\ ~overtaken =>
         /\ pinned = Cardinality(Slotted)
         /\ \A r \in Slotted : At(r, "connect") \/ Held(r) \/ request[r].clearing
    /\ waiting # <<>> => pinned = Limit
    /\ \A r \in Requests : At(r, "queued") <=> \E i \in DOMAIN waiting : waiting[i] = r

\* A connection pinned by a request.
Pins(r) == InFlight(r) /\ Held(r)

\* A connection nobody can give back before it obtains another one.
Blocked(c) ==
    \E r \in Requests : Pins(r) /\ request[r].conn = c /\ request[r].pc \in {"nest", "lost"}

\* A handler that asks for a second connection is never in a pool where every
\* connection waits for another (audit-context.ts, "were pinned clients to hold
\* every slot, those nested acquisitions could never complete").
NestedCanComplete ==
    (\E r \in Requests : At(r, "nest")) => \E c \in Conns : ~Blocked(c)

\* "every subsequent query on this dedicated client sees the audit context"
\* (audit-context.ts): a handler's connection never carries the context of
\* another request, which an abort in mid-handler does not keep.
NeverAnothersContext ==
    \A r \in Requests :
        At(r, "handler") => context[request[r].conn] \in {r, NoValue}
=============================================================================
