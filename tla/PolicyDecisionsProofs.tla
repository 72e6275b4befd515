---------------------- MODULE PolicyDecisionsProofs ----------------------
(***************************************************************************)
(* Theorems about PolicyDecisions, for any policies, traces, edits and     *)
(* number of requests, any size of the cache and any setting of the times. *)
(*                                                                         *)
(* First the walk: Ancestors and Walk are recursive functions, shown to    *)
(* exist from the existence of least elements, and the generations of      *)
(* /judge are shown to give the frames what the sequential walk gives      *)
(* them.  Then what an allowed trace may reach, then the cache and the     *)
(* requests, then the theorems.                                            *)
(***************************************************************************)
EXTENDS PolicyDecisions, FiniteSetTheorems, WellFoundedInduction, TLAPS

\* Least elements, and induction up to a bound
Least(S, m) == m \in S /\ \A k \in S : m <= k

\* A set of naturals below a bound has a least element.
LEMMA LeastExists ==
  ASSUME NEW n \in Nat, NEW S \in SUBSET (0 .. n), S # {}
  PROVE  \E m \in S : Least(S, m)
  <1> DEFINE W == 0 .. n
             Bad == {T \in SUBSET W : T # {} /\ ~\E m \in T : Least(T, m)}
  <1>1. SUFFICES ASSUME Bad # {} PROVE FALSE
    OBVIOUS
  <1>2. IsFiniteSet(W)
    BY FS_Interval
  <1>3. IsWellFoundedOn(StrictSubsetOrdering(W), FiniteSubsetsOf(W))
    BY FS_StrictSubsetOrderingWellFounded
  <1>4. Bad \subseteq FiniteSubsetsOf(W)
    BY <1>2, FS_Subset DEF FiniteSubsetsOf
  <1>5. \A T \in SUBSET W : T \subseteq Nat
    OBVIOUS
  <1> HIDE DEF Bad, W
  <1>6. PICK T \in Bad : \A U \in Bad : <<U, T>> \notin StrictSubsetOrdering(W)
    BY <1>1, <1>3, <1>4, WFMin
  <1>7. T \in SUBSET W /\ T # {} /\ ~\E m \in T : Least(T, m)
    BY DEF Bad
  <1>8. PICK x \in T : TRUE
    BY <1>7
  <1> DEFINE U == T \ {x}
  <1>9. U \notin Bad
    <2>1. <<U, T>> \in StrictSubsetOrdering(W)
      BY <1>7, <1>8 DEF StrictSubsetOrdering
    <2> QED BY <1>6, <2>1
  <1>10. CASE U = {}
    BY <1>5, <1>7, <1>8, <1>10 DEF Least
  <1>11. CASE U # {}
    <2>1. PICK m \in U : Least(U, m)
      BY <1>7, <1>9, <1>11 DEF Bad
    <2>2. m \in Nat /\ x \in Nat
      BY <1>5, <1>7, <1>8, <2>1
    <2>3. CASE m <= x
      BY <1>7, <2>1, <2>2, <2>3 DEF Least
    <2>4. CASE x <= m
      <3>1. \A k \in T : k \in Nat
        BY <1>5, <1>7
      <3>2. \A k \in T : x <= k
        BY <2>1, <2>2, <2>4, <3>1 DEF Least
      <3> QED BY <1>7, <1>8, <3>2 DEF Least
    <2> QED BY <2>2, <2>3, <2>4
  <1> QED BY <1>10, <1>11

\* What holds of a number when it holds of all below it holds up to the bound.
LEMMA UpTo ==
  ASSUME NEW n \in Nat, NEW G, 0 \in G, \A k \in 0 .. n : k \in G => k + 1 \in G
  PROVE  \A k \in 0 .. n + 1 : k \in G
  <1> DEFINE Bad == (0 .. n + 1) \ G
  <1>1. SUFFICES ASSUME Bad # {} PROVE FALSE
    OBVIOUS
  <1>2. PICK m \in Bad : Least(Bad, m)
    <2>1. n + 1 \in Nat /\ Bad \in SUBSET (0 .. n + 1)
      OBVIOUS
    <2> HIDE DEF Bad
    <2> QED BY <1>1, <2>1, LeastExists
  <1>3. m \in 1 .. n + 1
    OBVIOUS
  <1>4. m - 1 \in 0 .. n /\ (m - 1) + 1 = m /\ ~(m <= m - 1)
    BY <1>3
  <1>5. m - 1 \in G
    BY <1>2, <1>4 DEF Least
  <1>6. (m - 1) + 1 \in G
    BY <1>4, <1>5
  <1> QED BY <1>4, <1>6

\* A function on 0 .. n may be defined by what it is below each place.
LooksBelow(n, V, H) ==
    /\ H \in [(0 .. n) \X [0 .. n -> V] -> V]
    /\ \A i \in 0 .. n : \A g, h \in [0 .. n -> V] :
          (\A j \in 0 .. n : j < i => g[j] = h[j]) => H[<<i, g>>] = H[<<i, h>>]
Solves(n, V, H, w) == w \in [0 .. n -> V] /\ \A i \in 0 .. n : w[i] = H[<<i, w>>]

\* A function that looks below itself only has a solution: what makes the CHOOSE
\* behind a recursive definition find one.
LEMMA RecursionExists ==
  ASSUME NEW n \in Nat, NEW V, NEW v0 \in V, NEW H, LooksBelow(n, V, H)
  PROVE  \E w : Solves(n, V, H, w)
  <1> DEFINE Follows(w, k) == \A i \in 0 .. n : i < k => w[i] = H[<<i, w>>]
             G == {k \in Nat : \E w \in [0 .. n -> V] : Follows(w, k)}
  <1>1. /\ H \in [(0 .. n) \X [0 .. n -> V] -> V]
        /\ \A i \in 0 .. n : \A g, h \in [0 .. n -> V] :
              (\A j \in 0 .. n : j < i => g[j] = h[j]) => H[<<i, g>>] = H[<<i, h>>]
    BY DEF LooksBelow
  <1>2. 0 \in G
    <2>1. [i \in 0 .. n |-> v0] \in [0 .. n -> V]
      OBVIOUS
    <2>2. \A w : Follows(w, 0)
      OBVIOUS
    <2> QED BY <2>1, <2>2
  <1>3. ASSUME NEW k \in 0 .. n, k \in G PROVE k + 1 \in G
    <2>1. PICK w \in [0 .. n -> V] : Follows(w, k)
      BY <1>3
    <2>2. \A i \in 0 .. n : i < k => w[i] = H[<<i, w>>]
      BY <2>1
    <2> DEFINE w2 == [w EXCEPT ![k] = H[<<k, w>>]]
    <2>3. H[<<k, w>>] \in V
      BY <1>1
    <2>4. w2 \in [0 .. n -> V] /\ w2[k] = H[<<k, w>>] /\ \A j \in 0 .. n : j < k => w2[j] = w[j]
      BY <2>3
    <2> HIDE DEF w2, G
    <2>5. ASSUME NEW i \in 0 .. n, i < k + 1 PROVE w2[i] = H[<<i, w2>>]
      <3>1. H[<<i, w2>>] = H[<<i, w>>]
        <4>1. \A j \in 0 .. n : j < i => w2[j] = w[j]
          BY <2>4, <2>5
        <4> QED BY <1>1, <2>4, <4>1
      <3>2. CASE i = k
        BY <2>4, <3>1, <3>2
      <3>3. CASE i < k
        BY <2>2, <2>4, <3>1, <3>3
      <3> QED BY <2>5, <3>2, <3>3
    <2>6. Follows(w2, k + 1)
      BY <2>5
    <2>7. k + 1 \in Nat
      OBVIOUS
    <2> HIDE DEF Follows
    <2> QED BY <2>4, <2>6, <2>7 DEF G
  <1> HIDE DEF G
  <1>4. n + 1 \in G
    BY <1>2, <1>3, UpTo
  <1>5. PICK w \in [0 .. n -> V] : Follows(w, n + 1)
    BY <1>4 DEF G
  <1>6. \A i \in 0 .. n : i < n + 1 => w[i] = H[<<i, w>>]
    BY <1>5
  <1> QED BY <1>6 DEF Solves

-----------------------------------------------------------------------------
\* The recursive definitions

\* What the walk needs to know of a trace: a frame comes after the one that made it.
LEMMA FramesOf ==
  ASSUME NEW in, WellFormed(in)
  PROVE  /\ Len(in.frames) \in Nat
         /\ \A i \in 1 .. Len(in.frames) : in.frames[i] \in Frames
         /\ \A i \in 2 .. Len(in.frames) : in.frames[i].parent \in 1 .. i - 1
  BY DEF WellFormed

\* The recursion of Ancestors, unfolded once.
LEMMA AncestorsAre ==
  ASSUME NEW in, WellFormed(in)
  PROVE  /\ Ancestors(in) \in [0 .. Len(in.frames) -> SUBSET (1 .. Len(in.frames))]
         /\ \A i \in 0 .. Len(in.frames) :
               Ancestors(in)[i] = IF i <= 1 THEN {}
                                  ELSE {in.frames[i].parent} \cup Ancestors(in)[in.frames[i].parent]
  <1> DEFINE n == Len(in.frames)
             D == 0 .. n
             V == SUBSET (1 .. n)
             Up(i, g) == IF i <= 1 THEN {} ELSE {in.frames[i].parent} \cup g[in.frames[i].parent]
             H == [x \in D \X [D -> V] |-> Up(x[1], x[2])]
  <1>1. n \in Nat /\ \A i \in D : i > 1 => in.frames[i].parent \in D /\ in.frames[i].parent < i
                                           /\ in.frames[i].parent \in 1 .. n
    BY FramesOf
  <1>2. \A i \in D : \A g \in [D -> V] : H[<<i, g>>] = Up(i, g)
    OBVIOUS
  <1>3. H \in [D \X [D -> V] -> V]
    BY <1>1
  <1>4. ASSUME NEW i \in D, NEW g \in [D -> V], NEW h \in [D -> V],
               \A j \in D : j < i => g[j] = h[j]
        PROVE  H[<<i, g>>] = H[<<i, h>>]
    <2>1. Up(i, g) = Up(i, h)
      <3>1. CASE i <= 1
        BY <3>1
      <3>2. CASE ~(i <= 1)
        <4>1. g[in.frames[i].parent] = h[in.frames[i].parent]
          BY <1>1, <1>4, <3>2
        <4> QED BY <4>1
      <3> QED BY <3>1, <3>2
    <2> HIDE DEF H, Up, V
    <2> QED BY <1>2, <2>1
  <1>5. \E w : Solves(n, V, H, w)
    <2>1. {} \in V
      OBVIOUS
    <2> HIDE DEF V, H
    <2>2. LooksBelow(n, V, H)
      BY <1>3, <1>4 DEF LooksBelow
    <2> QED BY <1>1, <2>1, <2>2, RecursionExists
  <1>6. \E w : w = [i \in D |-> Up(i, w)] /\ w \in [D -> V]
    <2>1. PICK w \in [D -> V] : \A i \in D : w[i] = H[<<i, w>>]
      BY <1>5 DEF Solves
    <2> HIDE DEF H, Up, V, D
    <2>2. w = [i \in D |-> Up(i, w)]
      BY <1>2, <2>1
    <2> QED BY <2>1, <2>2
  <1>7. Ancestors(in) = CHOOSE w : w = [i \in D |-> Up(i, w)]
    BY DEF Ancestors
  <1>8. Ancestors(in) = [i \in D |-> Up(i, Ancestors(in))]
    <2> DEFINE A == CHOOSE w : w = [i \in D |-> Up(i, w)]
    <2>1. \E w : w = [i \in D |-> Up(i, w)]
      BY <1>6
    <2>2. A = [i \in D |-> Up(i, A)]
      BY <2>1
    <2> QED BY <1>7, <2>2
  <1> DEFINE A == Ancestors(in)
  <1>9. \A i \in D : A[i] = Up(i, A)
    <2> HIDE DEF Up
    <2>1. A = [i \in D |-> Up(i, A)]
      BY <1>8
    <2> QED BY <2>1
  <1>10. \A i \in D : A[i] \in V
    <2> DEFINE Bad == {i \in D : A[i] \notin V}
    <2> SUFFICES ASSUME Bad # {} PROVE FALSE
      OBVIOUS
    <2>1. PICK m \in Bad : Least(Bad, m)
      <3>1. Bad \in SUBSET (0 .. n)
        OBVIOUS
      <3> HIDE DEF Bad
      <3> QED BY <1>1, <3>1, LeastExists
    <2>2. m \in D /\ A[m] \notin V /\ A[m] = Up(m, A)
      BY <1>9
    <2>3. CASE m <= 1
      BY <2>2, <2>3
    <2>4. CASE ~(m <= 1)
      <3>1. in.frames[m].parent \in D /\ in.frames[m].parent < m /\ in.frames[m].parent \in 1 .. n
        BY <1>1, <2>2, <2>4
      <3>2. A[in.frames[m].parent] \in V
        BY <1>1, <2>1, <3>1 DEF Least
      <3>3. A[m] = {in.frames[m].parent} \cup A[in.frames[m].parent]
        BY <2>2, <2>4
      <3> QED BY <2>2, <3>1, <3>2, <3>3
    <2> QED BY <2>3, <2>4
  <1> HIDE DEF Up
  <1>11. A \in [D -> V]
    <2>1. A = [i \in D |-> A[i]]
      BY <1>8, <1>9
    <2> HIDE DEF A
    <2> QED BY <1>10, <2>1
  <1> QED BY <1>9, <1>11 DEF Up

\* What is above a frame is its parent and what is above that.
LEMMA ParentAndAbove ==
  ASSUME NEW in, WellFormed(in), NEW i \in 1 .. Len(in.frames)
  PROVE  Ancestors(in)[i] = IF i = 1 THEN {}
                            ELSE {in.frames[i].parent} \cup Ancestors(in)[in.frames[i].parent]
  <1>1. Len(in.frames) \in Nat /\ i \in 0 .. Len(in.frames) /\ (i <= 1 <=> i = 1)
    BY FramesOf
  <1> QED BY <1>1, AncestorsAre

\* A decision is one of four.
LEMMA DecideRange ==
  ASSUME NEW user, NEW contract, NEW row, NEW call, NEW access, NEW covered, NEW links, NEW abi
  PROVE  Decide(user, contract, row, call, access, covered, links, abi)
            \in {"deny", "error", "allow", "umbrella"}
  <1> DEFINE res == Decide(user, contract, row, call, access, covered, links, abi)
  <1>1. CASE user.dead
    BY <1>1 DEF Decide
  <1>2. CASE ~user.dead
    BY <1>2 DEF Decide
  <1> QED BY <1>1, <1>2

Given == {"skip", "error", "deny", "allow", "umbrella"}

\* A frame that has been looked at has a verdict.
LEMMA FrameVerdictRange ==
  ASSUME NEW in, NEW v, NEW i, NEW user, NEW view, NEW p
  PROVE  FrameVerdict(in, v, i, user, view, p) \in Given
  BY DecideRange DEF FrameVerdict, Given

\* Of the other frames, a verdict depends on whether an umbrella is above only.
LEMMA VerdictDependsOnCover ==
  ASSUME NEW in, NEW v, NEW v2, NEW i, NEW user, NEW view, NEW p,
         Covered(in, v, i) <=> Covered(in, v2, i)
  PROVE  FrameVerdict(in, v, i, user, view, p) = FrameVerdict(in, v2, i, user, view, p)
  <1>1. Covered(in, v, i) = Covered(in, v2, i)
    BY DEF Covered
  <1> QED BY <1>1 DEF FrameVerdict

\* What the look-up reads when the tables stand still, the verdicts before i in
\* pre-order, and whether the walk gets to i.
ViewOf(p) == [contract |-> p.contract, direct |-> p.direct, templ |-> p.templ]
Below(in, w, i) == [j \in 1 .. Len(in.frames) |-> IF j < i THEN w[j] ELSE "none"]
Reached(in, w, i) == i > 1 => w[in.frames[i].parent] \in Descends

\* The recursion of Walk, unfolded once.
LEMMA WalkIs ==
  ASSUME NEW p, NEW in, WellFormed(in)
  PROVE  /\ Walk(p, in) \in [0 .. Len(in.frames) -> Verdicts]
         /\ \A i \in 1 .. Len(in.frames) :
               Walk(p, in)[i] = IF Reached(in, Walk(p, in), i)
                                THEN FrameVerdict(in, Below(in, Walk(p, in), i), i, p.user, ViewOf(p), p)
                                ELSE "none"
  <1> DEFINE n == Len(in.frames)
             D == 0 .. n
             view == [contract |-> p.contract, direct |-> p.direct, templ |-> p.templ]
             Step(i, w) == IF i = 0 \/ (i > 1 /\ w[in.frames[i].parent] \notin Descends) THEN "none"
                           ELSE FrameVerdict(in, [j \in 1 .. n |-> IF j < i THEN w[j] ELSE "none"],
                                             i, p.user, view, p)
             H == [x \in D \X [D -> Verdicts] |-> Step(x[1], x[2])]
  <1>1. n \in Nat /\ \A i \in D : i > 1 => in.frames[i].parent \in D /\ in.frames[i].parent < i
    BY FramesOf
  <1>2. \A i, w : Step(i, w) \in Verdicts
    <2>1. Given \subseteq Verdicts /\ "none" \in Verdicts
      BY DEF Given, Verdicts
    <2>2. \A v, i : FrameVerdict(in, v, i, p.user, view, p) \in Verdicts
      BY <2>1, FrameVerdictRange
    <2> HIDE DEF view
    <2> QED BY <2>1, <2>2
  <1>3. ASSUME NEW i \in D, NEW g \in [D -> Verdicts], NEW h \in [D -> Verdicts],
               \A j \in D : j < i => g[j] = h[j]
        PROVE  Step(i, g) = Step(i, h)
    <2>1. CASE i = 0
      BY <2>1
    <2>2. CASE i # 0
      <3>1. [j \in 1 .. n |-> IF j < i THEN g[j] ELSE "none"] = [j \in 1 .. n |-> IF j < i THEN h[j] ELSE "none"]
        BY <1>1, <1>3
      <3>2. i > 1 => g[in.frames[i].parent] = h[in.frames[i].parent]
        BY <1>1, <1>3
      <3> HIDE DEF view
      <3> QED BY <2>2, <3>1, <3>2
    <2> QED BY <2>1, <2>2
  <1> HIDE DEF Step
  <1>4. \A i \in D : \A w \in [D -> Verdicts] : H[<<i, w>>] = Step(i, w)
    OBVIOUS
  <1>5. H \in [D \X [D -> Verdicts] -> Verdicts]
    BY <1>2
  <1>6. \E w : Solves(n, Verdicts, H, w)
    <2>1. "none" \in Verdicts
      BY DEF Verdicts
    <2> HIDE DEF H
    <2>2. ASSUME NEW i \in D, NEW g \in [D -> Verdicts], NEW h \in [D -> Verdicts],
                 \A j \in D : j < i => g[j] = h[j]
          PROVE  H[<<i, g>>] = H[<<i, h>>]
      <3>1. Step(i, g) = Step(i, h)
        BY <1>3, <2>2
      <3>2. H[<<i, g>>] = Step(i, g) /\ H[<<i, h>>] = Step(i, h)
        BY <1>4
      <3> QED BY <3>1, <3>2
    <2>3. LooksBelow(n, Verdicts, H)
      BY <1>5, <2>2 DEF LooksBelow
    <2> QED BY <1>1, <2>1, <2>3, RecursionExists
  <1>7. \E w : w = [i \in D |-> Step(i, w)] /\ w \in [D -> Verdicts]
    <2>1. PICK w \in [D -> Verdicts] : \A i \in D : w[i] = H[<<i, w>>]
      BY <1>6 DEF Solves
    <2> HIDE DEF H, D
    <2>2. w = [i \in D |-> Step(i, w)]
      BY <1>4, <2>1
    <2> QED BY <2>1, <2>2
  <1>8. Walk(p, in) = CHOOSE w : w = [i \in D |-> Step(i, w)]
    BY DEF Walk, Step
  <1>9. Walk(p, in) = [i \in D |-> Step(i, Walk(p, in))]
    <2> DEFINE A == CHOOSE w : w = [i \in D |-> Step(i, w)]
    <2>1. A = [i \in D |-> Step(i, A)]
      BY <1>7
    <2> QED BY <1>8, <2>1
  <1>10. Walk(p, in) \in [D -> Verdicts]
    BY <1>2, <1>9
  <1>11. ASSUME NEW i \in 1 .. n
         PROVE  Walk(p, in)[i] = Step(i, Walk(p, in))
    BY <1>1, <1>9
  <1>12. ASSUME NEW i \in 1 .. n
         PROVE  Step(i, Walk(p, in)) =
                   IF Reached(in, Walk(p, in), i)
                   THEN FrameVerdict(in, Below(in, Walk(p, in), i), i, p.user, ViewOf(p), p)
                   ELSE "none"
    <2>1. i # 0 /\ (Reached(in, Walk(p, in), i) <=> ~(i > 1 /\ Walk(p, in)[in.frames[i].parent] \notin Descends))
      BY <1>1 DEF Reached
    <2> QED BY <2>1 DEF Step, Below, ViewOf
  <1> QED BY <1>10, <1>11, <1>12

\* Induction over the frames of a trace.
LEMMA Strong ==
  ASSUME NEW n \in Nat, NEW G,
         \A i \in 1 .. n : (\A k \in 1 .. n : k < i => k \in G) => i \in G
  PROVE  \A i \in 1 .. n : i \in G
  <1> DEFINE Bad == (1 .. n) \ G
  <1>1. SUFFICES ASSUME Bad # {} PROVE FALSE
    OBVIOUS
  <1>2. PICK m \in Bad : Least(Bad, m)
    <2>1. Bad \in SUBSET (0 .. n)
      OBVIOUS
    <2> HIDE DEF Bad
    <2> QED BY <1>1, <2>1, LeastExists
  <1>3. \A k \in 1 .. n : k < m => k \in G
    BY <1>2 DEF Least
  <1> QED BY <1>3

-----------------------------------------------------------------------------
\* The frames above a frame

\* Ancestors come before their frame, and theirs are the frame's.
LEMMA AncestorsAbove ==
  ASSUME NEW in, WellFormed(in), NEW i \in 1 .. Len(in.frames)
  PROVE  /\ Ancestors(in)[i] \subseteq 1 .. i - 1
         /\ \A j \in Ancestors(in)[i] : Ancestors(in)[j] \subseteq Ancestors(in)[i]
         /\ \A j \in Ancestors(in)[i] : ~Transfer(in.frames[j])
  <1> DEFINE n == Len(in.frames)
             A == Ancestors(in)
             Fine(k) == /\ A[k] \subseteq 1 .. k - 1
                        /\ \A j \in A[k] : A[j] \subseteq A[k] /\ ~Transfer(in.frames[j])
             G == {k \in 1 .. n : Fine(k)}
  <1>1. n \in Nat
    BY FramesOf
  <1>2. ASSUME NEW k \in 1 .. n, \A l \in 1 .. n : l < k => l \in G
        PROVE  k \in G
    <2>1. CASE k = 1
      <3>1. A[k] = {}
        BY <2>1, ParentAndAbove
      <3> QED BY <3>1
    <2>2. CASE k # 1
      <3> DEFINE q == in.frames[k].parent
      <3>1. q \in 1 .. k - 1 /\ ~Transfer(in.frames[q])
        BY <1>1, <2>2 DEF WellFormed
      <3>2. A[k] = {q} \cup A[q]
        BY <2>2, ParentAndAbove
      <3> HIDE DEF q, A, n
      <3>3. Fine(q)
        BY <1>1, <1>2, <3>1
      <3>4. A[k] \subseteq 1 .. k - 1
        BY <1>1, <3>1, <3>2, <3>3
      <3>5. \A j \in A[k] : A[j] \subseteq A[k] /\ ~Transfer(in.frames[j])
        BY <3>1, <3>2, <3>3
      <3> QED BY <3>4, <3>5
    <2> QED BY <2>1, <2>2
  <1> HIDE DEF G
  <1>3. i \in G
    BY <1>1, <1>2, Strong
  <1> QED BY <1>3 DEF G

-----------------------------------------------------------------------------
\* Generations of frames and the sequential walk

\* The verdicts given so far are those of the walk w, and a frame has one only
\* after the frames above it.
Agrees(in, v, w) ==
    /\ v \in [1 .. Len(in.frames) -> Verdicts]
    /\ \A i \in 1 .. Len(in.frames) :
          v[i] # "none" => v[i] = w[i] /\ \A j \in Ancestors(in)[i] : v[j] # "none"

\* A request starts in agreement with any walk.
LEMMA FirstGeneration ==
  ASSUME NEW in, WellFormed(in), NEW w
  PROVE  Agrees(in, NoVerdicts(in), w)
  BY DEF Agrees, NoVerdicts, Verdicts

\* A generation decided over the tables of the walk agrees with it (Evaluate).
LEMMA NextGeneration ==
  ASSUME NEW p, NEW in, WellFormed(in), NEW v, Agrees(in, v, Walk(p, in)), NEW v2,
         v2 = [i \in DOMAIN v |-> IF i \in Frontier(in, v)
                                  THEN FrameVerdict(in, v, i, p.user, ViewOf(p), p) ELSE v[i]]
  PROVE  /\ Agrees(in, v2, Walk(p, in))
         /\ Len(in.frames) > 0 => v2[1] # "none"
  <1> DEFINE n == Len(in.frames)
             w == Walk(p, in)
             A == Ancestors(in)
  <1>1. n \in Nat /\ v \in [1 .. n -> Verdicts] /\ DOMAIN v = 1 .. n
    BY FramesOf DEF Agrees
  <1>2. \A i \in 1 .. n : v[i] # "none" => v[i] = w[i] /\ \A j \in A[i] : v[j] # "none"
    BY DEF Agrees
  <1>3. \A i \in 1 .. n : v2[i] = IF i \in Frontier(in, v)
                                  THEN FrameVerdict(in, v, i, p.user, ViewOf(p), p) ELSE v[i]
    BY <1>1
  <1>4. ASSUME NEW i \in 1 .. n, i \in Frontier(in, v)
        PROVE  v2[i] = w[i] /\ v2[i] \in Given /\ \A j \in A[i] : v[j] # "none"
    <2>1. Reached(in, w, i) /\ \A j \in A[i] : v[j] # "none"
      <3>1. CASE i = 1
        <4>1. A[i] = {}
          BY <3>1, ParentAndAbove
        <4> QED BY <3>1, <4>1 DEF Reached
      <3>2. CASE i # 1
        <4>1. in.frames[i].parent \in 1 .. n /\ v[in.frames[i].parent] \in Descends
          BY <1>1, <1>4, <3>2, FramesOf DEF Frontier
        <4>2. v[in.frames[i].parent] # "none"
          BY <4>1 DEF Descends
        <4>3. A[i] = {in.frames[i].parent} \cup A[in.frames[i].parent]
          BY <3>2, ParentAndAbove
        <4>4. w[in.frames[i].parent] \in Descends
          BY <1>2, <4>1, <4>2
        <4> HIDE DEF A, w
        <4> QED BY <1>2, <4>1, <4>2, <4>3, <4>4 DEF Reached
      <3> QED BY <3>1, <3>2
    <2>2. \A j \in A[i] : j \in 1 .. n /\ j < i /\ v[j] = w[j]
      BY <1>1, <1>2, <2>1, AncestorsAbove
    <2>3. \A j \in A[i] : Below(in, w, i)[j] = v[j]
      BY <2>2 DEF Below
    <2>4. Covered(in, v, i) <=> Covered(in, Below(in, w, i), i)
      BY <2>3 DEF Covered
    <2>5. FrameVerdict(in, v, i, p.user, ViewOf(p), p)
            = FrameVerdict(in, Below(in, w, i), i, p.user, ViewOf(p), p)
      BY <2>4, VerdictDependsOnCover
    <2>6. w[i] = FrameVerdict(in, Below(in, w, i), i, p.user, ViewOf(p), p)
      BY <1>1, <2>1, WalkIs
    <2>7. v2[i] = w[i]
      BY <1>3, <1>4, <2>5, <2>6
    <2>8. v2[i] \in Given
      BY <1>3, <1>4, FrameVerdictRange
    <2> QED BY <2>1, <2>7, <2>8
  <1>5. \A i \in 1 .. n : v2[i] \in Verdicts
    <2>1. Given \subseteq Verdicts
      BY DEF Given, Verdicts
    <2>2. ASSUME NEW i \in 1 .. n PROVE v2[i] \in Verdicts
      <3>1. CASE i \in Frontier(in, v)
        BY <1>4, <2>1, <3>1
      <3>2. CASE i \notin Frontier(in, v)
        BY <1>1, <1>3, <3>2
      <3> QED BY <3>1, <3>2
    <2> QED BY <2>2
  <1>6. \A j \in 1 .. n : v[j] # "none" => v2[j] # "none"
    <2>1. \A j \in 1 .. n : v[j] # "none" => j \notin Frontier(in, v)
      BY DEF Frontier
    <2> QED BY <1>3, <2>1
  <1>7. v2 \in [1 .. n -> Verdicts]
    BY <1>1, <1>5
  <1>8. ASSUME NEW i \in 1 .. n, v2[i] # "none"
        PROVE  v2[i] = w[i] /\ \A j \in A[i] : v2[j] # "none"
    <2>1. A[i] \subseteq 1 .. n
      BY <1>1, AncestorsAre
    <2>2. CASE i \in Frontier(in, v)
      BY <1>4, <1>6, <2>1, <2>2
    <2>3. CASE i \notin Frontier(in, v)
      BY <1>2, <1>3, <1>6, <1>8, <2>1, <2>3
    <2> QED BY <2>2, <2>3
  <1>9. ASSUME n > 0 PROVE v2[1] # "none"
    <2>1. 1 \in 1 .. n
      BY <1>1, <1>9
    <2>2. CASE v[1] = "none"
      <3>1. 1 \in Frontier(in, v)
        BY <2>1, <2>2 DEF Frontier
      <3> QED BY <1>4, <2>1, <3>1 DEF Given
    <2> QED BY <1>6, <2>1, <2>2
  <1> QED BY <1>7, <1>8, <1>9 DEF Agrees

\* The root, when refused, is the first refusal.
LEMMA MinIsOne ==
  ASSUME NEW n \in Nat, NEW B \in SUBSET (1 .. n), 1 \in B
  PROVE  Min(B) = 1
  <1>1. \A y \in B : 1 <= y
    OBVIOUS
  <1>2. \A x \in B : (\A y \in B : x <= y) => x = 1
    OBVIOUS
  <1> QED BY <1>1, <1>2 DEF Min

\* When the generations are finished, their verdict is the one of the walk: frames
\* that the generations skip are those it does not reach.
LEMMA WalkEnds ==
  ASSUME NEW p, NEW in, WellFormed(in), Len(in.frames) > 0,
         NEW v, Agrees(in, v, Walk(p, in)), Finished(in, v), v[1] # "none"
  PROVE  Resolve(in, v) = Resolve(in, [i \in 1 .. Len(in.frames) |-> Walk(p, in)[i]])
  <1> DEFINE n == Len(in.frames)
             w == Walk(p, in)
             u == [i \in 1 .. n |-> w[i]]
  <1>1. n \in Nat /\ 1 \in 1 .. n /\ v \in [1 .. n -> Verdicts]
    BY FramesOf DEF Agrees
  <1>2. \A i \in 1 .. n : v[i] # "none" => v[i] = w[i]
    BY DEF Agrees
  <1>3. CASE v[1] = "error"
    <2> DEFINE bad(x) == {i \in 1 .. n : x[i] \in {"deny", "error"}}
    <2>1. 1 \in bad(v) /\ 1 \in bad(u) /\ u[1] = "error"
      BY <1>1, <1>2, <1>3
    <2>2. Min(bad(v)) = 1 /\ Min(bad(u)) = 1
      <3> HIDE DEF u, n
      <3> QED BY <1>1, <2>1, MinIsOne
    <2> QED BY <1>3, <2>1, <2>2 DEF Resolve
  <1>4. CASE in.route = "admit"
    <2>1. n = 1
      BY <1>4 DEF WellFormed
    <2>2. v = u
      BY <1>1, <1>2, <2>1
    <2> QED BY <2>2
  <1>5. CASE Frontier(in, v) = {}
    <2> DEFINE G == {i \in 1 .. n : v[i] = w[i]}
    <2>1. ASSUME NEW i \in 1 .. n, \A k \in 1 .. n : k < i => k \in G
          PROVE  i \in G
      <3>1. CASE v[i] # "none"
        BY <1>2, <3>1
      <3>2. CASE v[i] = "none"
        <4>1. i # 1 /\ in.frames[i].parent \in 1 .. i - 1 /\ v[in.frames[i].parent] \notin Descends
          <5>1. i # 1
            BY <3>2
          <5>2. v[in.frames[i].parent] \notin Descends
            BY <1>1, <1>5, <3>2, <5>1 DEF Frontier
          <5> QED BY <1>1, <5>1, <5>2, FramesOf
        <4>2. w[in.frames[i].parent] \notin Descends
          BY <1>1, <2>1, <4>1
        <4>3. w[i] = "none"
          BY <1>1, <4>1, <4>2, WalkIs DEF Reached
        <4> QED BY <3>2, <4>3
      <3> QED BY <3>1, <3>2
    <2> HIDE DEF G
    <2>2. \A i \in 1 .. n : i \in G
      BY <1>1, <2>1, Strong
    <2>3. v = u
      BY <1>1, <2>2 DEF G
    <2> QED BY <2>3
  <1> QED BY <1>3, <1>4, <1>5 DEF Finished

-----------------------------------------------------------------------------
\* What a decision says about a row

\* A matched row is one of the tables, on a registered contract.
LEMMA MatchedIsRow ==
  ASSUME NEW p, Consistent(p), NEW a \in Addresses, NEW s \in Selectors,
         NEW row, row = Matched(p.contract, p.direct, p.templ, a, s), row # NoRow
  PROVE  row \in RowsOf(p) \ {NoRow} /\ p.contract[a] # NoRow
  <1>1. CASE p.direct[a][s] # NoRow
    <2>1. row = p.direct[a][s]
      BY <1>1 DEF Matched
    <2>2. row \in RowsOf(p)
      BY <2>1 DEF RowsOf
    <2>3. p.contract[a] # NoRow
      BY <1>1 DEF Consistent
    <2> QED BY <2>2, <2>3
  <1>2. CASE p.direct[a][s] = NoRow
    <2>1. p.contract[a] # NoRow /\ p.contract[a].template # NoRow
          /\ row = p.templ[p.contract[a].template][s]
      BY <1>2 DEF Matched
    <2>2. p.contract[a].template \in DOMAIN p.templ
      BY <2>1 DEF Consistent
    <2> QED BY <2>1, <2>2 DEF RowsOf
  <1> QED BY <1>1, <1>2

\* The roles and arguments looked up by the id of a row are the row's.
LEMMA LinksAreTheRows ==
  ASSUME NEW p, Consistent(p), NEW row \in RowsOf(p) \ {NoRow}
  PROVE  LinksOf(p, row) = [roles |-> row.roles, args |-> row.args]
  <1> DEFINE same == {q \in RowsOf(p) : q # NoRow /\ q.id = row.id}
  <1>1. row \in same
    OBVIOUS
  <1>2. \A q \in same : q = row
    BY DEF Consistent
  <1>3. (CHOOSE q \in same : TRUE) = row
    BY <1>1, <1>2
  <1> HIDE DEF same
  <1>4. LinksOf(p, row) = IF same = {} THEN [roles |-> {}, args |-> {}]
                          ELSE [roles |-> (CHOOSE q \in same : TRUE).roles,
                                args |-> (CHOOSE q \in same : TRUE).args]
    BY DEF LinksOf, same
  <1> QED BY <1>1, <1>3, <1>4

\* A rule that holds is one the signer meets.
LEMMA RuleMeets ==
  ASSUME NEW p, Consistent(p), NEW row \in RowsOf(p) \ {NoRow}, NEW f \in Frames, NEW abi,
         NEW links, links = [roles |-> row.roles, args |-> row.args]
  PROVE  LET args == ArgsOutcome(links, f, abi)
             holds == RuleHolds(row, p.user.roles \cap links.roles # {}, args) IN
         /\ holds => Meets(p, row, f)
         /\ Meets(p, row, f) /\ ~Throws(row, args) => holds
         /\ args = "allowed" => IsOwn(row, f)
  <1> DEFINE args == ArgsOutcome(links, f, abi)
  <1>1. row.rule \in Rules /\ f.decodes \in BOOLEAN
    BY DEF Consistent, Frames
  <1>2. args \in {"unknown", "allowed", "denied"}
    BY <1>1 DEF ArgsOutcome
  <1>3. args # "unknown" => (args = "allowed" <=> IsOwn(row, f))
    BY <1>1 DEF ArgsOutcome, IsOwn
  <1>4. HasRole(p, row) <=> p.user.roles \cap links.roles # {}
    BY DEF HasRole
  <1> HIDE DEF args
  <1>5. Throws(row, args) <=> row.rule \in Restricting /\ args = "unknown"
    BY DEF Throws
  <1> QED BY <1>1, <1>2, <1>3, <1>4, <1>5 DEF RuleHolds, Meets, Rules, Restricting, args

\* The parts of a decision, for one organization among several.
LEMMA DecidedDead ==
  ASSUME NEW user, user.dead, NEW contract, NEW row, NEW call, NEW access, NEW covered, NEW links, NEW abi
  PROVE  Decide(user, contract, row, call, access, covered, links, abi) = "deny"
  BY DEF Decide

LEMMA DecidedUmbrella ==
  ASSUME NEW user, user.dead \in BOOLEAN, NEW contract, NEW row, NEW call, NEW access,
         NEW covered \in BOOLEAN, NEW links, NEW abi,
         Decide(user, contract, row, call, access, covered, links, abi) = "umbrella"
  PROVE  /\ contract # NoRow /\ call.to \in Reserved => contract.org = Zone
         /\ row # NoRow /\ row.umbrella
         /\ Granted(user, contract, row, access, user.roles \cap links.roles # {},
                    ArgsOutcome(links, call, abi))
  BY DEF Decide

LEMMA DecidedUncovered ==
  ASSUME NEW user, user.dead = FALSE, NEW contract, NEW row, NEW call, NEW access,
         NEW links, NEW abi,
         contract # NoRow /\ call.to \in Reserved => contract.org = Zone,
         row # NoRow, row.umbrella = TRUE, AccessFits(row, access), OrgFits(row, contract, user),
         \/ Throws(row, ArgsOutcome(links, call, abi))
         \/ RuleHolds(row, user.roles \cap links.roles # {}, ArgsOutcome(links, call, abi))
  PROVE  Decide(user, contract, row, call, access, FALSE, links, abi) \in {"umbrella", "error"}
  BY DEF Decide, Granted

LEMMA DecidedAllowed ==
  ASSUME MultiOrg, NEW user, user.dead \in BOOLEAN, NEW contract, NEW row, NEW call, NEW access,
         NEW covered \in BOOLEAN, NEW links, NEW abi,
         Decide(user, contract, row, call, access, covered, links, abi) \in {"allow", "umbrella"}
  PROVE  /\ ~user.dead
         /\ covered => UnderUmbrella(user, contract, row, ArgsOutcome(links, call, abi))
         /\ ~covered \/ ~MayInherit(call.to, call.sel) =>
               Granted(user, contract, row, access, user.roles \cap links.roles # {},
                       ArgsOutcome(links, call, abi))
  BY DEF Decide

-----------------------------------------------------------------------------
\* What an allowed trace reaches

\* The parts of a verdict of /judge over one state of the tables.
Links(p, f) == IF RowOf(p, f) = NoRow THEN [roles |-> {}, args |-> {}] ELSE LinksOf(p, RowOf(p, f))
Abi(p, f) == IF p.contract[f.to] = NoRow THEN {} ELSE p.contract[f.to].abi
AccessAt(in, i) == IF i = 1 THEN in.access ELSE "unenforced"
Made(p, in, i, covered) ==
    LET f == in.frames[i] IN
    Decide(p.user, p.contract[f.to], RowOf(p, f), f, AccessAt(in, i), covered, Links(p, f), Abi(p, f))

\* The verdict of /judge on a frame, in those parts.
LEMMA VerdictIs ==
  ASSUME NEW p, NEW in, in.route = "judge", NEW v, NEW i
  PROVE  LET f == in.frames[i]
             made == Made(p, in, i, Covered(in, v, i)) IN
         FrameVerdict(in, v, i, p.user, ViewOf(p), p) =
            IF f.kind = "constructor" THEN "skip"
            ELSE IF i # 1 /\ Transfer(f) THEN "allow"
            ELSE IF f.sel \notin Selectors THEN "error"
            ELSE IF i = 1 /\ made = "deny" THEN "skip" ELSE made
  BY DEF FrameVerdict, Made, ViewOf, RowOf, Links, Abi, AccessAt

\* A trace that the walk allows.
Allowed(p, in) ==
    /\ Consistent(p) /\ p.user # NoRow
    /\ WellFormed(in) /\ in.route = "judge" /\ MultiOrg
    /\ \A i \in 1 .. Len(in.frames) :
          /\ Walk(p, in)[i] \in {"skip", "allow", "umbrella"}
          /\ Walk(p, in)[i] = FrameVerdict(in, Below(in, Walk(p, in), i), i, p.user, ViewOf(p), p)

\* The first refusal is a refusal.
LEMMA MinIsIn ==
  ASSUME NEW n \in Nat, NEW B \in SUBSET (1 .. n), B # {}
  PROVE  Min(B) \in B
  <1>1. PICK m \in B : Least(B, m)
    <2>1. B \in SUBSET (0 .. n)
      OBVIOUS
    <2> QED BY <2>1, LeastExists
  <1> QED BY <1>1 DEF Min, Least

\* An answer that allows is an allowed trace.
LEMMA AllowIsAllowed ==
  ASSUME NEW p, Consistent(p), NEW in, WellFormed(in), in.route = "judge", MultiOrg,
         in.frames # <<>>, AtOnce(p, in) = "allow"
  PROVE  Allowed(p, in)
  <1> DEFINE n == Len(in.frames)
             w == Walk(p, in)
             u == [i \in 1 .. n |-> w[i]]
             bad == {i \in 1 .. n : u[i] \in {"deny", "error"}}
  <1>1. p.user # NoRow /\ Resolve(in, u) = "allow"
    BY DEF AtOnce
  <1>2. n \in Nat
    BY FramesOf
  <1>3. bad = {}
    <2>1. SUFFICES ASSUME bad # {} PROVE FALSE
      OBVIOUS
    <2>2. Min(bad) \in bad
      <3>1. bad \in SUBSET (1 .. n)
        OBVIOUS
      <3> HIDE DEF bad, n
      <3> QED BY <1>2, <2>1, <3>1, MinIsIn
    <2>3. Resolve(in, u) = u[Min(bad)]
      BY <2>1 DEF Resolve
    <2> QED BY <1>1, <2>2, <2>3
  <1> DEFINE G == {i \in 1 .. n : w[i] \in {"skip", "allow", "umbrella"}}
  <1>4. ASSUME NEW i \in 1 .. n, \A k \in 1 .. n : k < i => k \in G
        PROVE  i \in G /\ w[i] = FrameVerdict(in, Below(in, w, i), i, p.user, ViewOf(p), p)
    <2>1. Reached(in, w, i)
      <3>1. CASE i = 1
        BY <3>1 DEF Reached
      <3>2. CASE i # 1
        <4>1. in.frames[i].parent \in 1 .. n /\ in.frames[i].parent < i
          BY <1>2, <3>2, FramesOf
        <4>2. w[in.frames[i].parent] \in {"skip", "allow", "umbrella"}
          BY <1>4, <4>1
        <4> QED BY <4>2 DEF Reached, Descends
      <3> QED BY <3>1, <3>2
    <2>2. w[i] = FrameVerdict(in, Below(in, w, i), i, p.user, ViewOf(p), p)
      BY <2>1, WalkIs
    <2>3. w[i] \in Given
      BY <2>2, FrameVerdictRange
    <2>4. w[i] \notin {"deny", "error"}
      BY <1>3
    <2> QED BY <2>2, <2>3, <2>4 DEF Given
  <1> HIDE DEF G
  <1>5. \A i \in 1 .. n : i \in G
    BY <1>2, <1>4, Strong
  <1>6. \A i \in 1 .. n : w[i] = FrameVerdict(in, Below(in, w, i), i, p.user, ViewOf(p), p)
    BY <1>4, <1>5
  <1> QED BY <1>1, <1>5, <1>6 DEF Allowed, G

\* A frame whose row was looked at has a decision that is no error.
LEMMA JudgedFrame ==
  ASSUME NEW p, NEW in, Allowed(p, in), NEW i \in 1 .. Len(in.frames),
         in.frames[i].kind # "constructor", i = 1 \/ ~Transfer(in.frames[i])
  PROVE  LET made == Made(p, in, i, Covered(in, Below(in, Walk(p, in), i), i)) IN
         /\ in.frames[i] \in Frames /\ in.frames[i].sel \in Selectors
         /\ made \in {"deny", "allow", "umbrella"}
         /\ made = "umbrella" <=> Walk(p, in)[i] = "umbrella"
         /\ i # 1 => made \in {"allow", "umbrella"}
  <1> DEFINE made == Made(p, in, i, Covered(in, Below(in, Walk(p, in), i), i))
             f == in.frames[i]
  <1>1. Walk(p, in)[i] = FrameVerdict(in, Below(in, Walk(p, in), i), i, p.user, ViewOf(p), p)
    BY DEF Allowed
  <1>2. Walk(p, in)[i] = IF f.sel \notin Selectors THEN "error"
                         ELSE IF i = 1 /\ made = "deny" THEN "skip" ELSE made
    <2>1. in.route = "judge"
      BY DEF Allowed
    <2>2. FrameVerdict(in, Below(in, Walk(p, in), i), i, p.user, ViewOf(p), p) =
             IF f.kind = "constructor" THEN "skip"
             ELSE IF i # 1 /\ Transfer(f) THEN "allow"
             ELSE IF f.sel \notin Selectors THEN "error"
             ELSE IF i = 1 /\ made = "deny" THEN "skip" ELSE made
      BY <2>1, VerdictIs
    <2>3. f.kind # "constructor" /\ ~(i # 1 /\ Transfer(f))
      OBVIOUS
    <2> HIDE DEF f, made
    <2> QED BY <1>1, <2>2, <2>3
  <1>3. Walk(p, in)[i] \in {"skip", "allow", "umbrella"}
    BY DEF Allowed
  <1>4. made \in {"deny", "error", "allow", "umbrella"}
    BY DecideRange DEF Made
  <1>5. f \in Frames
    BY FramesOf DEF Allowed
  <1> HIDE DEF made, f
  <1>6. f.sel \in Selectors
    BY <1>2, <1>3
  <1>7. /\ made \in {"deny", "allow", "umbrella"}
        /\ made = "umbrella" <=> Walk(p, in)[i] = "umbrella"
        /\ i # 1 => made \in {"allow", "umbrella"}
    BY <1>2, <1>3, <1>4, <1>6
  <1> QED BY <1>5, <1>6, <1>7 DEF made, f

\* What the row of such a frame grants.
LEMMA RowFacts ==
  ASSUME NEW p, Consistent(p), NEW f \in Frames, f.sel \in Selectors, RowOf(p, f) # NoRow
  PROVE  LET row == RowOf(p, f)
             args == ArgsOutcome(Links(p, f), f, Abi(p, f))
             holds == RuleHolds(row, p.user.roles \cap Links(p, f).roles # {}, args) IN
         /\ row \in RowsOf(p) \ {NoRow} /\ p.contract[f.to] # NoRow
         /\ row.umbrella \in BOOLEAN /\ row.orgOnly \in BOOLEAN
         /\ holds => Meets(p, row, f)
         /\ Meets(p, row, f) /\ ~Throws(row, args) => holds
         /\ args = "allowed" => IsOwn(row, f)
  <1> DEFINE row == RowOf(p, f)
  <1>1. f.to \in Addresses
    BY DEF Frames
  <1>2. row \in RowsOf(p) \ {NoRow} /\ p.contract[f.to] # NoRow
    BY <1>1, MatchedIsRow DEF RowOf
  <1>3. row.umbrella \in BOOLEAN /\ row.orgOnly \in BOOLEAN
    BY <1>2 DEF Consistent
  <1>4. Links(p, f) = [roles |-> row.roles, args |-> row.args]
    BY <1>2, LinksAreTheRows DEF Links
  <1> HIDE DEF row
  <1> QED BY <1>2, <1>3, <1>4, RuleMeets DEF row

\* In an allowed trace, the walk finds an umbrella above a frame exactly when a row
\* above it that the signer meets is one.
LEMMA CoverIsUmbrella ==
  ASSUME NEW p, NEW in, Allowed(p, in), p.user.dead = FALSE, NEW i \in 1 .. Len(in.frames)
  PROVE  Covered(in, Below(in, Walk(p, in), i), i) <=> UmbrellasOver(p, in, i) # {}
  <1> DEFINE n == Len(in.frames)
             w == Walk(p, in)
             A == Ancestors(in)
             f(j) == in.frames[j]
             row(j) == RowOf(p, f(j))
             org(j) == p.contract[f(j).to].org
             cov(j) == Covered(in, Below(in, w, j), j)
             args(j) == ArgsOutcome(Links(p, f(j)), f(j), Abi(p, f(j)))
             holds(j) == RuleHolds(row(j), p.user.roles \cap Links(p, f(j)).roles # {}, args(j))
  <1>1. WellFormed(in) /\ Consistent(p) /\ MultiOrg /\ n \in Nat
    BY FramesOf DEF Allowed
  <1>2. /\ A[i] \subseteq 1 .. i - 1
        /\ \A j \in A[i] : j \in 1 .. n /\ A[j] \subseteq A[i] /\ A[j] \subseteq 1 .. j - 1 /\ ~Transfer(f(j))
    BY <1>1, AncestorsAbove
  <1>3. \A j \in A[i] : Below(in, w, i)[j] = w[j]
    BY <1>1, <1>2 DEF Below
  <1>4. cov(i) <=> \E j \in A[i] : w[j] = "umbrella"
    BY <1>3 DEF Covered
  <1>5. ASSUME NEW j \in A[i], w[j] = "umbrella"
        PROVE  j \in UmbrellasOver(p, in, i)
    <2>1. j \in 1 .. n /\ w[j] = FrameVerdict(in, Below(in, w, j), j, p.user, ViewOf(p), p)
      BY <1>2 DEF Allowed
    <2>2. f(j).kind # "constructor"
      <3>1. f(j).kind = "constructor" =>
               FrameVerdict(in, Below(in, w, j), j, p.user, ViewOf(p), p) = "skip"
        BY DEF FrameVerdict
      <3> QED BY <1>5, <2>1, <3>1
    <2>3. f(j) \in Frames /\ f(j).sel \in Selectors /\ Made(p, in, j, cov(j)) = "umbrella"
      BY <1>2, <1>5, <2>1, <2>2, JudgedFrame
    <2>4. cov(j) \in BOOLEAN
      BY DEF Covered
    <2>5. /\ p.contract[f(j).to] # NoRow /\ f(j).to \in Reserved => org(j) = Zone
          /\ row(j) # NoRow /\ row(j).umbrella
          /\ Granted(p.user, p.contract[f(j).to], row(j), AccessAt(in, j),
                     p.user.roles \cap Links(p, f(j)).roles # {}, args(j))
      <3>1. Decide(p.user, p.contract[f(j).to], row(j), f(j), AccessAt(in, j), cov(j),
                   Links(p, f(j)), Abi(p, f(j))) = "umbrella"
        BY <2>3 DEF Made
      <3>2. p.user.dead \in BOOLEAN
        OBVIOUS
      <3> HIDE DEF cov, row, f
      <3> QED BY <2>4, <3>1, <3>2, DecidedUmbrella
    <2>6. p.contract[f(j).to] # NoRow /\ (holds(j) => Meets(p, row(j), f(j)))
      BY <1>1, <2>3, <2>5, RowFacts
    <2>7. /\ holds(j) /\ AccessFits(row(j), AccessAt(in, j))
          /\ OrgFits(row(j), p.contract[f(j).to], p.user)
      BY <2>5 DEF Granted
    <2>8. row(j).orgOnly => org(j) \in {Zone, p.user.org}
      BY <1>1, <2>6, <2>7 DEF OrgFits
    <2>9. j = 1 => AccessFits(row(j), in.access)
      BY <2>7 DEF AccessAt
    <2> HIDE DEF holds
    <2> QED BY <2>2, <2>5, <2>6, <2>7, <2>8, <2>9 DEF UmbrellasOver
  <1>6. ASSUME NEW j \in UmbrellasOver(p, in, i)
        PROVE  \E k \in A[i] : w[k] = "umbrella"
    <2>1. /\ j \in A[i] /\ f(j).kind # "constructor" /\ row(j) # NoRow /\ row(j).umbrella
          /\ Meets(p, row(j), f(j))
          /\ row(j).orgOnly => org(j) \in {Zone, p.user.org}
          /\ f(j).to \in Reserved => org(j) = Zone
          /\ j = 1 => AccessFits(row(j), in.access)
      BY DEF UmbrellasOver
    <2>2. j \in 1 .. n /\ ~Transfer(f(j))
      BY <1>2, <2>1
    <2>3. /\ f(j) \in Frames /\ f(j).sel \in Selectors
          /\ Made(p, in, j, cov(j)) \in {"deny", "allow", "umbrella"}
          /\ Made(p, in, j, cov(j)) = "umbrella" <=> w[j] = "umbrella"
      BY <2>1, <2>2, JudgedFrame
    <2>4. CASE cov(j)
      <3>1. PICK k \in A[j] : Below(in, w, j)[k] = "umbrella"
        BY <2>4 DEF Covered
      <3>2. k \in A[i] /\ k \in 1 .. n /\ k < j
        BY <1>1, <1>2, <2>1, <2>2, <3>1
      <3>3. w[k] = "umbrella"
        BY <3>1, <3>2 DEF Below
      <3> QED BY <3>2, <3>3
    <2>5. CASE ~cov(j)
      <3>1. /\ p.contract[f(j).to] # NoRow
            /\ row(j).umbrella \in BOOLEAN /\ row(j).orgOnly \in BOOLEAN
            /\ Meets(p, row(j), f(j)) /\ ~Throws(row(j), args(j)) => holds(j)
        BY <1>1, <2>1, <2>3, RowFacts
      <3>2. AccessFits(row(j), AccessAt(in, j)) /\ OrgFits(row(j), p.contract[f(j).to], p.user)
        BY <2>1 DEF AccessFits, AccessAt, OrgFits
      <3>3. Made(p, in, j, FALSE) \in {"umbrella", "error"}
        <4>1. row(j).umbrella = TRUE /\ (Throws(row(j), args(j)) \/ holds(j))
          BY <2>1, <3>1
        <4> QED BY <2>1, <3>2, <4>1, DecidedUncovered DEF Made
      <3>4. cov(j) = FALSE
        BY <2>5 DEF Covered
      <3>5. Made(p, in, j, cov(j)) \in {"umbrella", "error"}
        BY <3>3, <3>4
      <3> QED BY <2>1, <2>3, <3>5
    <2> QED BY <2>4, <2>5
  <1> QED BY <1>4, <1>5, <1>6

\* What a frame below the root of an allowed trace touches is within reach.
LEMMA AllowedReaches ==
  ASSUME NEW p, NEW in, Allowed(p, in), p.user.dead \in BOOLEAN, NEW i \in 2 .. Len(in.frames),
         in.frames[i].kind # "constructor", ~Transfer(in.frames[i])
  PROVE  Reaches(p, in, i)
  <1> DEFINE f == in.frames[i]
             row == RowOf(p, f)
             contract == p.contract[f.to]
             cov == Covered(in, Below(in, Walk(p, in), i), i)
             args == ArgsOutcome(Links(p, f), f, Abi(p, f))
             roleOk == p.user.roles \cap Links(p, f).roles # {}
             granted == Granted(p.user, contract, row, "unenforced", roleOk, args)
             under == UnderUmbrella(p.user, contract, row, args)
  <1>1. i \in 1 .. Len(in.frames) /\ i # 1 /\ Consistent(p) /\ MultiOrg
    BY FramesOf DEF Allowed
  <1>2. f \in Frames /\ f.sel \in Selectors /\ Made(p, in, i, cov) \in {"allow", "umbrella"}
    BY <1>1, JudgedFrame
  <1>3. cov \in BOOLEAN
    BY DEF Covered
  <1>4. /\ ~p.user.dead
        /\ cov => under
        /\ ~cov \/ ~MayInherit(f.to, f.sel) => granted
    <2>1. Made(p, in, i, cov) =
             Decide(p.user, contract, row, f, "unenforced", cov, Links(p, f), Abi(p, f))
      BY <1>1 DEF Made, AccessAt
    <2> HIDE DEF cov, f, row, contract
    <2> QED BY <1>1, <1>2, <1>3, <2>1, DecidedAllowed
  <1>5. cov <=> UmbrellasOver(p, in, i) # {}
    BY <1>1, <1>4, CoverIsUmbrella
  <1>6. row # NoRow => contract # NoRow /\ (args = "allowed" => IsOwn(row, f))
                       /\ (RuleHolds(row, roleOk, args) => Meets(p, row, f))
    BY <1>1, <1>2, RowFacts
  <1>7. granted => /\ row # NoRow /\ Meets(p, row, f)
                   /\ contract.org \notin {Zone, p.user.org} => ~row.orgOnly
    BY <1>1, <1>6 DEF Granted, OrgFits
  <1>8. under => /\ contract # NoRow /\ contract.org \in {Zone, p.user.org}
                 /\ row # NoRow /\ row.rule \in Restricting => IsOwn(row, f)
    BY <1>6 DEF UnderUmbrella
  <1> HIDE DEF granted, under, cov, row, contract, f
  <1>9. contract # NoRow
    BY <1>4, <1>6, <1>7, <1>8
  <1> QED BY <1>3, <1>4, <1>5, <1>7, <1>8, <1>9 DEF Reaches, row, contract, f

-----------------------------------------------------------------------------
\* The invariant

\* What the variables hold
Users == {p.user : p \in Policies} \cup {NoRow}
Views == [contract : {p.contract : p \in Policies} \cup {NoRow},
          direct : {p.direct : p \in Policies} \cup {NoRow},
          templ : {p.templ : p \in Policies} \cup {NoRow}]
Req == [pc : Pcs, input : Inputs, user : Users, view : Views, frames : Seq(Verdicts),
        verdict : Verdicts, began : Nat, settled : Nat, open : BOOLEAN]
Entries == [key : {KeyOf(in) : in \in Inputs}, verdict : {"allow", "deny"},
            expires : Ttl .. MaxTime + Ttl]

\* An entry that is too young to rest on anything older than the last edit is right.
EntryOK(e) ==
    /\ e \in Entries /\ e.expires <= now + Ttl
    /\ edited = NoRow \/ edited + Ttl + MaxLatency < e.expires =>
          \A in \in Inputs : e.key = KeyOf(in) => e.verdict = AtOnce(policy, in)

\* The cache keeps to its size and has one entry for a key, each right or too old.
CacheOK(c) ==
    /\ c \in Seq(Entries) /\ Len(c) <= MaxEntries
    /\ \A k, l \in 1 .. Len(c) : c[k].key = c[l].key => k = l
    /\ \A k \in 1 .. Len(c) : EntryOK(c[k])

\* RemoveAt takes one element out and keeps the order of the others.
LEMMA Removed ==
  ASSUME NEW S, NEW q \in Seq(S), NEW k \in 1 .. Len(q)
  PROVE  /\ RemoveAt(q, k) \in Seq(S) /\ Len(RemoveAt(q, k)) = Len(q) - 1
         /\ \A i \in 1 .. Len(q) - 1 : RemoveAt(q, k)[i] = IF i < k THEN q[i] ELSE q[i + 1]
  <1>1. Len(q) \in Nat
    OBVIOUS
  <1> DEFINE a == SubSeq(q, 1, k - 1)
             b == SubSeq(q, k + 1, Len(q))
  <1>2. a \in Seq(S) /\ Len(a) = k - 1 /\ \A i \in 1 .. k - 1 : a[i] = q[i]
    BY <1>1
  <1>3. b \in Seq(S) /\ Len(b) = Len(q) - k /\ \A i \in 1 .. Len(q) - k : b[i] = q[k + i]
    BY <1>1
  <1> HIDE DEF a, b
  <1>4. a \o b \in Seq(S) /\ Len(a \o b) = Len(q) - 1
    <2>1. a \in Seq(S) /\ b \in Seq(S)
      BY <1>2, <1>3
    <2>2. a \o b \in Seq(S) /\ Len(a \o b) = Len(a) + Len(b)
      BY <2>1
    <2> QED BY <1>1, <1>2, <1>3, <2>2
  <1>6. ASSUME NEW i \in 1 .. Len(q) - 1
        PROVE  (a \o b)[i] = IF i < k THEN q[i] ELSE q[i + 1]
    <2>1. CASE i < k
      BY <1>1, <1>2, <1>3, <2>1
    <2>2. CASE ~(i < k)
      <3>1. (a \o b)[i] = b[i - Len(a)]
        BY <1>1, <1>2, <1>3, <2>2
      <3>2. i - Len(a) \in 1 .. Len(q) - k /\ k + (i - Len(a)) = i + 1
        BY <1>1, <1>2, <2>2
      <3>3. b[i - Len(a)] = q[i + 1]
        BY <1>3, <3>2
      <3> QED BY <2>2, <3>1, <3>3
    <2> QED BY <2>1, <2>2
  <1>5. RemoveAt(q, k) = a \o b
    BY DEF RemoveAt, a, b
  <1> QED BY <1>4, <1>5, <1>6

\* Dropping an expired entry keeps the cache as it should be ...
LEMMA WithoutOK ==
  ASSUME NEW key, CacheOK(cache)
  PROVE  CacheOK(Without(key))
  <1> DEFINE n == Len(cache)
  <1>1. cache \in Seq(Entries) /\ n \in Nat /\ n <= MaxEntries /\ MaxEntries \in Nat
    BY DecisionsAssumption DEF CacheOK
  <1>2. CASE Places(cache, key) = {}
    BY <1>2 DEF Without
  <1>3. CASE Places(cache, key) # {}
    <2> DEFINE i == PlaceOf(cache, key)
               c == Without(key)
    <2>1. i \in 1 .. n
      BY <1>3 DEF PlaceOf, Places
    <2>2. c = RemoveAt(cache, i)
      BY <1>3 DEF Without
    <2> HIDE DEF i, c
    <2>5. c \in Seq(Entries) /\ Len(c) = n - 1
      BY <1>1, <2>1, <2>2, Removed
    <2>6. \A k \in 1 .. n - 1 : c[k] = IF k < i THEN cache[k] ELSE cache[k + 1]
      BY <1>1, <2>1, <2>2, Removed
    <2>7. \A k \in 1 .. n - 1 : EntryOK(c[k])
      BY <1>1, <2>6 DEF CacheOK
    <2>8. \A k, l \in 1 .. n : cache[k].key = cache[l].key => k = l
      BY DEF CacheOK
    <2>9. ASSUME NEW k \in 1 .. n - 1, NEW l \in 1 .. n - 1, c[k].key = c[l].key
          PROVE  k = l
      <3> DEFINE at(m) == IF m < i THEN m ELSE m + 1
      <3>1. at(k) \in 1 .. n /\ at(l) \in 1 .. n /\ c[k] = cache[at(k)] /\ c[l] = cache[at(l)]
        BY <1>1, <2>6
      <3>2. at(k) = at(l)
        BY <2>8, <2>9, <3>1
      <3> QED BY <1>1, <2>1, <3>2
    <2>10. CacheOK(c)
      BY <1>1, <2>5, <2>7, <2>9 DEF CacheOK
    <2> QED BY <2>10 DEF c
  <1> QED BY <1>2, <1>3

\* ... and so does storing a right one, in its place or at the end.
LEMMA StoredOK ==
  ASSUME NEW c, CacheOK(c), NEW in \in Inputs, NEW verdict,
         EntryOK([key |-> KeyOf(in), verdict |-> verdict, expires |-> now + Ttl])
  PROVE  CacheOK(Stored(c, in, verdict))
  <1> DEFINE n == Len(c)
             key == KeyOf(in)
             entry == [key |-> key, verdict |-> verdict, expires |-> now + Ttl]
             d == Stored(c, in, verdict)
  <1>1. c \in Seq(Entries) /\ n \in Nat /\ n <= MaxEntries /\ MaxEntries \in Nat
    BY DecisionsAssumption DEF CacheOK
  <1>2. /\ \A k, l \in 1 .. n : c[k].key = c[l].key => k = l
        /\ \A k \in 1 .. n : EntryOK(c[k])
    BY DEF CacheOK
  <1>3. entry \in Entries /\ entry.key = key /\ EntryOK(entry)
    BY DEF EntryOK
  <1>4. CASE MaxEntries = 0
    BY <1>4 DEF Stored
  <1>5. CASE MaxEntries # 0 /\ Places(c, key) # {}
    <2> DEFINE i == PlaceOf(c, key)
    <2>1. i \in 1 .. n /\ c[i].key = key
      BY <1>5 DEF PlaceOf, Places
    <2>2. d = [c EXCEPT ![i] = entry]
      BY <1>5 DEF Stored
    <2> HIDE DEF i, d, entry
    <2>3. d \in Seq(Entries) /\ Len(d) = n
      BY <1>1, <1>3, <2>1, <2>2
    <2>4. \A k \in 1 .. n : d[k] = IF k = i THEN entry ELSE c[k]
      BY <1>1, <2>1, <2>2
    <2>5. \A k \in 1 .. n : d[k].key = c[k].key /\ EntryOK(d[k])
      BY <1>2, <1>3, <2>1, <2>4
    <2>6. CacheOK(d)
      BY <1>1, <1>2, <2>3, <2>5 DEF CacheOK
    <2> QED BY <2>6 DEF d
  <1>6. CASE MaxEntries # 0 /\ Places(c, key) = {}
    <2> DEFINE t == IF n >= MaxEntries THEN Tail(c) ELSE c
               off == IF n >= MaxEntries THEN 1 ELSE 0
    <2>1. d = Append(t, entry)
      BY <1>6 DEF Stored
    <2>2. \A k \in 1 .. n : c[k].key # key
      BY <1>6 DEF Places
    <2>3. t \in Seq(Entries) /\ Len(t) = n - off /\ \A k \in 1 .. n - off : t[k] = c[k + off]
      BY <1>1, <1>6
    <2>4. off \in {0, 1} /\ off <= n /\ n - off + 1 <= MaxEntries
      BY <1>1, <1>6
    <2> HIDE DEF t, off, d, entry
    <2>5. d \in Seq(Entries) /\ Len(d) = n - off + 1
      BY <1>1, <1>3, <2>1, <2>3, <2>4
    <2>6. \A k \in 1 .. n - off + 1 : d[k] = IF k <= n - off THEN c[k + off] ELSE entry
      BY <1>1, <1>3, <2>1, <2>3, <2>4
    <2>7. \A k \in 1 .. n - off + 1 : EntryOK(d[k])
      BY <1>1, <1>2, <1>3, <2>4, <2>6
    <2>8. ASSUME NEW k \in 1 .. n - off + 1, NEW l \in 1 .. n - off + 1, d[k].key = d[l].key
          PROVE  k = l
      <3>1. CASE k <= n - off /\ l <= n - off
        <4>1. k + off \in 1 .. n /\ l + off \in 1 .. n /\ c[k + off].key = c[l + off].key
          BY <1>1, <2>4, <2>6, <2>8, <3>1
        <4> QED BY <1>1, <1>2, <2>4, <4>1
      <3>2. CASE k <= n - off /\ ~(l <= n - off)
        BY <1>1, <1>3, <2>2, <2>4, <2>6, <2>8, <3>2
      <3>3. CASE ~(k <= n - off) /\ l <= n - off
        BY <1>1, <1>3, <2>2, <2>4, <2>6, <2>8, <3>3
      <3>4. CASE ~(k <= n - off) /\ ~(l <= n - off)
        BY <1>1, <2>4, <3>4
      <3> QED BY <3>1, <3>2, <3>3, <3>4
    <2>9. CacheOK(d)
      BY <1>1, <2>4, <2>5, <2>7, <2>8 DEF CacheOK
    <2> QED BY <2>9 DEF d
  <1> QED BY <1>4, <1>5, <1>6

\* An evaluation that began after the last edit; an answer that nothing older than
\* the last edit can have reached.
EvalPcs == Pcs \ {"overlay", "answered"}
Fresh(q) == edited = NoRow \/ edited < q.began
Rested(q) == edited = NoRow \/ edited + Ttl + MaxLatency <= q.settled

\* The request is well formed, and its evaluation within its time.
Typed(q) ==
    /\ q \in Req
    /\ q.frames \in [1 .. Len(q.input.frames) -> Verdicts]
    /\ q.began <= q.settled /\ q.settled <= now
    /\ q.pc \in EvalPcs => now <= q.began + MaxLatency
    /\ q.pc \notin EvalPcs => q.verdict \in {"allow", "deny", "error"}
    /\ q.pc = "overlay" => Overlays /\ q.verdict = "allow" /\ q.input.access = "write"
                           /\ q.input.frames # <<>>

\* Whether a veto stood all along.
Consented(q) ==
    /\ q.pc # "answered" => q.open \/ vetoed
    /\ q.pc = "answered" /\ q.verdict = "allow" /\ q.input.access = "write"
       /\ q.input.frames # <<>> => q.open

\* What is decided once the user has been read.
PastUser(p, in) ==
    /\ p.user # NoRow
    /\ in.route = "admit" => ~p.user.dead /\ in.frames[1].kind # "constructor"

\* An evaluation that began after the last edit has read the tables as they are.
UpToDate(q) ==
    q.pc \in EvalPcs =>
        /\ q.input.version \in Versions /\ q.input.frames # <<>>
        /\ Fresh(q) =>
              /\ Agrees(q.input, q.frames, Walk(policy, q.input))
              /\ q.pc # "user" => q.user = policy.user /\ PastUser(policy, q.input)
              /\ q.pc \in {"rows", "templates", "links"} => q.view.contract = policy.contract
              /\ q.pc \in {"templates", "links"} => q.view.direct = policy.direct
              /\ q.pc = "links" => q.view.templ = policy.templ

\* An answer that has outlived the last edit is the one of the walk.
Right(q) ==
    q.pc \notin EvalPcs /\ Rested(q) =>
        \/ q.verdict = AtOnce(policy, q.input)
        \/ /\ q.pc = "answered" /\ q.verdict = "deny" /\ AtOnce(policy, q.input) = "allow"
           /\ Overlays /\ q.input.access = "write"

ReqOK(q) == Typed(q) /\ Consented(q) /\ UpToDate(q) /\ Right(q)

Clocks ==
    /\ policy \in Policies
    /\ vetoed \in BOOLEAN /\ (vetoed => Overlays)
    /\ now \in 0 .. MaxTime
    /\ edited \in (0 .. now) \cup {NoRow}

\* The inductive invariant.
Inv ==
    /\ Clocks
    /\ CacheOK(cache)
    /\ \A r \in Requests : req[r] = Idle \/ ReqOK(req[r])
    /\ DOMAIN req = Requests

LEMMA Steady ==
  ASSUME UNCHANGED <<policy, edited, vetoed, now>>, NEW q
  PROVE  (ReqOK(q))' <=> ReqOK(q)
  BY DEF ReqOK, Typed, Consented, UpToDate, Right, Fresh, Rested

LEMMA SteadyCache ==
  ASSUME UNCHANGED <<policy, edited, vetoed, now>>, NEW c
  PROVE  (CacheOK(c))' <=> CacheOK(c)
  BY DEF CacheOK, EntryOK

\* A step of one request, which leaves the tables and the clock alone.
LEMMA OneRequest ==
  ASSUME Inv, UNCHANGED <<policy, edited, vetoed, now>>, NEW r \in Requests, NEW q, NEW c,
         req' = [req EXCEPT ![r] = q], cache' = c, q = Idle \/ ReqOK(q), CacheOK(c)
  PROVE  Inv'
  <1>1. Clocks'
    BY DEF Inv, Clocks
  <1>2. CacheOK(cache)'
    <2>1. (CacheOK(c))'
      BY SteadyCache
    <2> QED BY <2>1 DEF CacheOK, EntryOK
  <1>3. ASSUME NEW x \in Requests PROVE req'[x] = Idle \/ ReqOK(req[x])'
    <2> DEFINE y == IF x = r THEN q ELSE req[x]
    <2>1. req'[x] = y /\ (y = Idle \/ ReqOK(y))
      BY DEF Inv
    <2>2. (ReqOK(req[x]))' <=> ReqOK(y)
      BY <2>1 DEF ReqOK, Typed, Consented, UpToDate, Right, Fresh, Rested
    <2> QED BY <2>1, <2>2
  <1>4. DOMAIN req' = Requests
    BY DEF Inv
  <1> QED BY <1>1, <1>2, <1>3, <1>4 DEF Inv

\* Nothing that is asked is left out of the key.
LEMMA KeyIsInput ==
  ASSUME NEW a \in Inputs, NEW b \in Inputs, KeyOf(a) = KeyOf(b)
  PROVE  a = b
  <1>1. /\ a.route = b.route /\ a.version = b.version
        /\ a.access = b.access /\ a.frames = b.frames
    BY DEF KeyOf
  <1>2. /\ a = [route |-> a.route, version |-> a.version, access |-> a.access, frames |-> a.frames]
        /\ b = [route |-> b.route, version |-> b.version, access |-> b.access, frames |-> b.frames]
    BY TablesAndInputs DEF WellFormed
  <1> QED BY <1>1, <1>2

\* The end of an evaluation: what it found is right if no edit overtook it, and is
\* stored with a life that ends before an overtaken result could be relied on.
LEMMA Settles ==
  ASSUME Inv, UNCHANGED <<policy, edited, vetoed, now>>, NEW r \in Requests,
         NEW q, Typed(q), q.pc \in EvalPcs, q.open \/ vetoed,
         NEW verdict \in {"allow", "deny", "error"}, NEW c, CacheOK(c),
         Fresh(q) => verdict = AtOnce(policy, q.input),
         Settle(r, q, verdict, c)
  PROVE  Inv'
  <1> DEFINE q2 == [q EXCEPT !.pc = IF Overlaid(q.input, verdict) THEN "overlay" ELSE "answered",
                             !.verdict = verdict, !.settled = now]
             c2 == IF verdict = "error" THEN c ELSE Stored(c, q.input, verdict)
  <1>1. /\ now \in 0 .. MaxTime /\ edited \in (0 .. now) \cup {NoRow} /\ now \in Nat
        /\ MaxTime \in Nat /\ MaxLatency \in Nat /\ Ttl \in Nat \ {0} /\ NoRow \notin Nat
        /\ vetoed => Overlays
    BY DecisionsAssumption DEF Inv, Clocks
  <1>2. /\ q \in Req /\ q.input \in Inputs /\ q.began \in Nat /\ q.began <= now
        /\ now <= q.began + MaxLatency
    BY <1>1 DEF Typed, Req
  <1>3. edited # NoRow /\ edited + MaxLatency < now => Fresh(q)
    BY <1>1, <1>2 DEF Fresh
  <1>4. CacheOK(c2)
    <2>1. CASE verdict = "error"
      BY <2>1
    <2>2. CASE verdict # "error"
      <3> DEFINE e == [key |-> KeyOf(q.input), verdict |-> verdict, expires |-> now + Ttl]
      <3>1. e \in Entries /\ e.expires = now + Ttl /\ e.expires <= now + Ttl /\ e.key = KeyOf(q.input)
            /\ e.verdict = verdict
        BY <1>1, <1>2, <2>2 DEF Entries
      <3> HIDE DEF e
      <3>2. ASSUME edited = NoRow \/ edited + Ttl + MaxLatency < e.expires,
                   NEW in \in Inputs, e.key = KeyOf(in)
            PROVE  e.verdict = AtOnce(policy, in)
        <4>1. Fresh(q)
          BY <1>1, <1>3, <3>1, <3>2 DEF Fresh
        <4>2. in = q.input
          BY <1>2, <3>1, <3>2, KeyIsInput
        <4> QED BY <3>1, <4>1, <4>2
      <3>3. EntryOK(e)
        BY <3>1, <3>2 DEF EntryOK
      <3> QED BY <1>2, <2>2, <3>3, StoredOK DEF e
    <2> QED BY <2>1, <2>2
  <1>5. /\ q2 \in Req /\ q2.input = q.input /\ q2.frames = q.frames /\ q2.began = q.began
        /\ q2.pc = (IF Overlaid(q.input, verdict) THEN "overlay" ELSE "answered")
        /\ q2.verdict = verdict /\ q2.settled = now /\ q2.open = q.open
    BY <1>1, <1>2 DEF Req, Pcs, Verdicts
  <1>6. req' = [req EXCEPT ![r] = q2] /\ cache' = c2
    BY DEF Settle
  <1> HIDE DEF q2, c2
  <1>7. q2.pc \notin EvalPcs /\ q2.pc \in {"overlay", "answered"}
    BY <1>5 DEF EvalPcs
  <1>8. Typed(q2)
    BY <1>1, <1>2, <1>5, <1>7 DEF Typed, Overlaid
  <1>9. Consented(q2)
    BY <1>1, <1>5, <1>7 DEF Consented, Overlaid
  <1>10. UpToDate(q2)
    BY <1>7 DEF UpToDate
  <1>11. Right(q2)
    <2>1. Rested(q2) => Fresh(q)
      BY <1>1, <1>2, <1>3, <1>5 DEF Rested, Fresh
    <2> QED BY <1>5, <2>1 DEF Right
  <1> QED BY <1>4, <1>6, <1>8, <1>9, <1>10, <1>11, OneRequest DEF ReqOK

-----------------------------------------------------------------------------
\* The steps of a request

\* The initial states satisfy the invariant.
LEMMA Starts ==
  ASSUME Init
  PROVE  Inv
  <1>1. MaxTime \in Nat /\ MaxEntries \in Nat /\ Overlays \in BOOLEAN
    BY DecisionsAssumption
  <1>3. vetoed \in BOOLEAN /\ (vetoed => Overlays)
    BY <1>1 DEF Init
  <1>4. Clocks
    BY <1>1, <1>3 DEF Init, Clocks
  <1>2. CacheOK(cache)
    BY DecisionsAssumption DEF Init, CacheOK
  <1> QED BY <1>2, <1>4 DEF Init, Inv

\* What the state holds of a request under way.
LEMMA UnderWay ==
  ASSUME Inv, NEW r \in Requests, NEW pc \in Pcs, At(r, pc)
  PROVE  /\ ReqOK(req[r]) /\ req[r].pc = pc
         /\ req[r] \in Req /\ req[r].input \in Inputs /\ WellFormed(req[r].input)
         /\ CacheOK(cache)
  BY TablesAndInputs DEF Inv, At, ReqOK, Typed, Req

\* A request that was just made is well formed.
LEMMA AsksAnew ==
  ASSUME Inv, NEW in \in Inputs, NEW q,
         q = [pc |-> "user", input |-> in, user |-> NoRow, view |-> NoView,
              frames |-> NoVerdicts(in), verdict |-> "none", began |-> now,
              settled |-> now, open |-> ~vetoed]
  PROVE  /\ Typed(q) /\ q.input = in /\ q.began = now /\ q.settled = now
         /\ q.pc = "user" /\ q.open = ~vetoed /\ q.frames = NoVerdicts(in)
  <1>1. WellFormed(in) /\ now \in Nat /\ MaxLatency \in Nat
    BY DecisionsAssumption, TablesAndInputs DEF Inv, Clocks
  <1>2. NoVerdicts(in) \in [1 .. Len(in.frames) -> Verdicts] /\ Len(in.frames) \in Nat
    BY <1>1, FramesOf DEF NoVerdicts, Verdicts
  <1>3. NoVerdicts(in) \in Seq(Verdicts)
    BY <1>2
  <1>4. NoRow \in Users /\ NoView \in Views
    BY DEF Users, Views, NoView
  <1>5. q \in Req
    BY <1>1, <1>3, <1>4 DEF Req, Pcs, Verdicts
  <1> QED BY <1>1, <1>2, <1>5 DEF Typed, EvalPcs, Pcs

\* A hit serves what the entry says, a miss drops the expired entry and begins.
LEMMA AskKeeps ==
  ASSUME Inv, NEW r \in Requests, NEW in \in Inputs, Ask(r, in)
  PROVE  Inv'
  <1> DEFINE key == KeyOf(in)
             entry == cache[PlaceOf(cache, key)]
             fresh == [pc |-> "user", input |-> in, user |-> NoRow, view |-> NoView,
                       frames |-> NoVerdicts(in), verdict |-> "none", began |-> now,
                       settled |-> now, open |-> ~vetoed]
             hit == Places(cache, key) # {} /\ Live(entry)
             q2 == [fresh EXCEPT !.pc = IF Overlaid(in, entry.verdict) THEN "overlay" ELSE "answered",
                                 !.verdict = entry.verdict]
  <1>1. UNCHANGED <<policy, edited, vetoed, now>>
    BY DEF Ask
  <1>2. /\ CacheOK(cache) /\ CacheOK(Without(key)) /\ WellFormed(in)
    BY WithoutOK, TablesAndInputs DEF Inv
  <1>3. /\ Typed(fresh) /\ fresh.input = in /\ fresh.began = now /\ fresh.settled = now
        /\ fresh.pc = "user" /\ fresh.open = ~vetoed /\ fresh.frames = NoVerdicts(in)
    BY AsksAnew
  <1>4. /\ now \in 0 .. MaxTime /\ edited \in (0 .. now) \cup {NoRow} /\ now \in Nat
        /\ MaxTime \in Nat /\ MaxLatency \in Nat /\ Ttl \in Nat \ {0} /\ NoRow \notin Nat
        /\ vetoed => Overlays
    BY DecisionsAssumption DEF Inv, Clocks
  <1>5. CASE hit
    <2>1. req' = [req EXCEPT ![r] = q2] /\ cache' = cache
      BY <1>5 DEF Ask
    <2>2. entry.key = key /\ EntryOK(entry) /\ entry.expires > now
      BY <1>2, <1>5 DEF CacheOK, Places, PlaceOf, Live
    <2>3. entry.verdict \in {"allow", "deny"} /\ entry.expires \in Nat
      BY <1>4, <2>2 DEF EntryOK, Entries
    <2> DEFINE pc == IF Overlaid(in, entry.verdict) THEN "overlay" ELSE "answered"
    <2>4. pc \in {"overlay", "answered"} /\ pc \in Pcs /\ pc \notin EvalPcs
      BY DEF Pcs, EvalPcs
    <2>5. /\ q2 \in Req /\ q2.input = in /\ q2.frames = NoVerdicts(in) /\ q2.began = now
          /\ q2.pc = pc /\ q2.verdict = entry.verdict /\ q2.settled = now /\ q2.open = ~vetoed
      <3>1. fresh \in Req
        BY <1>3 DEF Typed
      <3>2. entry.verdict \in Verdicts
        BY <2>3 DEF Verdicts
      <3> HIDE DEF entry, pc
      <3>3. fresh.verdict = "none"
        OBVIOUS
      <3> HIDE DEF fresh
      <3> QED BY <1>3, <2>4, <3>1, <3>2 DEF Req, pc
    <2>6. NoVerdicts(in) \in [1 .. Len(in.frames) -> Verdicts]
      BY <1>3 DEF Typed
    <2>7. pc = "overlay" <=> Overlaid(in, entry.verdict)
      OBVIOUS
    <2> HIDE DEF q2, pc, fresh, entry
    <2>8. Typed(q2)
      BY <1>4, <2>3, <2>4, <2>5, <2>6, <2>7 DEF Typed, Overlaid
    <2>9. Consented(q2)
      BY <1>4, <2>4, <2>5, <2>7 DEF Consented, Overlaid
    <2>10. UpToDate(q2)
      BY <2>4, <2>5 DEF UpToDate
    <2>11. Rested(q2) => entry.verdict = AtOnce(policy, in)
      <3>1. Rested(q2) => edited = NoRow \/ edited + Ttl + MaxLatency < entry.expires
        BY <1>4, <2>2, <2>3, <2>5 DEF Rested
      <3> QED BY <2>2, <3>1 DEF EntryOK
    <2>12. Right(q2)
      BY <2>5, <2>11 DEF Right
    <2> QED BY <1>1, <1>2, <2>1, <2>8, <2>9, <2>10, <2>12, OneRequest DEF ReqOK
  <1>6. CASE ~hit /\ in.version \notin Versions
    <2>1. Settle(r, fresh, "deny", Without(key))
      BY <1>6 DEF Ask
    <2>2. AtOnce(policy, in) = "deny"
      BY <1>6 DEF AtOnce
    <2> HIDE DEF fresh
    <2> QED BY <1>1, <1>2, <1>3, <2>1, <2>2, Settles DEF EvalPcs, Pcs
  <1>7. CASE ~hit /\ in.version \in Versions /\ in.frames = <<>>
    <2>1. Settle(r, fresh, "allow", Without(key))
      BY <1>7 DEF Ask
    <2>2. AtOnce(policy, in) = "allow"
      BY <1>7 DEF AtOnce
    <2> HIDE DEF fresh
    <2> QED BY <1>1, <1>2, <1>3, <2>1, <2>2, Settles DEF EvalPcs, Pcs
  <1>8. CASE ~hit /\ in.version \in Versions /\ in.frames # <<>>
    <2>1. req' = [req EXCEPT ![r] = fresh] /\ cache' = Without(key)
      BY <1>8 DEF Ask
    <2> HIDE DEF fresh
    <2>2. Consented(fresh) /\ Right(fresh)
      BY <1>3, <1>4 DEF Consented, Right, EvalPcs, Pcs
    <2>3. UpToDate(fresh)
      BY <1>2, <1>3, <1>8, FirstGeneration DEF UpToDate
    <2> QED BY <1>1, <1>2, <1>3, <2>1, <2>2, <2>3, OneRequest DEF ReqOK
  <1> QED BY <1>5, <1>6, <1>7, <1>8

\* The exits before the first permission is looked up are those of the walk.
LEMMA EarlyExits ==
  ASSUME NEW p, NEW in, WellFormed(in), in.version \in Versions, in.frames # <<>>
  PROVE  /\ p.user = NoRow => AtOnce(p, in) = "deny"
         /\ p.user # NoRow /\ in.route = "admit" /\ p.user.dead => AtOnce(p, in) = "deny"
         /\ p.user # NoRow /\ in.route = "admit" /\ ~p.user.dead =>
               /\ in.frames[1].kind = "constructor" =>
                     AtOnce(p, in) = IF p.user.roles \cap Deployers # {} THEN "allow" ELSE "deny"
               /\ in.frames[1].kind # "constructor" /\ Transfer(in.frames[1]) =>
                     AtOnce(p, in) = "allow"
  <1>1. /\ p.user = NoRow => AtOnce(p, in) = "deny"
        /\ p.user # NoRow /\ in.route = "admit" /\ p.user.dead => AtOnce(p, in) = "deny"
        /\ p.user # NoRow /\ in.route = "admit" /\ ~p.user.dead /\ in.frames[1].kind = "constructor" =>
              AtOnce(p, in) = IF p.user.roles \cap Deployers # {} THEN "allow" ELSE "deny"
    BY DEF AtOnce
  <1>2. ASSUME p.user # NoRow, in.route = "admit", ~p.user.dead,
               in.frames[1].kind # "constructor", Transfer(in.frames[1])
        PROVE  AtOnce(p, in) = "allow"
    <2> DEFINE w == Walk(p, in)
               u == [i \in 1 .. Len(in.frames) |-> w[i]]
    <2>1. Len(in.frames) = 1
      BY <1>2 DEF WellFormed
    <2>2. Reached(in, w, 1)
      BY DEF Reached
    <2>3. w[1] = FrameVerdict(in, Below(in, w, 1), 1, p.user, ViewOf(p), p)
      BY <2>1, <2>2, WalkIs
    <2>4. w[1] = "allow"
      BY <1>2, <2>3 DEF FrameVerdict
    <2>5. \A i \in 1 .. Len(in.frames) : u[i] = "allow"
      BY <2>1, <2>4
    <2>6. Resolve(in, u) = "allow"
      <3> HIDE DEF u
      <3> QED BY <2>5 DEF Resolve
    <2> QED BY <1>2, <2>6 DEF AtOnce
  <1> QED BY <1>1, <1>2

\* The user is read, and the request settled where no permission is looked up.
LEMMA ReadUserKeeps ==
  ASSUME Inv, NEW r \in Requests, ReadUser(r)
  PROVE  Inv'
  <1> DEFINE user == policy.user
             old == req[r]
             in == old.input
             root == in.frames[1]
             q == [old EXCEPT !.user = user]
             q2 == [q EXCEPT !.pc = "contracts"]
  <1>1. UNCHANGED <<policy, edited, vetoed, now>> /\ At(r, "user")
    BY DEF ReadUser
  <1>2. /\ ReqOK(old) /\ old.pc = "user" /\ old \in Req /\ in \in Inputs /\ WellFormed(in)
        /\ CacheOK(cache) /\ user \in Users
    BY <1>1, UnderWay DEF Pcs, Inv, Clocks, Users
  <1>3. "user" \in EvalPcs /\ "contracts" \in EvalPcs /\ "contracts" \in Pcs
    BY DEF EvalPcs, Pcs
  <1>4. /\ q \in Req /\ q.input = in /\ q.pc = "user" /\ q.frames = old.frames
        /\ q.began = old.began /\ q.settled = old.settled /\ q.open = old.open /\ q.user = user
        /\ q2 \in Req /\ q2.input = in /\ q2.pc = "contracts" /\ q2.frames = old.frames
        /\ q2.began = old.began /\ q2.settled = old.settled /\ q2.open = old.open /\ q2.user = user
    BY <1>2, <1>3 DEF Req
  <1>5. in.version \in Versions /\ in.frames # <<>> /\ (Fresh(old) => Agrees(in, old.frames, Walk(policy, in)))
    BY <1>2, <1>3 DEF ReqOK, UpToDate
  <1>6. old.open \/ vetoed
    BY <1>2 DEF ReqOK, Consented
  <1> HIDE DEF q, q2
  <1>7. Typed(q) /\ Typed(q2)
    BY <1>2, <1>3, <1>4 DEF ReqOK, Typed
  <1>8. ASSUME NEW verdict \in {"allow", "deny"}, AtOnce(policy, in) = verdict, Settle(r, q, verdict, cache)
        PROVE  Inv'
    BY <1>1, <1>2, <1>3, <1>4, <1>6, <1>7, <1>8, Settles
  <1>9. CASE user = NoRow
    <2>1. Settle(r, q, "deny", cache)
      BY <1>9 DEF ReadUser, q
    <2> QED BY <1>2, <1>5, <1>8, <1>9, <2>1, EarlyExits
  <1>10. CASE user # NoRow /\ in.route = "admit" /\ user.dead
    <2>1. Settle(r, q, "deny", cache)
      BY <1>10 DEF ReadUser, q
    <2> QED BY <1>2, <1>5, <1>8, <1>10, <2>1, EarlyExits
  <1>11. CASE user # NoRow /\ in.route = "admit" /\ ~user.dead /\ root.kind = "constructor"
    <2>1. Settle(r, q, IF user.roles \cap Deployers # {} THEN "allow" ELSE "deny", cache)
      BY <1>11 DEF ReadUser, q
    <2>2. AtOnce(policy, in) = IF user.roles \cap Deployers # {} THEN "allow" ELSE "deny"
      BY <1>2, <1>5, <1>11, EarlyExits
    <2> QED BY <1>8, <2>1, <2>2
  <1>12. CASE user # NoRow /\ in.route = "admit" /\ ~user.dead /\ root.kind # "constructor" /\ Transfer(root)
    <2>1. Settle(r, q, "allow", cache)
      BY <1>12 DEF ReadUser, q
    <2> QED BY <1>2, <1>5, <1>8, <1>12, <2>1, EarlyExits
  <1>13. CASE user # NoRow /\ (in.route = "admit" => ~user.dead /\ root.kind # "constructor" /\ ~Transfer(root))
    <2>1. req' = [req EXCEPT ![r] = q2] /\ cache' = cache
      BY <1>13 DEF ReadUser, q, q2
    <2>2. UpToDate(q2)
      BY <1>2, <1>4, <1>5, <1>13 DEF UpToDate, Fresh, PastUser
    <2>3. Consented(q2) /\ Right(q2)
      BY <1>3, <1>4, <1>6 DEF Consented, Right
    <2> QED BY <1>1, <1>2, <1>7, <2>1, <2>2, <2>3, OneRequest DEF ReqOK
  <1> QED BY <1>9, <1>10, <1>11, <1>12, <1>13

\* One statement of the look-up after the other.
LEMMA ReadKeeps ==
  ASSUME Inv, NEW r \in Requests, ReadContracts(r) \/ ReadRows(r) \/ ReadTemplates(r)
  PROVE  Inv'
  <1> DEFINE old == req[r]
  <1>1. UNCHANGED <<policy, edited, vetoed, now>> /\ cache' = cache
    BY DEF ReadContracts, ReadRows, ReadTemplates, Read
  <1>2. ASSUME NEW pc \in {"contracts", "rows", "templates"}, At(r, pc),
               NEW next \in {"rows", "templates", "links"},
               NEW view \in Views,
               req' = [req EXCEPT ![r].pc = next, ![r].view = view],
               pc = "contracts" => next = "rows" /\ view.contract = policy.contract,
               pc = "rows" => /\ next = "templates" /\ view.contract = old.view.contract
                              /\ view.direct = policy.direct,
               pc = "templates" => /\ next = "links" /\ view.contract = old.view.contract
                                   /\ view.direct = old.view.direct
                                   /\ view.templ = policy.templ
        PROVE  Inv'
    <2> DEFINE q == [old EXCEPT !.pc = next, !.view = view]
    <2>1. pc \in Pcs /\ pc \in EvalPcs /\ next \in Pcs /\ next \in EvalPcs
      BY <1>2 DEF Pcs, EvalPcs
    <2>2. ReqOK(old) /\ old.pc = pc /\ old \in Req /\ CacheOK(cache)
      BY <1>2, <2>1, UnderWay
    <2>3. req' = [req EXCEPT ![r] = q]
      BY <1>2
    <2>4. /\ q \in Req /\ q.pc = next /\ q.view = view /\ q.input = old.input
          /\ q.frames = old.frames /\ q.began = old.began /\ q.settled = old.settled
          /\ q.open = old.open /\ q.user = old.user
      BY <1>2, <2>1, <2>2 DEF Req
    <2> HIDE DEF q
    <2>5. Typed(q) /\ Consented(q) /\ Right(q)
      BY <1>2, <2>1, <2>2, <2>4 DEF ReqOK, Typed, Consented, Right
    <2>6. UpToDate(q)
      BY <1>2, <2>1, <2>2, <2>4 DEF ReqOK, UpToDate, Fresh
    <2> QED BY <1>1, <2>2, <2>3, <2>5, <2>6, OneRequest DEF ReqOK
  <1>3. ASSUME NEW pc \in Pcs, At(r, pc)
        PROVE  old.view \in Views
    BY <1>3, UnderWay DEF Req
  <1>7. policy \in Policies
    BY DEF Inv, Clocks
  <1>4. CASE ReadContracts(r)
    <2> DEFINE view == [old.view EXCEPT !.contract = policy.contract]
    <2>1. At(r, "contracts") /\ "contracts" \in Pcs
      BY <1>4 DEF ReadContracts, Read, Pcs
    <2>2. view \in Views /\ view.contract = policy.contract
      BY <1>3, <1>7, <2>1 DEF Views
    <2>3. req' = [req EXCEPT ![r].pc = "rows", ![r].view = view]
      BY <1>4 DEF ReadContracts, Read
    <2> HIDE DEF view
    <2> QED BY <1>2, <2>1, <2>2, <2>3
  <1>5. CASE ReadRows(r)
    <2> DEFINE view == [old.view EXCEPT !.direct = policy.direct]
    <2>1. At(r, "rows") /\ "rows" \in Pcs
      BY <1>5 DEF ReadRows, Read, Pcs
    <2>2. view \in Views /\ view.contract = old.view.contract /\ view.direct = policy.direct
      BY <1>3, <1>7, <2>1 DEF Views
    <2>3. req' = [req EXCEPT ![r].pc = "templates", ![r].view = view]
      BY <1>5 DEF ReadRows, Read
    <2> HIDE DEF view
    <2> QED BY <1>2, <2>1, <2>2, <2>3
  <1>6. CASE ReadTemplates(r)
    <2> DEFINE view == [old.view EXCEPT !.templ = policy.templ]
    <2>1. At(r, "templates") /\ "templates" \in Pcs
      BY <1>6 DEF ReadTemplates, Read, Pcs
    <2>2. /\ view \in Views /\ view.contract = old.view.contract
          /\ view.direct = old.view.direct /\ view.templ = policy.templ
      BY <1>3, <1>7, <2>1 DEF Views
    <2>3. req' = [req EXCEPT ![r].pc = "links", ![r].view = view]
      BY <1>6 DEF ReadTemplates, Read
    <2> HIDE DEF view
    <2> QED BY <1>2, <2>1, <2>2, <2>3
  <1> QED BY <1>4, <1>5, <1>6

\* What the walk makes of the frames once the user has been read.
LEMMA LateExit ==
  ASSUME NEW p, NEW in, WellFormed(in), in.version \in Versions, in.frames # <<>>,
         PastUser(p, in)
  PROVE  AtOnce(p, in) = Resolve(in, [i \in 1 .. Len(in.frames) |-> Walk(p, in)[i]])
  BY DEF AtOnce, PastUser

\* A trace is allowed, refused or fails.
LEMMA Resolved ==
  ASSUME NEW in, WellFormed(in), NEW v
  PROVE  Resolve(in, v) \in {"allow", "deny", "error"}
  <1> DEFINE bad == {i \in 1 .. Len(in.frames) : v[i] \in {"deny", "error"}}
  <1>1. Len(in.frames) \in Nat
    BY FramesOf
  <1>2. CASE bad = {}
    BY <1>2 DEF Resolve
  <1>3. CASE bad # {}
    <2>1. Min(bad) \in bad
      BY <1>1, <1>3, MinIsIn
    <2> QED BY <1>3, <2>1 DEF Resolve
  <1> QED BY <1>2, <1>3

\* A generation is decided, and the request settled after the last.
LEMMA EvaluateKeeps ==
  ASSUME Inv, NEW r \in Requests, Evaluate(r)
  PROVE  Inv'
  <1> DEFINE old == req[r]
             in == old.input
             v == [i \in DOMAIN old.frames |->
                      IF i \in Frontier(in, old.frames)
                      THEN FrameVerdict(in, old.frames, i, old.user, old.view, policy)
                      ELSE old.frames[i]]
             w == Walk(policy, in)
             q == [old EXCEPT !.frames = v, !.view = NoView]
             q2 == [q EXCEPT !.pc = "contracts"]
  <1>1. UNCHANGED <<policy, edited, vetoed, now>> /\ At(r, "links")
    BY DEF Evaluate
  <1>2. /\ ReqOK(old) /\ old.pc = "links" /\ old \in Req /\ in \in Inputs /\ WellFormed(in)
        /\ CacheOK(cache)
    BY <1>1, UnderWay DEF Pcs
  <1>3. "links" \in EvalPcs /\ "contracts" \in EvalPcs /\ "contracts" \in Pcs
    BY DEF EvalPcs, Pcs
  <1>4. /\ in.version \in Versions /\ in.frames # <<>> /\ (old.open \/ vetoed)
        /\ Len(in.frames) \in Nat /\ Len(in.frames) > 0
        /\ old.frames \in [1 .. Len(in.frames) -> Verdicts]
    BY <1>2, <1>3, FramesOf DEF ReqOK, UpToDate, Consented, Typed, WellFormed
  <1>5. v \in [1 .. Len(in.frames) -> Verdicts] /\ v \in Seq(Verdicts)
    <2>1. Given \subseteq Verdicts
      BY DEF Given, Verdicts
    <2>2. v \in [1 .. Len(in.frames) -> Verdicts]
      BY <1>4, <2>1, FrameVerdictRange
    <2> HIDE DEF v
    <2> QED BY <1>4, <2>2
  <1>6. NoView \in Views
    BY DEF Views, NoView
  <1>7. ASSUME Fresh(old)
        PROVE  /\ old.user = policy.user /\ PastUser(policy, in)
               /\ Agrees(in, v, w) /\ v[1] # "none"
    <2>1. /\ Agrees(in, old.frames, w) /\ old.user = policy.user /\ PastUser(policy, in)
          /\ old.view.contract = policy.contract /\ old.view.direct = policy.direct
          /\ old.view.templ = policy.templ
      BY <1>2, <1>3, <1>7 DEF ReqOK, UpToDate
    <2>2. old.view = ViewOf(policy)
      BY <1>2, <2>1 DEF Req, Views, ViewOf
    <2>3. v = [i \in DOMAIN old.frames |->
                  IF i \in Frontier(in, old.frames)
                  THEN FrameVerdict(in, old.frames, i, policy.user, ViewOf(policy), policy)
                  ELSE old.frames[i]]
      BY <2>1, <2>2
    <2> HIDE DEF v
    <2> QED BY <1>2, <1>4, <2>1, <2>3, NextGeneration
  <1> HIDE DEF v, w
  <1>8. /\ q \in Req /\ q.input = in /\ q.pc = "links" /\ q.frames = v
        /\ q.began = old.began /\ q.settled = old.settled /\ q.open = old.open /\ q.user = old.user
        /\ q2 \in Req /\ q2.input = in /\ q2.pc = "contracts" /\ q2.frames = v
        /\ q2.began = old.began /\ q2.settled = old.settled /\ q2.open = old.open /\ q2.user = old.user
    BY <1>2, <1>3, <1>5, <1>6 DEF Req
  <1>9. \/ Finished(in, v) /\ Settle(r, q, Resolve(in, v), cache)
        \/ req' = [req EXCEPT ![r] = q2] /\ cache' = cache
    BY DEF Evaluate, v, q, q2
  <1> HIDE DEF q, q2
  <1>10. Typed(q) /\ Typed(q2)
    BY <1>2, <1>3, <1>5, <1>8 DEF ReqOK, Typed
  <1>11. CASE Finished(in, v) /\ Settle(r, q, Resolve(in, v), cache)
    <2>1. Resolve(in, v) \in {"allow", "deny", "error"}
      BY <1>2, Resolved
    <2>2. Fresh(q) => Resolve(in, v) = AtOnce(policy, in)
      <3>1. ASSUME Fresh(q) PROVE Fresh(old)
        BY <1>8, <3>1 DEF Fresh
      <3>2. ASSUME Fresh(old) PROVE Resolve(in, v) = AtOnce(policy, in)
        <4>1. Agrees(in, v, Walk(policy, in)) /\ v[1] # "none" /\ PastUser(policy, in)
          BY <1>7, <3>2 DEF w
        <4>2. Resolve(in, v) = Resolve(in, [i \in 1 .. Len(in.frames) |-> Walk(policy, in)[i]])
          BY <1>2, <1>4, <1>11, <4>1, WalkEnds
        <4>3. AtOnce(policy, in) = Resolve(in, [i \in 1 .. Len(in.frames) |-> Walk(policy, in)[i]])
          BY <1>2, <1>4, <4>1, LateExit
        <4> QED BY <4>2, <4>3
      <3> QED BY <3>1, <3>2
    <2> QED BY <1>1, <1>2, <1>3, <1>4, <1>8, <1>10, <1>11, <2>1, <2>2, Settles
  <1>12. CASE req' = [req EXCEPT ![r] = q2] /\ cache' = cache
    <2>1. Fresh(q2) => Fresh(old)
      BY <1>8 DEF Fresh
    <2>2. UpToDate(q2)
      BY <1>4, <1>7, <1>8, <2>1 DEF UpToDate, w
    <2>3. Consented(q2) /\ Right(q2)
      BY <1>3, <1>4, <1>8 DEF Consented, Right
    <2> QED BY <1>1, <1>2, <1>10, <1>12, <2>2, <2>3, OneRequest DEF ReqOK
  <1> QED BY <1>9, <1>11, <1>12

\* An overlay refuses, or consents while no veto stands.
LEMMA OverlayKeeps ==
  ASSUME Inv, NEW r \in Requests, Overlay(r)
  PROVE  Inv'
  <1> DEFINE old == req[r]
             q == [old EXCEPT !.pc = "answered"]
             q2 == [old EXCEPT !.pc = "answered", !.verdict = "deny"]
  <1>1. UNCHANGED <<policy, edited, vetoed, now>> /\ At(r, "overlay") /\ cache' = cache
    BY DEF Overlay
  <1>2. ReqOK(old) /\ old.pc = "overlay" /\ old \in Req /\ CacheOK(cache)
    BY <1>1, UnderWay DEF Pcs
  <1>3. /\ q \in Req /\ q.input = old.input /\ q.pc = "answered" /\ q.frames = old.frames
        /\ q.began = old.began /\ q.settled = old.settled /\ q.open = old.open
        /\ q.verdict = old.verdict
        /\ q2 \in Req /\ q2.input = old.input /\ q2.pc = "answered" /\ q2.frames = old.frames
        /\ q2.began = old.began /\ q2.settled = old.settled /\ q2.open = old.open
        /\ q2.verdict = "deny"
    BY <1>2 DEF Req, Pcs, Verdicts
  <1>4. "answered" \notin EvalPcs /\ "overlay" \notin EvalPcs
    BY DEF EvalPcs
  <1>5. \/ ~vetoed /\ req' = [req EXCEPT ![r] = q]
        \/ req' = [req EXCEPT ![r] = q2]
    BY DEF Overlay
  <1> HIDE DEF q, q2
  <1>6. /\ Typed(q) /\ Typed(q2) /\ UpToDate(q) /\ UpToDate(q2)
        /\ Consented(q2) /\ (~vetoed => Consented(q))
    BY <1>2, <1>3, <1>4 DEF ReqOK, Typed, UpToDate, Consented
  <1>7. Rested(old) => old.verdict = AtOnce(policy, old.input)
    BY <1>2, <1>4 DEF ReqOK, Right
  <1>8. (Rested(q) <=> Rested(old)) /\ (Rested(q2) <=> Rested(old))
    BY <1>3 DEF Rested
  <1>9. old.verdict = "allow" /\ Overlays /\ old.input.access = "write"
    BY <1>2 DEF ReqOK, Typed
  <1>10. Right(q) /\ Right(q2)
    BY <1>3, <1>7, <1>8, <1>9 DEF Right
  <1> QED BY <1>1, <1>2, <1>5, <1>6, <1>10, OneRequest DEF ReqOK

\* A request that was answered goes.
LEMMA ForgetKeeps ==
  ASSUME Inv, NEW r \in Requests, Forget(r)
  PROVE  Inv'
  BY OneRequest DEF Forget, Inv

-----------------------------------------------------------------------------
\* The steps of the operators, of the features and of the clock

\* After an edit nothing on its way counts as recent, and no entry lives longer
\* than the time to live.
LEMMA EditKeeps ==
  ASSUME Inv, NEW p \in Policies, Edit(p)
  PROVE  Inv'
  <1>1. /\ policy' = p /\ edited' = now /\ UNCHANGED <<vetoed, cache, req, now>>
        /\ policy' \in Policies
    BY DEF Edit
  <1>2. /\ now \in 0 .. MaxTime /\ now \in Nat /\ MaxTime \in Nat /\ MaxLatency \in Nat
        /\ Ttl \in Nat \ {0} /\ NoRow \notin Nat /\ now # NoRow
    BY DecisionsAssumption DEF Inv, Clocks
  <1>3. Clocks'
    BY <1>1, <1>2 DEF Inv, Clocks
  <1>4. ASSUME NEW e, EntryOK(e)
        PROVE  EntryOK(e)'
    <2>1. e \in Entries /\ e.expires <= now + Ttl /\ e.expires \in Nat
      BY <1>2, <1>4 DEF EntryOK, Entries
    <2>2. ~(edited' = NoRow \/ edited' + Ttl + MaxLatency < e.expires)
      BY <1>1, <1>2, <2>1
    <2> QED BY <1>1, <2>1, <2>2 DEF EntryOK
  <1>5. CacheOK(cache)'
    BY <1>1, <1>4 DEF Inv, CacheOK
  <1>6. ASSUME NEW q, ReqOK(q)
        PROVE  ReqOK(q)'
    <2>1. q.began \in Nat /\ q.settled \in Nat /\ q.began <= q.settled /\ q.settled <= now
      BY <1>6 DEF ReqOK, Typed, Req
    <2>2. ~Fresh(q)' /\ ~Rested(q)'
      BY <1>1, <1>2, <2>1 DEF Fresh, Rested
    <2>3. Typed(q)' /\ Consented(q)'
      BY <1>1, <1>6 DEF ReqOK, Typed, Consented
    <2>4. UpToDate(q)' /\ Right(q)'
      BY <1>6, <2>2 DEF ReqOK, UpToDate, Right
    <2> QED BY <2>3, <2>4 DEF ReqOK
  <1>7. \A r \in Requests : req'[r] = Idle \/ ReqOK(req[r])'
    <2> SUFFICES ASSUME NEW r \in Requests PROVE req'[r] = Idle \/ ReqOK(req[r])'
      OBVIOUS
    <2>1. req'[r] = req[r] /\ (req[r] = Idle \/ ReqOK(req[r]))
      BY <1>1 DEF Inv
    <2>2. ReqOK(req[r]) => (ReqOK(req[r]))'
      BY <1>1, <1>6
    <2> QED BY <2>1, <2>2
  <1> QED BY <1>1, <1>3, <1>5, <1>7 DEF Inv

\* Consent is only asked of a request that no veto stood against all along.
LEMMA VetoKeeps ==
  ASSUME Inv, Veto
  PROVE  Inv'
  <1>1. Overlays /\ vetoed' = ~vetoed /\ UNCHANGED <<policy, edited, cache, now>>
    BY DEF Veto
  <1>2. Clocks' /\ CacheOK(cache)'
    BY <1>1 DEF Inv, Clocks, CacheOK, EntryOK
  <1>3. ASSUME NEW r \in Requests
        PROVE  req'[r] = Idle \/ ReqOK(req[r])'
    <2> DEFINE old == req[r]
               q == [old EXCEPT !.open = TRUE]
    <2>1. old = Idle \/ ReqOK(old)
      BY DEF Inv
    <2>2. req'[r] = IF old = Idle \/ At(r, "answered") THEN old ELSE q
      BY DEF Veto
    <2>3. CASE old = Idle
      BY <2>2, <2>3
    <2>4. CASE ReqOK(old) /\ old # Idle /\ old.pc = "answered"
      <3>1. req'[r] = old
        BY <2>2, <2>4 DEF At
      <3>2. Typed(req[r])' /\ Consented(req[r])' /\ UpToDate(req[r])' /\ Right(req[r])'
        BY <1>1, <2>4, <3>1 DEF ReqOK, Typed, Consented, UpToDate, Right, Fresh, Rested
      <3> QED BY <3>2 DEF ReqOK
    <2>5. CASE ReqOK(old) /\ old # Idle /\ old.pc # "answered"
      <3>1. req'[r] = q
        BY <2>2, <2>5 DEF At
      <3>2. old \in Req
        BY <2>5 DEF ReqOK, Typed
      <3>3. /\ q \in Req /\ q.pc = old.pc /\ q.view = old.view /\ q.input = old.input
            /\ q.frames = old.frames /\ q.began = old.began /\ q.settled = old.settled
            /\ q.open = TRUE /\ q.user = old.user /\ q.verdict = old.verdict
        BY <3>2 DEF Req
      <3> HIDE DEF q
      <3>4. Typed(req[r])' /\ Consented(req[r])'
        BY <1>1, <2>5, <3>1, <3>3 DEF ReqOK, Typed, Consented
      <3>5. UpToDate(req[r])' /\ Right(req[r])'
        BY <1>1, <2>5, <3>1, <3>3 DEF ReqOK, UpToDate, Right, Fresh, Rested
      <3> QED BY <3>4, <3>5 DEF ReqOK
    <2> QED BY <2>1, <2>3, <2>4, <2>5
  <1>4. DOMAIN req' = Requests
    BY DEF Veto
  <1> QED BY <1>2, <1>3, <1>4 DEF Inv

\* Time moves on, and never past the end of an evaluation.
LEMMA TickKeeps ==
  ASSUME Inv, Tick
  PROVE  Inv'
  <1>1. now' = now + 1 /\ now < MaxTime /\ UNCHANGED <<policy, edited, vetoed, cache, req>>
    BY DEF Tick
  <1>2. /\ now \in 0 .. MaxTime /\ now \in Nat /\ MaxTime \in Nat /\ MaxLatency \in Nat
        /\ Ttl \in Nat \ {0} /\ edited \in (0 .. now) \cup {NoRow}
    BY DecisionsAssumption DEF Inv, Clocks
  <1>3. Clocks'
    BY <1>1, <1>2 DEF Inv, Clocks
  <1>4. ASSUME NEW e, EntryOK(e)
        PROVE  EntryOK(e)'
    <2>1. e \in Entries /\ e.expires <= now + Ttl /\ e.expires \in Nat
      BY <1>2, <1>4 DEF EntryOK, Entries
    <2> QED BY <1>1, <1>2, <1>4, <2>1 DEF EntryOK
  <1>5. CacheOK(cache)'
    BY <1>1, <1>4 DEF Inv, CacheOK
  <1>6. ASSUME NEW r \in Requests
        PROVE  req'[r] = Idle \/ ReqOK(req[r])'
    <2> DEFINE q == req[r]
    <2>1. req'[r] = q /\ (q = Idle \/ ReqOK(q))
      BY <1>1 DEF Inv
    <2>2. CASE q # Idle /\ ReqOK(q)
      <3>1. q.began \in Nat /\ q.settled \in Nat /\ q.pc \in Pcs
        BY <2>2 DEF ReqOK, Typed, Req
      <3>2. q.pc \in EvalPcs => now' <= q.began + MaxLatency
        BY <1>1, <1>2, <2>2, <3>1 DEF Tick, Evaluating, EvalPcs
      <3>3. Typed(req[r])' /\ Consented(req[r])'
        BY <1>1, <1>2, <2>1, <2>2, <3>1, <3>2 DEF ReqOK, Typed, Consented
      <3>4. UpToDate(req[r])' /\ Right(req[r])'
        BY <1>1, <2>1, <2>2 DEF ReqOK, UpToDate, Right, Fresh, Rested
      <3> QED BY <3>3, <3>4 DEF ReqOK
    <2> QED BY <2>1, <2>2
  <1> QED BY <1>1, <1>3, <1>5, <1>6 DEF Inv

\* A step that changes nothing keeps the invariant.
LEMMA Stutters ==
  ASSUME Inv, UNCHANGED vars
  PROVE  Inv'
  BY DEF vars, Inv, Clocks, CacheOK, EntryOK, ReqOK, Typed, Consented, UpToDate, Right, Fresh, Rested

\* Every reachable state satisfies the invariant, whatever the order in which
\* requests, edits, rules of the features and the clock take their steps.
THEOREM Invariant == Spec => []Inv
  <1>1. Init => Inv
    BY Starts
  <1>2. Inv /\ [Next]_vars => Inv'
    <2> SUFFICES ASSUME Inv, [Next]_vars PROVE Inv'
      OBVIOUS
    <2>1. ASSUME NEW r \in Requests, NEW in \in Inputs, Ask(r, in) PROVE Inv'
      BY <2>1, AskKeeps
    <2>2. ASSUME NEW r \in Requests, ReadUser(r) PROVE Inv'
      BY <2>2, ReadUserKeeps
    <2>3. ASSUME NEW r \in Requests, ReadContracts(r) \/ ReadRows(r) \/ ReadTemplates(r) PROVE Inv'
      BY <2>3, ReadKeeps
    <2>4. ASSUME NEW r \in Requests, Evaluate(r) PROVE Inv'
      BY <2>4, EvaluateKeeps
    <2>5. ASSUME NEW r \in Requests, Overlay(r) PROVE Inv'
      BY <2>5, OverlayKeeps
    <2>6. ASSUME NEW r \in Requests, Forget(r) PROVE Inv'
      BY <2>6, ForgetKeeps
    <2>7. ASSUME NEW p \in Policies, Edit(p) PROVE Inv'
      BY <2>7, EditKeeps
    <2>8. CASE Veto
      BY <2>8, VetoKeeps
    <2>9. CASE Tick
      BY <2>9, TickKeeps
    <2>10. CASE UNCHANGED vars
      BY <2>10, Stutters
    <2> QED BY <2>1, <2>2, <2>3, <2>4, <2>5, <2>6, <2>7, <2>8, <2>9, <2>10 DEF Next
  <1> QED BY <1>1, <1>2, PTL DEF Spec

-----------------------------------------------------------------------------
\* What the listener promises

\* The variables stay in their sets.
THEOREM TypeCorrect == Spec => []TypeOK
  <1>1. Inv => TypeOK
    <2> SUFFICES ASSUME Inv PROVE TypeOK
      OBVIOUS
    <2>1. ASSUME NEW r \in Requests, req[r] # Idle
          PROVE  /\ req[r].pc \in Pcs
                 /\ req[r].frames \in [1..Len(req[r].input.frames) -> Verdicts]
                 /\ req[r].began \in 0..now
      BY <2>1 DEF Inv, Clocks, ReqOK, Typed, Req
    <2>2. ASSUME NEW k \in 1..Len(cache)
          PROVE  /\ cache[k].verdict \in {"allow", "deny"}
                 /\ cache[k].expires \in Ttl..(MaxTime + Ttl)
      BY DEF Inv, CacheOK, EntryOK, Entries
    <2> QED BY <2>1, <2>2 DEF Inv, Clocks, TypeOK
  <1> QED BY <1>1, Invariant, PTL

\* A write is only allowed if no veto stood throughout the request, also where the
\* capability comes from the cache (applyOverlays after withDecisionCache).
THEOREM VetoBinds == Spec => []VetoBindsAtOnce
  <1>1. Inv => VetoBindsAtOnce
    BY DEF Inv, VetoBindsAtOnce, At, ReqOK, Consented
  <1> QED BY <1>1, Invariant, PTL

\* An answer that has outlived the last edit is the walk's, or an overlay refused it.
LEMMA SettledIsRight ==
  ASSUME Inv, NEW r \in Requests, Settled(r), Quiet(r)
  PROVE  /\ ReqOK(req[r]) /\ req[r].input \in Inputs
         /\ \/ req[r].verdict = AtOnce(policy, req[r].input)
            \/ /\ At(r, "answered") /\ req[r].verdict = "deny"
               /\ AtOnce(policy, req[r].input) = "allow"
               /\ Overlays /\ req[r].input.access = "write"
  <1>1. /\ ReqOK(req[r]) /\ req[r].input \in Inputs
        /\ req[r].pc \in {"overlay", "answered"} /\ req[r].pc \notin EvalPcs
        /\ At(r, "answered") <=> req[r].pc = "answered"
    BY DEF Settled, At, Inv, ReqOK, Typed, Req, EvalPcs
  <1>2. Rested(req[r])
    <2>1. Ttl \in Nat /\ MaxLatency \in Nat /\ edited \in Nat \cup {NoRow} /\ req[r].settled \in Nat
      BY <1>1, DecisionsAssumption DEF Inv, Clocks, ReqOK, Typed, Req
    <2> QED BY <2>1 DEF Quiet, Rested
  <1> QED BY <1>1, <1>2 DEF ReqOK, Right

\* Once the time to live and the longest evaluation have passed after an edit, every
\* answer is the one of the sequential walk over the tables, cached or not, for any
\* trace; the cache keeps to its size (decision-cache.ts, judge-service.ts).
THEOREM ConvergesToPolicy == Spec => []ConvergesAfterTtl
  <1>1. Inv => ConvergesAfterTtl
    <2> SUFFICES ASSUME Inv PROVE ConvergesAfterTtl
      OBVIOUS
    <2>1. /\ Len(cache) <= MaxEntries
          /\ \A k, l \in 1..Len(cache) : cache[k].key = cache[l].key => k = l
      BY DEF Inv, CacheOK
    <2> QED BY <2>1, SettledIsRight DEF ConvergesAfterTtl
  <1> QED BY <1>1, Invariant, PTL

\* Such an answer that allows a trace keeps every frame within what the signer may
\* reach: an umbrella never opens another organization's contract and waives no
\* argument restriction (judge-service.ts, authorization-service.ts).
THEOREM UmbrellaKept == Spec => []UmbrellaKeepsToItsOwn
  <1>1. Inv => UmbrellaKeepsToItsOwn
    <2> SUFFICES ASSUME Inv, NEW r \in Requests, MultiOrg, Settled(r), Quiet(r),
                        req[r].verdict = "allow", req[r].input.route = "judge",
                        NEW i \in 2..Len(req[r].input.frames),
                        req[r].input.frames[i].kind # "constructor",
                        ~Transfer(req[r].input.frames[i])
                 PROVE  Reaches(policy, req[r].input, i)
      BY DEF UmbrellaKeepsToItsOwn
    <2> DEFINE in == req[r].input
    <2>1. in \in Inputs /\ AtOnce(policy, in) = "allow"
      BY SettledIsRight
    <2>2. WellFormed(in) /\ policy \in Policies /\ Consistent(policy)
      BY <2>1, TablesAndInputs DEF Inv, Clocks
    <2>3. in.frames # <<>>
      OBVIOUS
    <2> HIDE DEF in
    <2>4. Allowed(policy, in)
      BY <2>1, <2>2, <2>3, AllowIsAllowed DEF in
    <2>5. policy.user.dead \in BOOLEAN
      BY <2>4 DEF Allowed, Consistent
    <2> QED BY <2>4, <2>5, AllowedReaches DEF in
  <1> QED BY <1>1, Invariant, PTL
=============================================================================
