----------------------- MODULE NftAutoPinPlan_proofs -----------------------
(***************************************************************************)
(* Once nothing is under way, NftAutoPin has pinned or refused the user's  *)
(* tokens and forgotten all others, for every finite set of tokens and     *)
(* whatever goes wrong however often, as long as automatic pinning is not  *)
(* switched off and the wallet is not reset.                               *)
(***************************************************************************)
EXTENDS NftAutoPinJobs_proofs, NftAutoPinRecord_proofs

-----------------------------------------------------------------------------
(* What a queue holds *)

Held(q) == {q[k] : k \in DOMAIN q}

LEMMA HeldType ==
  ASSUME NEW q \in Seq(Intents)
  PROVE  Held(q) \subseteq Intents
BY ElementOfSeq, LenProperties DEF Held

LEMMA HeldAppend ==
  ASSUME NEW q \in Seq(Intents), NEW i \in Intents
  PROVE  Held(Append(q, i)) = Held(q) \cup {i}
<1> DEFINE a == Append(q, i)
<1>1. Len(q) \in Nat /\ DOMAIN q = 1 .. Len(q)
  BY LenProperties
<1>2. /\ a \in Seq(Intents)
      /\ Len(a) = Len(q) + 1
      /\ \A k \in 1 .. Len(q) : a[k] = q[k]
      /\ a[Len(q) + 1] = i
  BY AppendProperties
<1> HIDE DEF a
<1>3. DOMAIN a = 1 .. Len(q) + 1
  BY <1>2, LenProperties
<1>4. \A k \in DOMAIN a : k \in DOMAIN q \/ k = Len(q) + 1
  BY <1>1, <1>3
<1>5. \A k \in DOMAIN q : k \in DOMAIN a
  BY <1>1, <1>3
<1>6. Len(q) + 1 \in DOMAIN a
  BY <1>1, <1>3
<1>7. Held(a) = Held(q) \cup {i}
  BY <1>1, <1>2, <1>4, <1>5, <1>6 DEF Held
<1> QED
  BY <1>7 DEF a

LEMMA HeldConcat ==
  ASSUME NEW p \in Seq(Intents), NEW q \in Seq(Intents)
  PROVE  Held(p \o q) = Held(p) \cup Held(q)
<1> DEFINE a == p \o q
<1>1. /\ Len(p) \in Nat /\ DOMAIN p = 1 .. Len(p)
      /\ Len(q) \in Nat /\ DOMAIN q = 1 .. Len(q)
  BY LenProperties
<1>2. /\ a \in Seq(Intents)
      /\ Len(a) = Len(p) + Len(q)
      /\ \A k \in 1 .. Len(p) + Len(q) :
           a[k] = IF k <= Len(p) THEN p[k] ELSE q[k - Len(p)]
  BY ConcatProperties
<1> HIDE DEF a
<1>3. DOMAIN a = 1 .. Len(p) + Len(q)
  BY <1>2, LenProperties
<1>4. ASSUME NEW k \in DOMAIN a
      PROVE  \/ k \in DOMAIN p /\ a[k] = p[k]
             \/ k - Len(p) \in DOMAIN q /\ a[k] = q[k - Len(p)]
  BY <1>1, <1>2, <1>3
<1>5. ASSUME NEW k \in DOMAIN p
      PROVE  k \in DOMAIN a /\ a[k] = p[k]
  BY <1>1, <1>2, <1>3
<1>6. ASSUME NEW k \in DOMAIN q
      PROVE  Len(p) + k \in DOMAIN a /\ a[Len(p) + k] = q[k]
  <2>1. Len(p) + k \in 1 .. Len(p) + Len(q) /\ ~(Len(p) + k <= Len(p))
        /\ (Len(p) + k) - Len(p) = k
    BY <1>1
  <2> QED
    BY <1>2, <1>3, <2>1
<1>7. Held(a) \subseteq Held(p) \cup Held(q)
  BY <1>4 DEF Held
<1>8. Held(p) \subseteq Held(a) /\ Held(q) \subseteq Held(a)
  BY <1>5, <1>6 DEF Held
<1> QED
  BY <1>7, <1>8 DEF a

\* A list of a set holds that set.
LEMMA HeldOrder ==
  ASSUME NEW S, IsFiniteSet(S), NEW s \in Orders(S)
  PROVE  Held(s) = S
<1>1. \A k \in DOMAIN s : s[k] \in S
  BY OrderOnce
<1>2. \A x \in S : \E k \in DOMAIN s : s[k] = x
  BY DEF Orders
<1> QED
  BY <1>1, <1>2 DEF Held

\* Without takes nothing but the intents about the token.
LEMMA HeldWithout ==
  ASSUME NEW t, NEW q \in Seq(Intents)
  PROVE  Held(Without(t, q)) = {i \in Held(q) : i.token # t}
<1> DEFINE w == Without(t, q)
           kept == {k \in DOMAIN q : q[k].token # t}
           c == Cardinality(kept)
<1>1. PICK f \in [DOMAIN w -> DOMAIN q] :
        /\ \A n \in DOMAIN w : w[n] = q[f[n]] /\ q[f[n]].token # t
        /\ \A m, n \in DOMAIN w : f[m] = f[n] => m = n
  BY WithoutEffect
<1>2. DOMAIN w = 1 .. c
  BY DEF Without
<1>3. Len(q) \in Nat /\ kept \in SUBSET (1 .. Len(q))
  BY LenProperties
<1>4. IsFiniteSet(kept) /\ c \in Nat
  <2> HIDE DEF kept
  <2> QED
    BY <1>3, IndicesFinite
<1>5. f \in Injection(1 .. c, kept)
  <2>1. f \in [1 .. c -> kept]
    <3> HIDE DEF w, c
    <3> QED
      BY <1>1, <1>2
  <2> HIDE DEF kept, w, c
  <2> QED
    BY <1>1, <1>2, <2>1 DEF Injection, IsInjective
<1> HIDE DEF kept, w, c
<1>6. IsFiniteSet(1 .. c) /\ Cardinality(1 .. c) = c
  BY <1>4, FS_Interval
<1>7. f \in Surjection(1 .. c, kept)
  BY <1>4, <1>5, <1>6, FS_Injection DEF c
<1>8. \A k \in kept : \E n \in DOMAIN w : f[n] = k
  BY <1>2, <1>7 DEF Surjection
<1>9. Held(w) \subseteq {i \in Held(q) : i.token # t}
  BY <1>1 DEF Held
<1>10. ASSUME NEW i \in Held(q), i.token # t
       PROVE  i \in Held(w)
  <2>1. PICK k \in DOMAIN q : q[k] = i
    BY DEF Held
  <2>2. k \in kept
    BY <1>10, <2>1 DEF kept
  <2>3. PICK n \in DOMAIN w : f[n] = k
    BY <1>8, <2>2
  <2> QED
    BY <1>1, <2>1, <2>3 DEF Held
<1> QED
  BY <1>9, <1>10 DEF w

\* Of the beginning that AfterMoot drops, every intent has nothing to do.
LEMMA HeldAfterMoot ==
  ASSUME NEW q \in Seq(Intents), NEW st
  PROVE  /\ AfterMoot(q, st) \in Seq(Intents)
         /\ Held(AfterMoot(q, st)) \subseteq Held(q)
         /\ \A i \in Held(q) : IsMoot(i, st) \/ i \in Held(AfterMoot(q, st))
<1> DEFINE moot == {k \in DOMAIN q : \A m \in 1 .. k : IsMoot(q[m], st)}
           n == Cardinality(moot)
           r == AfterMoot(q, st)
<1>1. Len(q) \in Nat /\ DOMAIN q = 1 .. Len(q) /\ moot \in SUBSET (1 .. Len(q))
  BY LenProperties
<1>2. IsFiniteSet(moot) /\ n \in 0 .. Len(q)
  BY <1>1, IndicesFinite
<1>3. r = SubSeq(q, n + 1, Len(q))
  BY DEF AfterMoot
<1>4. \A k \in moot : IsMoot(q[k], st) /\ \A m \in 1 .. k : m \in moot
  BY <1>1
<1> HIDE DEF moot, r
<1>5. /\ r \in Seq(Intents)
      /\ Len(r) = Len(q) - n
      /\ \A k \in 1 .. Len(q) - n : r[k] = q[n + k]
  BY <1>2, <1>3, EndOfSeq
<1>6. DOMAIN r = 1 .. Len(q) - n
  BY <1>5, LenProperties
<1>7. ASSUME NEW k \in 1 .. n
      PROVE  k \in moot
  <2> SUFFICES ASSUME k \notin moot PROVE FALSE
    OBVIOUS
  <2>1. moot \in SUBSET (1 .. k - 1)
    <3>1. \A m \in moot : m \in Nat /\ m >= 1 /\ ~(k \in 1 .. m)
      BY <1>1, <1>4
    <3> QED
      BY <1>2, <3>1
  <2>2. k - 1 \in Nat
    BY <1>2
  <2>3. Cardinality(moot) \in 0 .. k - 1
    BY <2>1, <2>2, IndicesFinite
  <2> QED
    BY <1>2, <2>2, <2>3
<1>8. ASSUME NEW k \in DOMAIN q
      PROVE  IsMoot(q[k], st) \/ q[k] \in Held(r)
  <2>1. CASE k <= n
    <3>1. k \in 1 .. n
      BY <1>1, <1>2, <2>1
    <3> QED
      BY <1>4, <1>7, <3>1
  <2>2. CASE ~(k <= n)
    <3>1. k - n \in DOMAIN r /\ r[k - n] = q[k]
      BY <1>1, <1>2, <1>5, <1>6, <2>2
    <3> QED
      BY <3>1 DEF Held
  <2> QED
    BY <2>1, <2>2
<1>9. ASSUME NEW k \in DOMAIN r
      PROVE  r[k] \in Held(q)
  <2>1. n + k \in DOMAIN q /\ r[k] = q[n + k]
    BY <1>1, <1>2, <1>5, <1>6
  <2> QED
    BY <2>1 DEF Held
<1>10. Held(r) \subseteq Held(q)
  BY <1>9 DEF Held
<1>11. \A i \in Held(q) : IsMoot(i, st) \/ i \in Held(r)
  BY <1>8 DEF Held
<1> QED
  BY <1>5, <1>10, <1>11 DEF r

LEMMA HeldHeadTail ==
  ASSUME NEW q \in Seq(Intents), q # <<>>
  PROVE  /\ Head(q) \in Held(q)
         /\ Tail(q) \in Seq(Intents)
         /\ Held(q) = Held(Tail(q)) \cup {Head(q)}
<1>1. /\ Len(q) \in Nat /\ DOMAIN q = 1 .. Len(q) /\ Len(q) # 0
      /\ Head(q) = q[1]
      /\ Tail(q) \in Seq(Intents)
      /\ Len(Tail(q)) = Len(q) - 1
      /\ \A k \in 1 .. Len(q) - 1 : Tail(q)[k] = q[k + 1]
  BY LenProperties, HeadTailProperties, EmptySeq
<1>2. DOMAIN Tail(q) = 1 .. Len(q) - 1
  BY <1>1, LenProperties
<1>3. 1 \in DOMAIN q
  BY <1>1
<1>4. \A k \in DOMAIN Tail(q) : k + 1 \in DOMAIN q /\ Tail(q)[k] = q[k + 1]
  BY <1>1, <1>2
<1>5. ASSUME NEW k \in DOMAIN q, k # 1
      PROVE  k - 1 \in DOMAIN Tail(q) /\ Tail(q)[k - 1] = q[k]
  BY <1>1, <1>2, <1>5
<1>6. Held(q) \subseteq Held(Tail(q)) \cup {Head(q)}
  BY <1>1, <1>5 DEF Held
<1>7. Held(Tail(q)) \subseteq Held(q) /\ Head(q) \in Held(q)
  BY <1>1, <1>3, <1>4 DEF Held
<1> QED
  BY <1>1, <1>6, <1>7

-----------------------------------------------------------------------------
(* What is planned for a token *)

IsAbout(i, t) == i # NoIntent /\ i.token = t

Wish(op, t) == [op |-> op, token |-> t]

\* A token of the user is being dealt with or will be again, or it is pinned or
\* refused and nothing is about to undo that.
WantedIsPlanned(t, Q, c, st, rs) ==
  \/ c = Wish("add", t) \/ Wish("add", t) \in Q
  \/ Wish("add", t) \in rs
  \/ c = Wish("validate", t)
  \/ st[t] \in {"pinned", "refused"} /\ c # Wish("delete", t)

\* A token that is no longer wanted is being forgotten or is forgotten.
UnwantedIsPlanned(t, Q, c, st) ==
  \/ c = Wish("delete", t) \/ Wish("delete", t) \in Q
  \/ st[t] = "none" /\ ~IsAbout(c, t)

\* A token that waits to be validated is pinned and nothing else happens to it.
ChecksArePinned(t, Q, c, st, rs) ==
  Wish("validate", t) \in Q =>
    /\ st[t] = "pinned"
    /\ ~IsAbout(c, t)
    /\ Wish("add", t) \notin rs
    /\ \A i \in Q : i.token = t => i.op = "validate"

\* Q is what the queue holds, c the intent that runs, rs what is retried.
HasPlan(t, Q, c, st, rs, toks) ==
  /\ t \in toks => WantedIsPlanned(t, Q, c, st, rs)
  /\ t \notin toks => UnwantedIsPlanned(t, Q, c, st)
  /\ ChecksArePinned(t, Q, c, st, rs)

EachHasPlan(Q, c, st, rs, toks) ==
  \A t \in Tokens : HasPlan(t, Q, c, st, rs, toks)

LEMMA WishIsIntent ==
  ASSUME NEW t \in Tokens, NEW op \in {"add", "delete", "validate"}
  PROVE  /\ Wish(op, t) \in Intents
         /\ Wish(op, t).op = op
         /\ Wish(op, t).token = t
         /\ Wish(op, t) # NoIntent
BY NoIntentIsNone DEF Wish, Intents

LEMMA IntentIsWish ==
  ASSUME NEW i \in Intents
  PROVE  /\ i.token \in Tokens
         /\ i.op \in {"add", "delete", "validate"}
         /\ i = Wish(i.op, i.token)
         /\ i # NoIntent
BY NoIntentIsNone DEF Wish, Intents

\* Starting an intent and dropping those with nothing to do leaves every token
\* with its plan.
LEMMA StartingPlans ==
  ASSUME NEW Q \in SUBSET Intents, NEW R \in SUBSET Q, NEW i \in Q \ R,
         NEW st \in [Tokens -> Statuses], NEW rs, NEW toks,
         EachHasPlan(Q, NoIntent, st, rs, toks),
         \A j \in Q : (j.op = "delete") <=> (j.token \notin toks),
         \A j \in Q : j = i \/ j \in R \/ IsMoot(j, st)
  PROVE  EachHasPlan(R, i,
           IF i.op = "delete" THEN [st EXCEPT ![i.token] = "unpinning"] ELSE st,
           rs, toks)
<1> DEFINE new == IF i.op = "delete" THEN [st EXCEPT ![i.token] = "unpinning"]
                  ELSE st
<1>1. /\ i.token \in Tokens /\ i.op \in {"add", "delete", "validate"}
      /\ i = Wish(i.op, i.token) /\ i # NoIntent
  BY IntentIsWish
<1>2. /\ \A t \in Tokens : t # i.token => new[t] = st[t]
      /\ i.op # "delete" => new = st
  BY <1>1
<1> HIDE DEF new
<1>3. ASSUME NEW t \in Tokens
      PROVE  HasPlan(t, R, i, new, rs, toks)
  <2>1. HasPlan(t, Q, NoIntent, st, rs, toks)
    BY DEF EachHasPlan
  <2>2. \A op \in {"add", "delete", "validate"} :
          /\ Wish(op, t).op = op /\ Wish(op, t).token = t
          /\ Wish(op, t) # NoIntent
    BY WishIsIntent
  <2>3. ASSUME t \in toks
        PROVE  WantedIsPlanned(t, R, i, new, rs)
    <3>1. i # Wish("delete", t)
      BY <2>2, <2>3
    <3>2. new[t] = st[t]
      BY <1>1, <1>2, <2>2, <3>1
    <3>3. CASE Wish("add", t) \in Q
      <4>1. \/ Wish("add", t) = i \/ Wish("add", t) \in R
            \/ st[t] = "pinned"
        BY <2>2, <3>3 DEF IsMoot
      <4> QED
        BY <3>1, <3>2, <4>1 DEF WantedIsPlanned
    <3>4. CASE Wish("add", t) \in rs
      BY <3>4 DEF WantedIsPlanned
    <3>5. CASE st[t] \in {"pinned", "refused"}
      BY <3>1, <3>2, <3>5 DEF WantedIsPlanned
    <3> QED
      BY <2>1, <2>2, <2>3, <3>3, <3>4, <3>5 DEF HasPlan, WantedIsPlanned
  <2>4. ASSUME t \notin toks
        PROVE  UnwantedIsPlanned(t, R, i, new)
    <3>1. CASE Wish("delete", t) \in Q
      <4>1. Wish("delete", t) = i \/ Wish("delete", t) \in R
        BY <2>2, <3>1 DEF IsMoot
      <4> QED
        BY <4>1 DEF UnwantedIsPlanned
    <3>2. CASE Wish("delete", t) \notin Q
      <4>1. i.token # t
        BY <1>1, <2>4, <3>2
      <4>2. st[t] = "none"
        BY <2>1, <2>2, <2>4, <3>2 DEF HasPlan, UnwantedIsPlanned
      <4> QED
        BY <1>2, <4>1, <4>2 DEF UnwantedIsPlanned, IsAbout
    <3> QED
      BY <3>1, <3>2
  <2>5. ASSUME Wish("validate", t) \in R
        PROVE  ChecksArePinned(t, R, i, new, rs)
    <3>1. /\ st[t] = "pinned"
          /\ Wish("add", t) \notin rs
          /\ \A j \in Q : j.token = t => j.op = "validate"
      BY <2>1, <2>5 DEF HasPlan, ChecksArePinned
    <3>2. i.token # t
      BY <1>1, <2>5, <3>1
    <3> QED
      BY <1>2, <3>1, <3>2 DEF ChecksArePinned, IsAbout
  <2>6. ChecksArePinned(t, R, i, new, rs)
    BY <2>5 DEF ChecksArePinned
  <2> QED
    BY <2>3, <2>4, <2>6 DEF HasPlan
<1> QED
  BY <1>3 DEF EachHasPlan, new

\* With nothing left to run the tokens are as they should be.
LEMMA EmptyPlans ==
  ASSUME NEW Q \in SUBSET Intents, NEW st \in [Tokens -> Statuses], NEW rs,
         NEW toks, EachHasPlan(Q, NoIntent, st, rs, toks),
         \A j \in Q : IsMoot(j, st)
  PROVE  EachHasPlan({}, NoIntent, st, rs, toks)
<1>1. ASSUME NEW t \in Tokens
      PROVE  HasPlan(t, {}, NoIntent, st, rs, toks)
  <2>1. HasPlan(t, Q, NoIntent, st, rs, toks)
    BY DEF EachHasPlan
  <2>2. \A op \in {"add", "delete", "validate"} :
          /\ Wish(op, t).op = op /\ Wish(op, t).token = t
          /\ Wish(op, t) # NoIntent
    BY WishIsIntent
  <2>3. Wish("add", t) \in Q => st[t] = "pinned"
    BY <2>2 DEF IsMoot
  <2>4. Wish("delete", t) \notin Q
    BY <2>2 DEF IsMoot
  <2> QED
    BY <2>1, <2>2, <2>3, <2>4
       DEF HasPlan, WantedIsPlanned, UnwantedIsPlanned, ChecksArePinned
<1> QED
  BY <1>1 DEF EachHasPlan

\* CheckQueue leaves every token with its plan.
LEMMA CheckQueuePlans ==
  ASSUME NEW c, NEW q \in Seq(Intents), NEW st \in [Tokens -> Statuses],
         NEW rs, NEW toks, Agree(q, c, toks),
         EachHasPlan(Held(q), c, st, rs, toks)
  PROVE  LET d == CheckQueue(c, q, st)
         IN  EachHasPlan(Held(d.queue), d.current, d.status, rs, toks)
<1> DEFINE d == CheckQueue(c, q, st)
           r == AfterMoot(q, st)
<1>1. CASE c # NoIntent
  <2>1. d.queue = q /\ d.current = c /\ d.status = st
    BY <1>1 DEF CheckQueue
  <2> HIDE DEF d
  <2> QED
    BY <2>1 DEF d
<1>2. CASE c = NoIntent /\ r = <<>>
  <2>1. d.queue = <<>> /\ d.current = NoIntent /\ d.status = st
    BY <1>2 DEF CheckQueue
  <2> HIDE DEF d
  <2>2. Held(<<>>) = {}
    BY DEF Held
  <2>3. \A j \in Held(q) : IsMoot(j, st)
    BY <1>2, <2>2, HeldAfterMoot
  <2>4. EachHasPlan({}, NoIntent, st, rs, toks)
    BY <1>2, <2>3, HeldType, EmptyPlans
  <2> QED
    BY <2>1, <2>2, <2>4 DEF d
<1>3. CASE c = NoIntent /\ r # <<>>
  <2> DEFINE i == Head(r)
             new == IF i.op = "delete" THEN [st EXCEPT ![i.token] = "unpinning"]
                    ELSE st
  <2>1. d.queue = Tail(r) /\ d.current = i /\ d.status = new
    BY <1>3 DEF CheckQueue
  <2>2. /\ r \in Seq(Intents)
        /\ Held(r) \subseteq Held(q)
        /\ \A j \in Held(q) : IsMoot(j, st) \/ j \in Held(r)
    BY HeldAfterMoot
  <2> HIDE DEF d, r, new
  <2>3. i \in Held(r) /\ Held(r) = Held(Tail(r)) \cup {i}
    BY <1>3, <2>2, HeldHeadTail
  <2>4. i \notin Held(Tail(r))
    <3>1. Agree(d.queue, d.current, toks)
      BY CheckQueueAgrees DEF d
    <3> QED
      BY <2>1, <3>1 DEF Agree, Held
  <2>5. \A j \in Held(q) : (j.op = "delete") <=> (j.token \notin toks)
    BY DEF Agree, Held
  <2>6. Held(q) \in SUBSET Intents
    BY HeldType
  <2>7. i \in Held(q) \ Held(Tail(r)) /\ Held(Tail(r)) \in SUBSET Held(q)
    BY <2>2, <2>3, <2>4
  <2>8. \A j \in Held(q) : j = i \/ j \in Held(Tail(r)) \/ IsMoot(j, st)
    BY <2>2, <2>3
  <2>9. EachHasPlan(Held(q), NoIntent, st, rs, toks)
    BY <1>3
  <2> HIDE DEF i
  <2>10. EachHasPlan(Held(Tail(r)), i, new, rs, toks)
    BY <2>5, <2>6, <2>7, <2>8, <2>9, StartingPlans DEF new
  <2>11. EachHasPlan(Held(d.queue), d.current, d.status, rs, toks)
    BY <2>1, <2>10
  <2> QED
    BY <2>11 DEF d
<1> QED
  BY <1>1, <1>2, <1>3

\* One token's plan may be changed without touching the others'.
LEMMA OthersPlan ==
  ASSUME NEW t \in Tokens, NEW u \in Tokens, u # t,
         NEW P, NEW Q, NEW b, NEW c,
         NEW st, NEW new, NEW rs, NEW rt, NEW toks, NEW knows,
         P \cup Q \cup rs \cup rt \subseteq Intents,
         HasPlan(u, P, b, st, rs, toks),
         \A i \in Intents : i.token # t => (i \in P <=> i \in Q),
         \A i \in Intents : i.token # t => (i \in rs <=> i \in rt),
         b = c \/ ((b = NoIntent \/ b.token = t) /\ (c = NoIntent \/ c.token = t)),
         new[u] = st[u],
         u \in toks <=> u \in knows
  PROVE  HasPlan(u, Q, c, new, rt, knows)
<1>1. \A op \in {"add", "delete", "validate"} :
        /\ Wish(op, u).op = op /\ Wish(op, u).token = u
        /\ Wish(op, u) # NoIntent /\ Wish(op, u) \in Intents
  BY WishIsIntent
<1>2. \A op \in {"add", "delete", "validate"} :
        /\ Wish(op, u) \in P <=> Wish(op, u) \in Q
        /\ Wish(op, u) \in rs <=> Wish(op, u) \in rt
        /\ b = Wish(op, u) <=> c = Wish(op, u)
  BY <1>1
<1>3. IsAbout(b, u) <=> IsAbout(c, u)
  BY DEF IsAbout
<1>4. (\A i \in P : i.token = u => i.op = "validate")
        => \A i \in Q : i.token = u => i.op = "validate"
  OBVIOUS
<1>5. WantedIsPlanned(u, P, b, st, rs) => WantedIsPlanned(u, Q, c, new, rt)
  BY <1>2 DEF WantedIsPlanned
<1>6. UnwantedIsPlanned(u, P, b, st) => UnwantedIsPlanned(u, Q, c, new)
  BY <1>2, <1>3 DEF UnwantedIsPlanned
<1>7. ChecksArePinned(u, P, b, st, rs) => ChecksArePinned(u, Q, c, new, rt)
  BY <1>2, <1>3, <1>4 DEF ChecksArePinned
<1> QED
  BY <1>5, <1>6, <1>7 DEF HasPlan

\* AddOrExecute plans what it is asked for, if the tokens ask for it too.
LEMMA AddOrExecutePlans ==
  ASSUME NEW i \in Intents, i.op \in {"add", "delete"}, NEW c,
         NEW q \in Seq(Intents), NEW st \in [Tokens -> Statuses],
         NEW rs \in SUBSET Intents, NEW toks, Agree(q, c, toks),
         \A u \in Tokens : u # i.token => HasPlan(u, Held(q), c, st, rs, toks),
         Wish("validate", i.token) \notin Held(q),
         ~((i.op = "delete") <=> (i.token \notin toks)) =>
           HasPlan(i.token, Held(q), c, st, rs, toks)
  PROVE  LET d == AddOrExecute(i, c, q, st, toks)
         IN  EachHasPlan(Held(d.queue), d.current, d.status, rs, toks)
<1> DEFINE t == i.token
           a == Append(q, i)
           m == Marked(i, st)
<1>1. t \in Tokens /\ i = Wish(i.op, t)
  BY IntentIsWish
<1>2. Held(q) \subseteq Intents
  BY HeldType
<1>3. CASE ~IsAccepted(i, c, q, toks)
  <2>1. HasPlan(t, Held(q), c, st, rs, toks)
    <3>1. CASE (i.op = "delete") <=> (t \notin toks)
      <4>1. i \in Held(q) \/ c = i
        BY <1>3, <3>1 DEF IsAccepted, Held
      <4> QED
        BY <1>1, <3>1, <4>1
           DEF HasPlan, WantedIsPlanned, UnwantedIsPlanned, ChecksArePinned
    <3> QED
      BY <3>1
  <2>2. EachHasPlan(Held(q), c, st, rs, toks)
    BY <2>1 DEF EachHasPlan
  <2>3. AddOrExecute(i, c, q, st, toks) = CheckQueue(c, q, st)
    BY <1>3 DEF AddOrExecute
  <2> QED
    BY <2>2, <2>3, CheckQueuePlans
<1>4. CASE IsAccepted(i, c, q, toks)
  <2>1. AddOrExecute(i, c, q, st, toks) = CheckQueue(c, a, m)
    BY <1>4 DEF AddOrExecute
  <2>2. Held(a) = Held(q) \cup {i} /\ a \in Seq(Intents)
    BY HeldAppend, AppendProperties
  <2>3. m \in [Tokens -> Statuses] /\ \A u \in Tokens : u # t => m[u] = st[u]
    BY <1>1 DEF Marked, Intents, Statuses
  <2>4. (i.op = "delete") <=> (t \notin toks)
    BY <1>4 DEF IsAccepted
  <2> HIDE DEF a, m
  <2>5. HasPlan(t, Held(a), c, m, rs, toks)
    <3>1. i \in Held(a)
      BY <2>2
    <3>2. Wish("validate", t) \notin Held(a)
      BY <1>1, <2>2, WishIsIntent
    <3> QED
      BY <1>1, <2>4, <3>1, <3>2
         DEF HasPlan, WantedIsPlanned, UnwantedIsPlanned, ChecksArePinned
  <2>6. ASSUME NEW u \in Tokens, u # t
        PROVE  HasPlan(u, Held(a), c, m, rs, toks)
    <3>1. HasPlan(u, Held(q), c, st, rs, toks) /\ m[u] = st[u]
      BY <2>3, <2>6
    <3>2. \A j \in Intents : j.token # t => (j \in Held(q) <=> j \in Held(a))
      BY <2>2
    <3>3. Held(q) \cup Held(a) \cup rs \cup rs \subseteq Intents
      BY <1>2, <2>2
    <3> QED
      BY <1>1, <2>6, <3>1, <3>2, <3>3, OthersPlan
  <2>7. EachHasPlan(Held(a), c, m, rs, toks)
    BY <2>5, <2>6 DEF EachHasPlan
  <2>8. Agree(a, c, toks)
    BY <1>4, AcceptedAgrees DEF a
  <2> QED
    BY <2>1, <2>2, <2>3, <2>7, <2>8, CheckQueuePlans
<1> QED
  BY <1>3, <1>4

\* Restore plans for the tokens of the wallet, and against all others.
LEMMA RestoredPlans ==
  ASSUME NEW st \in [Tokens -> Statuses], wallet \subseteq Tokens,
         NEW d \in Restored(st)
  PROVE  EachHasPlan(Held(d.queue), d.current, d.status, {}, wallet)
<1> DEFINE marked == [t \in Tokens |->
        IF t \in wallet
        THEN IF st[t] \in {"pinned", "refused"} THEN st[t] ELSE "pinning_pending"
        ELSE IF st[t] = "none" THEN "none" ELSE "unpinning_pending"]
<1>1. PICK due \in SUBSET {t \in wallet : st[t] = "pinned"} :
        \E ws \in Orders(Wishes(due, st)), us \in Orders(Unwanted(st)) :
          d = CheckQueue(NoIntent, ws \o us, marked)
  BY DEF Restored
<1>2. PICK ws \in Orders(Wishes(due, st)), us \in Orders(Unwanted(st)) :
        d = CheckQueue(NoIntent, ws \o us, marked)
  BY <1>1
<1> DEFINE q == ws \o us
<1>3. q \in Seq(Intents) /\ Agree(q, NoIntent, wallet)
  BY ListsAgree
<1>4. Held(q) = Wishes(due, st) \cup Unwanted(st)
  <2>1. ws \in Seq(Intents) /\ us \in Seq(Intents)
        /\ IsFiniteSet(Wishes(due, st)) /\ IsFiniteSet(Unwanted(st))
    BY WishesType, OrdersType, SeqMonotonic
  <2> QED
    BY <2>1, HeldConcat, HeldOrder
<1>5. marked \in [Tokens -> Statuses]
  BY DEF Statuses
<1>6. \A t \in Tokens :
        /\ t \in wallet /\ st[t] \in {"pinned", "refused"} => marked[t] = st[t]
        /\ t \notin wallet /\ st[t] = "none" => marked[t] = "none"
  OBVIOUS
<1> HIDE DEF q, marked
<1>7. ASSUME NEW t \in Tokens
      PROVE  HasPlan(t, Held(q), NoIntent, marked, {}, wallet)
  <2>1. \A op \in {"add", "delete", "validate"} :
          /\ Wish(op, t).op = op /\ Wish(op, t).token = t
          /\ Wish(op, t) # NoIntent
    BY WishIsIntent
  <2>2. ASSUME t \in wallet
        PROVE  WantedIsPlanned(t, Held(q), NoIntent, marked, {})
    <3>1. CASE st[t] \in {"pinned", "refused"}
      BY <1>6, <2>1, <2>2, <3>1 DEF WantedIsPlanned
    <3>2. CASE st[t] \notin {"pinned", "refused"}
      <4>1. Wish("add", t) \in Wishes(due, st)
        BY <2>2, <3>2 DEF Wishes, Wish
      <4> QED
        BY <1>4, <4>1 DEF WantedIsPlanned
    <3> QED
      BY <3>1, <3>2
  <2>3. ASSUME t \notin wallet
        PROVE  UnwantedIsPlanned(t, Held(q), NoIntent, marked)
    <3>1. CASE st[t] = "none"
      BY <1>6, <2>3, <3>1 DEF UnwantedIsPlanned, IsAbout
    <3>2. CASE st[t] # "none"
      <4>1. Wish("delete", t) \in Unwanted(st)
        BY <2>3, <3>2 DEF Unwanted, Wish
      <4> QED
        BY <1>4, <4>1 DEF UnwantedIsPlanned
    <3> QED
      BY <3>1, <3>2
  <2>4. ASSUME Wish("validate", t) \in Held(q)
        PROVE  ChecksArePinned(t, Held(q), NoIntent, marked, {})
    <3>1. t \in due
      BY <1>4, <2>1, <2>4 DEF Wishes, Unwanted
    <3>2. t \in wallet /\ st[t] = "pinned"
      BY <3>1
    <3>3. \A i \in Wishes(due, st) : i.token = t => i.op = "validate"
      BY <3>2 DEF Wishes
    <3>4. \A i \in Unwanted(st) : i.token # t
      BY <3>2 DEF Unwanted
    <3> QED
      BY <1>4, <1>6, <3>2, <3>3, <3>4 DEF ChecksArePinned, IsAbout
  <2>5. ChecksArePinned(t, Held(q), NoIntent, marked, {})
    BY <2>4 DEF ChecksArePinned
  <2> QED
    BY <2>2, <2>3, <2>5 DEF HasPlan
<1>8. EachHasPlan(Held(q), NoIntent, marked, {}, wallet)
  BY <1>7 DEF EachHasPlan
<1>9. d = CheckQueue(NoIntent, q, marked)
  BY <1>2 DEF q
<1> QED
  BY <1>3, <1>5, <1>8, <1>9, CheckQueuePlans

-----------------------------------------------------------------------------
(* The news about tokens *)

News == [added: BOOLEAN, token: Tokens]

\* No later message is about the same token.
IsLast(k, ns) == \A m \in DOMAIN ns : m > k => ns[m].token # ns[k].token

IsTold(t, ns) == \E k \in DOMAIN ns : ns[k].token = t

\* The last message about a token tells what the wallet holds.
NewsTrue(ns, w) ==
  \A k \in DOMAIN ns : IsLast(k, ns) => (ns[k].added <=> ns[k].token \in w)

\* What no message is about is known already.
RestKnown(ns, w, toks) ==
  \A t \in Tokens : ~IsTold(t, ns) => (t \in toks <=> t \in w)

LEMMA NewsSent ==
  ASSUME NEW ns \in Seq(News), NEW w \in SUBSET Tokens, NEW t \in Tokens,
         NEW toks, NewsTrue(ns, w)
  PROVE  LET sent == Append(ns, [added |-> t \notin w, token |-> t])
             after == IF t \in w THEN w \ {t} ELSE w \cup {t}
         IN  /\ NewsTrue(sent, after)
             /\ RestKnown(ns, w, toks) => RestKnown(sent, after, toks)
<1> DEFINE m == [added |-> t \notin w, token |-> t]
           sent == Append(ns, m)
           after == IF t \in w THEN w \ {t} ELSE w \cup {t}
<1>1. m \in News /\ (m.added <=> t \notin w) /\ m.token = t
  BY DEF News
<1>2. /\ t \in after <=> t \notin w
      /\ \A u \in Tokens : u # t => (u \in after <=> u \in w)
  OBVIOUS
<1>3. Len(ns) \in Nat /\ DOMAIN ns = 1 .. Len(ns)
  BY LenProperties
<1>4. \A k \in DOMAIN ns : ns[k] \in News
  BY ElementOfSeq, <1>3
<1> HIDE DEF m, after
<1>5. /\ sent \in Seq(News)
      /\ Len(sent) = Len(ns) + 1
      /\ \A k \in 1 .. Len(ns) : sent[k] = ns[k]
      /\ sent[Len(ns) + 1] = m
  BY <1>1, AppendProperties
<1> HIDE DEF sent
<1>6. DOMAIN sent = 1 .. Len(ns) + 1
  BY <1>5, LenProperties
<1>7. ASSUME NEW k \in DOMAIN sent, IsLast(k, sent)
      PROVE  sent[k].added <=> sent[k].token \in after
  <2>1. CASE k = Len(ns) + 1
    BY <1>1, <1>2, <1>5, <2>1
  <2>2. CASE k # Len(ns) + 1
    <3>1. k \in DOMAIN ns /\ sent[k] = ns[k]
      BY <1>3, <1>5, <1>6, <2>2
    <3>2. Len(ns) + 1 \in DOMAIN sent /\ Len(ns) + 1 > k
      BY <1>3, <1>6, <3>1
    <3>3. ns[k].token # t
      BY <1>1, <1>5, <1>7, <3>1, <3>2 DEF IsLast
    <3>4. IsLast(k, ns)
      <4>1. \A j \in DOMAIN ns : j \in DOMAIN sent /\ sent[j] = ns[j]
        BY <1>3, <1>5, <1>6
      <4> QED
        BY <1>7, <3>1, <4>1 DEF IsLast
    <3>5. ns[k].added <=> ns[k].token \in w
      BY <3>1, <3>4 DEF NewsTrue
    <3>6. ns[k].token \in Tokens
      BY <1>4, <3>1 DEF News
    <3> QED
      BY <1>2, <3>1, <3>3, <3>5, <3>6
  <2> QED
    BY <2>1, <2>2
<1>8. ASSUME NEW u \in Tokens, ~IsTold(u, sent)
      PROVE  u # t /\ ~IsTold(u, ns)
  <2>1. Len(ns) + 1 \in DOMAIN sent
    BY <1>3, <1>6
  <2>2. \A j \in DOMAIN ns : j \in DOMAIN sent /\ sent[j] = ns[j]
    BY <1>3, <1>5, <1>6
  <2> QED
    BY <1>1, <1>5, <1>8, <2>1, <2>2 DEF IsTold
<1>9. NewsTrue(sent, after)
  BY <1>7 DEF NewsTrue
<1>10. RestKnown(ns, w, toks) => RestKnown(sent, after, toks)
  BY <1>2, <1>8 DEF RestKnown
<1> QED
  BY <1>9, <1>10 DEF sent, after, m

LEMMA NewsHeard ==
  ASSUME NEW ns \in Seq(News), ns # <<>>, NEW w, NEW toks, NewsTrue(ns, w)
  PROVE  LET t == Head(ns).token
             after == IF Head(ns).added THEN toks \cup {t} ELSE toks \ {t}
         IN  /\ NewsTrue(Tail(ns), w)
             /\ RestKnown(ns, w, toks) => RestKnown(Tail(ns), w, after)
<1> DEFINE t == Head(ns).token
           after == IF Head(ns).added THEN toks \cup {t} ELSE toks \ {t}
           left == Tail(ns)
<1>1. /\ Len(ns) \in Nat /\ DOMAIN ns = 1 .. Len(ns) /\ Len(ns) # 0
      /\ Head(ns) = ns[1]
      /\ left \in Seq(News)
      /\ Len(left) = Len(ns) - 1
      /\ \A k \in 1 .. Len(ns) - 1 : left[k] = ns[k + 1]
  BY LenProperties, HeadTailProperties, EmptySeq
<1>2. /\ t \in after <=> Head(ns).added
      /\ \A u \in Tokens : u # t => (u \in after <=> u \in toks)
  OBVIOUS
<1> HIDE DEF left, after
<1>3. DOMAIN left = 1 .. Len(ns) - 1 /\ 1 \in DOMAIN ns
  BY <1>1, LenProperties
<1>4. \A k \in DOMAIN left : k + 1 \in DOMAIN ns /\ left[k] = ns[k + 1]
  BY <1>1, <1>3
<1>5. \A k \in DOMAIN ns : k > 1 => k - 1 \in DOMAIN left /\ left[k - 1] = ns[k]
  BY <1>1, <1>3
<1>6. \A k \in DOMAIN ns : k \in Int /\ (k > 1 \/ k = 1)
  BY <1>1
<1>7. ASSUME NEW k \in DOMAIN left, IsLast(k, left)
      PROVE  left[k].added <=> left[k].token \in w
  <2>1. k \in Int
    BY <1>3
  <2>2. ASSUME NEW m \in DOMAIN ns, m > k + 1
        PROVE  ns[m].token # ns[k + 1].token
    <3>1. m > 1 /\ m - 1 > k
      BY <1>1, <1>3, <2>2
    <3> QED
      BY <1>4, <1>5, <1>7, <3>1 DEF IsLast
  <2>3. IsLast(k + 1, ns)
    BY <2>2 DEF IsLast
  <2> QED
    BY <1>4, <2>3 DEF NewsTrue
<1>8. ASSUME NEW u \in Tokens, ~IsTold(u, left), u # t
      PROVE  ~IsTold(u, ns)
  BY <1>1, <1>5, <1>6, <1>8 DEF IsTold
<1>9. ASSUME ~IsTold(t, left)
      PROVE  Head(ns).added <=> t \in w
  <2>1. IsLast(1, ns)
    BY <1>1, <1>5, <1>9 DEF IsTold, IsLast
  <2> QED
    BY <1>1, <1>3, <2>1 DEF NewsTrue
<1>10. NewsTrue(left, w)
  BY <1>7 DEF NewsTrue
<1>11. RestKnown(ns, w, toks) => RestKnown(left, w, after)
  BY <1>2, <1>8, <1>9 DEF RestKnown
<1> QED
  BY <1>10, <1>11 DEF left, after

-----------------------------------------------------------------------------
(* The plans in the steps: the argument of SettledMatchesWallet *)

\* The inductive invariant: what the user has told and the service has not heard
\* is under way, and for every token the service knows of or has a record of,
\* the next intent is planned.
PlanMade ==
  Undisturbed =>
    /\ NewsTrue(news, wallet)
    /\ \A i \in retries : i.op = "add"
    /\ enabled =>
         /\ RestKnown(news, wallet, tokens)
         /\ EachHasPlan(Held(queue), current, status, retries, tokens)

LEMMA PlanMadeSame ==
  ASSUME PlanMade, Calm \/ (\E kind : Upset(kind)),
         UNCHANGED <<enabled, wallet, news, tokens, queue, current, retries,
                     status>>
  PROVE  PlanMade'
<1> SUFFICES ASSUME Undisturbed'
             PROVE  PlanMade'
  BY DEF PlanMade
<1>1. Undisturbed
  BY StaysUndisturbed
<1> QED
  BY <1>1 DEF PlanMade

\* The same for a step that changes what the service does, not what it knows.
LEMMA PlanMadeAgain ==
  ASSUME PlanMade, Calm \/ (\E kind : Upset(kind)),
         UNCHANGED <<enabled, wallet, news, tokens>>,
         Undisturbed =>
           /\ \A i \in retries' : i.op = "add"
           /\ enabled => EachHasPlan(Held(queue'), current', status', retries', tokens)
  PROVE  PlanMade'
<1> SUFFICES ASSUME Undisturbed'
             PROVE  PlanMade'
  BY DEF PlanMade
<1>1. Undisturbed
  BY StaysUndisturbed
<1> QED
  BY <1>1 DEF PlanMade

\* The facts about the queue that the steps use.
LEMMA QueueFacts ==
  ASSUME TypeOK, QueueAgrees
  PROVE  /\ queue \in Seq(Intents) /\ current \in Intents \cup {NoIntent}
         /\ status \in [Tokens -> Statuses] /\ retries \in SUBSET Intents
         /\ tokens \in SUBSET Tokens /\ wallet \in SUBSET Tokens
         /\ news \in Seq(News)
         /\ Held(queue) \subseteq Intents
         /\ Agree(queue, current, tokens)
         /\ Agree(queue, NoIntent, tokens)
<1>1. /\ queue \in Seq(Intents) /\ current \in Intents \cup {NoIntent}
      /\ status \in [Tokens -> Statuses] /\ retries \in SUBSET Intents
      /\ tokens \in SUBSET Tokens /\ wallet \in SUBSET Tokens
      /\ news \in Seq(News)
  BY DEF TypeOK, News
<1>2. Agree(queue, current, tokens)
  BY DEF QueueAgrees, Agree
<1>3. Held(queue) \subseteq Intents
  BY <1>1, HeldType
<1> QED
  BY <1>1, <1>2, <1>3, AgreeIdle

\* The intent that runs being done with, the other tokens keep their plans,
\* whatever becomes of the status of its token and of its retry.
LEMMA OthersKeepPlans ==
  ASSUME NEW t \in Tokens, NEW Q \in SUBSET Intents, NEW c, NEW b,
         NEW st, NEW new, NEW rs \in SUBSET Intents, NEW rt \in SUBSET Intents,
         NEW toks, EachHasPlan(Q, b, st, rs, toks),
         b = c \/ ((b = NoIntent \/ b.token = t) /\ (c = NoIntent \/ c.token = t)),
         \A u \in Tokens : u # t => new[u] = st[u],
         \A i \in Intents : i.token # t => (i \in rs <=> i \in rt)
  PROVE  \A u \in Tokens : u # t => HasPlan(u, Q, c, new, rt, toks)
<1> SUFFICES ASSUME NEW u \in Tokens, u # t
             PROVE  HasPlan(u, Q, c, new, rt, toks)
  OBVIOUS
<1>1. HasPlan(u, Q, b, st, rs, toks)
  BY DEF EachHasPlan
<1>2. Q \cup Q \cup rs \cup rt \subseteq Intents
  OBVIOUS
<1>3. new[u] = st[u]
  OBVIOUS
<1> QED
  BY <1>1, <1>2, <1>3, OthersPlan

\* A token whose intent is running has a plan in the queue against it if it is
\* no longer wanted, and it is not waiting to be validated.
LEMMA RunningToken ==
  ASSUME NEW t \in Tokens, NEW op \in {"add", "validate"}, NEW Q, NEW st,
         NEW rs, NEW toks, HasPlan(t, Q, Wish(op, t), st, rs, toks)
  PROVE  /\ t \notin toks => Wish("delete", t) \in Q
         /\ Wish("validate", t) \notin Q
<1>1. /\ Wish(op, t).op = op /\ Wish(op, t).token = t /\ Wish(op, t) # NoIntent
      /\ Wish("delete", t).op = "delete"
  BY WishIsIntent
<1> QED
  BY <1>1 DEF HasPlan, UnwantedIsPlanned, ChecksArePinned, IsAbout

LEMMA UserChangesPlans ==
  ASSUME TypeOK, QueueAgrees, PlanMade, NEW t \in Tokens, UserChanges(t)
  PROVE  PlanMade'
<1> SUFFICES ASSUME Undisturbed'
             PROVE  PlanMade'
  BY DEF PlanMade
<1>1. /\ wallet' = IF t \in wallet THEN wallet \ {t} ELSE wallet \cup {t}
      /\ news' = Append(news, [added |-> t \notin wallet, token |-> t])
      /\ UNCHANGED <<enabled, tokens, queue, current, retries, status>>
      /\ Calm
  BY DEF UserChanges
<1>2. Undisturbed
  BY <1>1, StaysUndisturbed
<1>3. NewsTrue(news, wallet) /\ news \in Seq(News) /\ wallet \in SUBSET Tokens
  BY <1>2, QueueFacts DEF PlanMade
<1>4. NewsTrue(news', wallet')
  BY <1>1, <1>3, NewsSent
<1>5. RestKnown(news, wallet, tokens) => RestKnown(news', wallet', tokens)
  BY <1>1, <1>3, NewsSent
<1> QED
  BY <1>1, <1>2, <1>4, <1>5 DEF PlanMade

LEMMA TokenNewsArrivesPlans ==
  ASSUME TypeOK, QueueAgrees, PlanMade, TokenNewsArrives
  PROVE  PlanMade'
<1> SUFFICES ASSUME Undisturbed'
             PROVE  PlanMade'
  BY DEF PlanMade
<1> DEFINE t == Head(news).token
           added == Head(news).added
           toks == IF added THEN tokens \cup {t} ELSE tokens \ {t}
           i == [op |-> IF added THEN "add" ELSE "delete", token |-> t]
           w == Without(t, queue)
           d == AddOrExecute(i, current, w, status, toks)
<1>1. /\ news # <<>> /\ news' = Tail(news)
      /\ UNCHANGED <<enabled, wallet, retries>>
      /\ Calm
  BY DEF TokenNewsArrives
<1>2. Undisturbed
  BY <1>1, StaysUndisturbed
<1>3. NewsTrue(news, wallet) /\ \A r \in retries : r.op = "add"
  BY <1>2 DEF PlanMade
<1>4. /\ queue \in Seq(Intents) /\ current \in Intents \cup {NoIntent}
      /\ status \in [Tokens -> Statuses] /\ retries \in SUBSET Intents
      /\ tokens \in SUBSET Tokens /\ news \in Seq(News)
      /\ Held(queue) \subseteq Intents
      /\ Agree(queue, current, tokens)
  BY QueueFacts
<1>5. /\ NewsTrue(news', wallet)
      /\ RestKnown(news, wallet, tokens) => RestKnown(news', wallet, toks)
  BY <1>1, <1>3, <1>4, NewsHeard
<1>6. CASE ~enabled
  BY <1>1, <1>3, <1>5, <1>6 DEF PlanMade
<1>7. CASE enabled
  <2>1. RestKnown(news, wallet, tokens)
        /\ EachHasPlan(Held(queue), current, status, retries, tokens)
    BY <1>2, <1>7 DEF PlanMade
  <2>2. tokens' = toks /\ Dispatched(d, fetches)
    BY <1>7 DEF TokenNewsArrives
  <2>3. t \in Tokens /\ added \in BOOLEAN
    <3>1. Head(news) \in News
      BY <1>1, <1>4, HeadTailProperties
    <3> QED
      BY <3>1 DEF News
  <2>4. i \in Intents /\ i.token = t /\ i.op \in {"add", "delete"}
        /\ ((i.op = "delete") <=> (t \notin toks))
    BY <2>3 DEF Intents
  <2>5. w \in Seq(Intents) /\ Held(w) = {j \in Held(queue) : j.token # t}
    BY <1>4, WithoutEffect, HeldWithout
  <2>6. tokens \ {t} = toks \ {t} /\ \A u \in Tokens : u # t => (u \in tokens <=> u \in toks)
    OBVIOUS
  <2> HIDE DEF t, added, toks, i, w
  <2>7. Agree(w, current, toks)
    BY <1>4, <2>6, WithoutAgrees DEF w
  <2>8. ASSUME NEW u \in Tokens, u # t
        PROVE  HasPlan(u, Held(w), current, status, retries, toks)
    <3>1. HasPlan(u, Held(queue), current, status, retries, tokens)
      BY <2>1 DEF EachHasPlan
    <3>2. Held(queue) \cup Held(w) \cup retries \cup retries \subseteq Intents
      BY <1>4, <2>5
    <3>3. \A j \in Intents : j.token # t => (j \in Held(queue) <=> j \in Held(w))
      BY <2>5
    <3>4. u \in tokens <=> u \in toks
      BY <2>6, <2>8
    <3> QED
      BY <2>3, <2>8, <3>1, <3>2, <3>3, <3>4, OthersPlan
  <2>9. Wish("validate", t) \notin Held(w)
    BY <2>3, <2>5, WishIsIntent
  <2>10. EachHasPlan(Held(d.queue), d.current, d.status, retries, toks)
    BY <1>4, <2>4, <2>5, <2>7, <2>8, <2>9, AddOrExecutePlans
  <2> HIDE DEF d
  <2>11. EachHasPlan(Held(queue'), current', status', retries', tokens')
    BY <1>1, <2>2, <2>10 DEF Dispatched
  <2>12. RestKnown(news', wallet', tokens')
    BY <1>1, <1>5, <2>1, <2>2 DEF toks, added, t
  <2> QED
    BY <1>1, <1>3, <1>5, <2>11, <2>12 DEF PlanMade
<1> QED
  BY <1>6, <1>7

LEMMA RetryFiresPlans ==
  ASSUME TypeOK, QueueAgrees, IntentAwaited, PlanMade,
         NEW i \in Intents, RetryFires(i)
  PROVE  PlanMade'
<1> DEFINE d == AddOrExecute(i, current, queue, status, tokens)
           left == retries \ {i}
<1>1. /\ i \in retries /\ retries' = left /\ Dispatched(d, fetches)
      /\ UNCHANGED <<enabled, wallet, news, tokens>>
      /\ Calm
  BY DEF RetryFires
<1>2. /\ queue \in Seq(Intents) /\ current \in Intents \cup {NoIntent}
      /\ status \in [Tokens -> Statuses] /\ retries \in SUBSET Intents
      /\ Held(queue) \subseteq Intents
      /\ Agree(queue, current, tokens)
  BY QueueFacts
<1>3. i.token \in Tokens /\ i = Wish(i.op, i.token)
  BY IntentIsWish
<1>4. ASSUME Undisturbed
      PROVE  /\ \A r \in retries' : r.op = "add"
             /\ EachHasPlan(Held(d.queue), d.current, d.status, left, tokens)
  <2>1. i.op = "add" /\ \A r \in retries : r.op = "add"
    BY <1>1, <1>4 DEF PlanMade
  <2>2. EachHasPlan(Held(queue), current, status, retries, tokens)
    <3>1. enabled
      BY <1>1 DEF IntentAwaited
    <3> QED
      BY <1>4, <3>1 DEF PlanMade
  <2>3. \A u \in Tokens : u # i.token =>
          HasPlan(u, Held(queue), current, status, left, tokens)
    BY <1>2, <1>3, <2>2, OthersKeepPlans
  <2>4. HasPlan(i.token, Held(queue), current, status, retries, tokens)
    BY <1>3, <2>2 DEF EachHasPlan
  <2>5. Wish("validate", i.token) \notin Held(queue)
    BY <1>1, <1>3, <2>1, <2>4 DEF HasPlan, ChecksArePinned
  <2>6. ~((i.op = "delete") <=> (i.token \notin tokens)) =>
          HasPlan(i.token, Held(queue), current, status, left, tokens)
    BY <2>1, <2>4, <2>5 DEF HasPlan, ChecksArePinned
  <2>7. left \in SUBSET Intents
    BY <1>2
  <2> HIDE DEF left
  <2>8. EachHasPlan(Held(d.queue), d.current, d.status, left, tokens)
    BY <1>2, <2>1, <2>3, <2>5, <2>6, <2>7, AddOrExecutePlans
  <2> QED
    BY <1>1, <2>1, <2>8 DEF left
<1> HIDE DEF d, left
<1>5. Undisturbed =>
        /\ \A r \in retries' : r.op = "add"
        /\ enabled => EachHasPlan(Held(queue'), current', status', retries', tokens)
  BY <1>1, <1>4 DEF Dispatched
<1> QED
  BY <1>1, <1>5, PlanMadeAgain

LEMMA SwitchOnPlans ==
  ASSUME TypeOK, QueueAgrees, IntentAwaited, PlanMade, SwitchOn
  PROVE  PlanMade'
<1> SUFFICES ASSUME Undisturbed'
             PROVE  PlanMade'
  BY DEF PlanMade
<1>1. PICK d \in Restored(status) : Dispatched(d, fetches)
  BY DEF SwitchOn
<1>2. tokens' = wallet /\ UNCHANGED <<wallet, news, retries>> /\ Calm /\ ~enabled
  BY DEF SwitchOn
<1>3. Undisturbed
  BY <1>2, StaysUndisturbed
<1>4. NewsTrue(news, wallet)
  BY <1>3 DEF PlanMade
<1>5. retries = {}
  BY <1>2 DEF IntentAwaited
<1>6. EachHasPlan(Held(d.queue), d.current, d.status, {}, wallet)
  BY QueueFacts, RestoredPlans
<1>7. EachHasPlan(Held(queue'), current', status', retries', tokens')
  BY <1>1, <1>2, <1>5, <1>6 DEF Dispatched
<1>8. RestKnown(news', wallet', tokens')
  BY <1>2 DEF RestKnown
<1> QED
  BY <1>2, <1>4, <1>5, <1>7, <1>8 DEF PlanMade

LEMMA SwitchOffPlans ==
  ASSUME SwitchOff
  PROVE  PlanMade'
<1>1. "off" \in met'
  BY DEF SwitchOff, Upset
<1> QED
  BY <1>1 DEF PlanMade, Undisturbed

\* What is fetched is fetched for the intent that runs.
LEMMA FetchIsCurrent ==
  ASSUME IntentAwaited, NEW f \in fetches, f.live
  PROVE  current = Wish("add", f.token) /\ enabled
<1>1. current = Wish("add", f.token)
  BY DEF IntentAwaited, AwaitedOnce, Wish
<1>2. current # NoIntent
  BY <1>1 DEF Wish, NoIntent
<1> QED
  BY <1>1, <1>2 DEF IntentAwaited

LEMMA MetadataArrivesPlans ==
  ASSUME TypeOK, QueueAgrees, IntentAwaited, RecordTrue, PlanMade,
         NEW f \in Fetches, MetadataArrives(f)
  PROVE  PlanMade'
<1> DEFINE t == f.token
           new == [status EXCEPT ![t] = "pinning"]
<1>1. /\ f \in fetches /\ status' = new
      /\ UNCHANGED <<enabled, wallet, news, tokens, queue, current, retries>>
      /\ Calm
  BY DEF MetadataArrives
<1>2. t \in Tokens
  BY DEF Fetches
<1>3. /\ status \in [Tokens -> Statuses] /\ retries \in SUBSET Intents
      /\ Held(queue) \subseteq Intents
  BY QueueFacts
<1>4. \A u \in Tokens : u # t => new[u] = status[u]
  BY <1>3
<1> HIDE DEF t, new
<1>5. ASSUME Undisturbed
      PROVE  /\ \A i \in retries : i.op = "add"
             /\ EachHasPlan(Held(queue), current, new, retries, tokens)
  <2>1. f.live
    BY <1>1, <1>5 DEF RecordTrue
  <2>2. current = Wish("add", t) /\ enabled
    BY <1>1, <2>1, FetchIsCurrent DEF t
  <2>3. /\ \A i \in retries : i.op = "add"
        /\ EachHasPlan(Held(queue), current, status, retries, tokens)
    BY <1>5, <2>2 DEF PlanMade
  <2>4. \A u \in Tokens : u # t =>
          HasPlan(u, Held(queue), current, new, retries, tokens)
    BY <1>2, <1>3, <1>4, <2>3, OthersKeepPlans
  <2>5. HasPlan(t, Held(queue), Wish("add", t), status, retries, tokens)
    BY <1>2, <2>2, <2>3 DEF EachHasPlan
  <2>6. /\ t \notin tokens => Wish("delete", t) \in Held(queue)
        /\ Wish("validate", t) \notin Held(queue)
    BY <1>2, <2>5, RunningToken
  <2>7. HasPlan(t, Held(queue), current, new, retries, tokens)
    BY <2>2, <2>6
       DEF HasPlan, WantedIsPlanned, UnwantedIsPlanned, ChecksArePinned
  <2> QED
    BY <2>3, <2>4, <2>7 DEF EachHasPlan
<1>6. Undisturbed =>
        /\ \A i \in retries' : i.op = "add"
        /\ enabled => EachHasPlan(Held(queue'), current', status', retries', tokens)
  BY <1>1, <1>5
<1> QED
  BY <1>1, <1>6, PlanMadeAgain

LEMMA MetadataFailsPlans ==
  ASSUME TypeOK, QueueAgrees, IntentAwaited, RecordTrue, PlanMade,
         NEW f \in Fetches, NEW why \in {"failed", "refused"},
         MetadataFails(f, why)
  PROVE  PlanMade'
<1> DEFINE t == f.token
           new == [status EXCEPT ![t] = why]
           d == CheckQueue(NoIntent, queue, new)
<1>1. /\ f \in fetches
      /\ f.live => PostRetry(why = "failed") /\ Dispatched(d, fetches \ {f})
      /\ UNCHANGED <<enabled, wallet, news, tokens>>
      /\ \E kind : Upset(kind)
  BY DEF MetadataFails
<1>2. t \in Tokens
  BY DEF Fetches
<1>3. /\ queue \in Seq(Intents) /\ Agree(queue, NoIntent, tokens)
      /\ status \in [Tokens -> Statuses] /\ retries \in SUBSET Intents
      /\ Held(queue) \subseteq Intents
  BY QueueFacts
<1>4. /\ new \in [Tokens -> Statuses]
      /\ new[t] = why
      /\ \A u \in Tokens : u # t => new[u] = status[u]
  BY <1>2, <1>3 DEF Statuses
<1> HIDE DEF t, new
<1>5. ASSUME Undisturbed
      PROVE  /\ Dispatched(d, fetches \ {f})
             /\ \A i \in retries' : i.op = "add"
             /\ EachHasPlan(Held(d.queue), d.current, d.status, retries', tokens)
  <2>1. f.live
    BY <1>1, <1>5 DEF RecordTrue
  <2>2. current = Wish("add", t) /\ enabled
    BY <1>1, <2>1, FetchIsCurrent DEF t
  <2>3. /\ \A i \in retries : i.op = "add"
        /\ EachHasPlan(Held(queue), current, status, retries, tokens)
    BY <1>5, <2>2 DEF PlanMade
  <2>4. retries' = IF why = "failed" THEN retries \cup {Wish("add", t)} ELSE retries
    BY <1>1, <2>1, <2>2 DEF PostRetry
  <2>5. /\ Wish("add", t) \in Intents /\ Wish("add", t).token = t
        /\ Wish("add", t).op = "add" /\ Wish("delete", t) # NoIntent
    BY <1>2, WishIsIntent
  <2>6. /\ retries' \in SUBSET Intents
        /\ \A i \in retries' : i.op = "add"
        /\ \A i \in Intents : i.token # t => (i \in retries <=> i \in retries')
    BY <1>3, <2>3, <2>4, <2>5
  <2>7. \A u \in Tokens : u # t =>
          HasPlan(u, Held(queue), NoIntent, new, retries', tokens)
    BY <1>2, <1>3, <1>4, <2>2, <2>3, <2>5, <2>6, OthersKeepPlans
  <2>8. HasPlan(t, Held(queue), Wish("add", t), status, retries, tokens)
    BY <1>2, <2>2, <2>3 DEF EachHasPlan
  <2>9. /\ t \notin tokens => Wish("delete", t) \in Held(queue)
        /\ Wish("validate", t) \notin Held(queue)
    BY <1>2, <2>8, RunningToken
  <2>10. HasPlan(t, Held(queue), NoIntent, new, retries', tokens)
    BY <1>4, <2>4, <2>5, <2>9
       DEF HasPlan, WantedIsPlanned, UnwantedIsPlanned, ChecksArePinned
  <2>11. EachHasPlan(Held(queue), NoIntent, new, retries', tokens)
    BY <2>7, <2>10 DEF EachHasPlan
  <2> QED
    BY <1>1, <1>3, <1>4, <2>1, <2>6, <2>11, CheckQueuePlans
<1> HIDE DEF d
<1>6. Undisturbed =>
        /\ \A i \in retries' : i.op = "add"
        /\ enabled => EachHasPlan(Held(queue'), current', status', retries', tokens)
  BY <1>5 DEF Dispatched
<1> QED
  BY <1>1, <1>6, PlanMadeAgain

\* A token that has been pinned needs nothing more while it is wanted.
LEMMA PinnedPlans ==
  ASSUME NEW t \in Tokens, NEW op \in {"add", "validate"},
         NEW Q \in SUBSET Intents, NEW st, NEW new, NEW rs \in SUBSET Intents,
         NEW toks, EachHasPlan(Q, Wish(op, t), st, rs, toks),
         \A u \in Tokens : u # t => new[u] = st[u],
         new[t] = "pinned"
  PROVE  EachHasPlan(Q, NoIntent, new, rs, toks)
<1>1. Wish(op, t).token = t /\ Wish("delete", t) # NoIntent
  BY WishIsIntent
<1>2. \A u \in Tokens : u # t => HasPlan(u, Q, NoIntent, new, rs, toks)
  BY <1>1, OthersKeepPlans
<1>3. HasPlan(t, Q, Wish(op, t), st, rs, toks)
  BY DEF EachHasPlan
<1>4. /\ t \notin toks => Wish("delete", t) \in Q
      /\ Wish("validate", t) \notin Q
  BY <1>3, RunningToken
<1>5. HasPlan(t, Q, NoIntent, new, rs, toks)
  BY <1>1, <1>4
     DEF HasPlan, WantedIsPlanned, UnwantedIsPlanned, ChecksArePinned
<1> QED
  BY <1>2, <1>5 DEF EachHasPlan

\* A token whose pinning has failed is retried.
LEMMA FailedPlans ==
  ASSUME NEW t \in Tokens,
         NEW Q \in SUBSET Intents, NEW st, NEW new, NEW rs \in SUBSET Intents,
         NEW toks, EachHasPlan(Q, Wish("add", t), st, rs, toks),
         \A u \in Tokens : u # t => new[u] = st[u]
  PROVE  EachHasPlan(Q, NoIntent, new, rs \cup {Wish("add", t)}, toks)
<1> DEFINE rt == rs \cup {Wish("add", t)}
<1>1. Wish("add", t).token = t /\ Wish("add", t) \in Intents
  BY WishIsIntent
<1>2. /\ rt \in SUBSET Intents
      /\ \A i \in Intents : i.token # t => (i \in rs <=> i \in rt)
      /\ Wish("add", t) \in rt
  BY <1>1
<1> HIDE DEF rt
<1>3. \A u \in Tokens : u # t => HasPlan(u, Q, NoIntent, new, rt, toks)
  BY <1>1, <1>2, OthersKeepPlans
<1>4. HasPlan(t, Q, Wish("add", t), st, rs, toks)
  BY DEF EachHasPlan
<1>5. /\ t \notin toks => Wish("delete", t) \in Q
      /\ Wish("validate", t) \notin Q
  BY <1>4, RunningToken
<1>6. HasPlan(t, Q, NoIntent, new, rt, toks)
  BY <1>2, <1>5
     DEF HasPlan, WantedIsPlanned, UnwantedIsPlanned, ChecksArePinned
<1> QED
  BY <1>3, <1>6 DEF EachHasPlan, rt

\* A token that has been forgotten while the user wanted it again is in the
\* queue.
LEMMA RemovedPlans ==
  ASSUME NEW t \in Tokens,
         NEW Q \in SUBSET Intents, NEW st, NEW new, NEW rs \in SUBSET Intents,
         NEW toks, EachHasPlan(Q, Wish("delete", t), st, rs, toks),
         \A u \in Tokens : u # t => new[u] = st[u],
         new[t] = "none"
  PROVE  EachHasPlan(Q, NoIntent, new, rs, toks)
<1>1. \A op \in {"add", "delete", "validate"} :
        /\ Wish(op, t).op = op /\ Wish(op, t).token = t
        /\ Wish(op, t) # NoIntent
  BY WishIsIntent
<1>2. \A u \in Tokens : u # t => HasPlan(u, Q, NoIntent, new, rs, toks)
  BY <1>1, OthersKeepPlans
<1>3. HasPlan(t, Q, Wish("delete", t), st, rs, toks)
  BY DEF EachHasPlan
<1>4. t \in toks => Wish("add", t) \in Q \/ Wish("add", t) \in rs
  BY <1>1, <1>3 DEF HasPlan, WantedIsPlanned
<1>5. Wish("validate", t) \notin Q
  BY <1>1, <1>3 DEF HasPlan, ChecksArePinned, IsAbout
<1>6. HasPlan(t, Q, NoIntent, new, rs, toks)
  BY <1>4, <1>5
     DEF HasPlan, WantedIsPlanned, UnwantedIsPlanned, ChecksArePinned, IsAbout
<1> QED
  BY <1>2, <1>6 DEF EachHasPlan

\* A token whose validation has failed has no plan until it is added again.
LEMMA InvalidPlans ==
  ASSUME NEW t \in Tokens,
         NEW Q \in SUBSET Intents, NEW st, NEW new, NEW rs \in SUBSET Intents,
         NEW toks, EachHasPlan(Q, Wish("validate", t), st, rs, toks),
         \A u \in Tokens : u # t => new[u] = st[u]
  PROVE  /\ \A u \in Tokens : u # t => HasPlan(u, Q, NoIntent, new, rs, toks)
         /\ Wish("validate", t) \notin Q
         /\ t \notin toks => HasPlan(t, Q, NoIntent, new, rs, toks)
<1>1. Wish("validate", t).token = t
  BY WishIsIntent
<1>2. \A u \in Tokens : u # t => HasPlan(u, Q, NoIntent, new, rs, toks)
  BY <1>1, OthersKeepPlans
<1>3. HasPlan(t, Q, Wish("validate", t), st, rs, toks)
  BY DEF EachHasPlan
<1>4. /\ t \notin toks => Wish("delete", t) \in Q
      /\ Wish("validate", t) \notin Q
  BY <1>3, RunningToken
<1>5. t \notin toks => HasPlan(t, Q, NoIntent, new, rs, toks)
  BY <1>4 DEF HasPlan, UnwantedIsPlanned, ChecksArePinned
<1> QED
  BY <1>2, <1>4, <1>5

LEMMA JobFinishesPlans ==
  ASSUME TypeOK, QueueAgrees, IntentAwaited, RecordTrue, PlanMade, JobFinishes
  PROVE  PlanMade'
<1> DEFINE w == job.what
           new == CASE w.kind = "add" ->
                       [status EXCEPT ![w.token] =
                          IF job.ok THEN "pinned" ELSE "failed"]
                  [] w.kind = "remove" -> [status EXCEPT ![w.token] = "none"]
                  [] w.kind = "verify" ->
                       [status EXCEPT ![w.token] =
                          IF job.ok THEN "pinned" ELSE "pinning"]
                  [] w.kind = "gc" -> status
           i == [op |-> "add", token |-> w.token]
           kept == [current |-> current, queue |-> queue, status |-> new,
                    fetch |-> {}, work |-> <<>>]
           d == IF ~w.live THEN kept
                ELSE IF w.kind = "verify" /\ ~job.ok
                THEN AddOrExecute(i, NoIntent, queue, new, tokens)
                ELSE CheckQueue(NoIntent, queue, new)
<1>1. /\ Dispatched(d, fetches)
      /\ PostRetry(w.live /\ w.kind = "add" /\ ~job.ok)
      /\ UNCHANGED <<enabled, wallet, news, tokens>>
      /\ Calm
  BY DEF JobFinishes
<1>2. w \in Work \cup {GcJob} /\ job.ok \in BOOLEAN
  BY DEF JobFinishes, Returning, TypeOK, PinJobTypeOK, Running
<1>3. /\ queue \in Seq(Intents) /\ Agree(queue, current, tokens)
      /\ Agree(queue, NoIntent, tokens)
      /\ status \in [Tokens -> Statuses] /\ retries \in SUBSET Intents
  BY QueueFacts
<1>4. w.live => current = IntentOf(w)
  BY DEF IntentAwaited, AwaitedOnce, AwaitedInLine
<1>5. w \in Work => w.kind \in {"add", "remove", "verify"} /\ w.token \in Tokens
  BY DEF Work
<1>6. w = GcJob => w.kind = "gc" /\ ~w.live
  BY DEF GcJob
<1> HIDE DEF w
<1>7. CASE w = GcJob
  <2>1. new = status /\ d = kept
    BY <1>6, <1>7
  <2> HIDE DEF d, new
  <2>2. UNCHANGED <<queue, current, status, retries>>
    BY <1>1, <1>6, <1>7, <2>1 DEF Dispatched, PostRetry
  <2> QED
    BY <1>1, <2>2, PlanMadeSame
<1>8. CASE w \in Work
  <2>1. ASSUME Undisturbed
        PROVE  /\ \A r \in retries' : r.op = "add"
               /\ EachHasPlan(Held(d.queue), d.current, d.status, retries', tokens)
    <3> DEFINE t == w.token
    <3>1. w.live
      BY <1>8, <2>1 DEF RecordTrue, HonestLine, IsHonest, w
    <3>2. current = IntentOf(w) /\ current \in Intents /\ enabled
      <4>1. current = IntentOf(w)
        BY <1>4, <3>1
      <4>2. current \in Intents
        BY <1>5, <1>8, <4>1 DEF IntentOf, Intents
      <4> QED
        BY <4>1, <4>2, NoIntentIsNone DEF IntentAwaited
    <3>3. /\ \A r \in retries : r.op = "add"
          /\ EachHasPlan(Held(queue), current, status, retries, tokens)
      BY <2>1, <3>2 DEF PlanMade
    <3>4. /\ new \in [Tokens -> Statuses]
          /\ \A u \in Tokens : u # t => new[u] = status[u]
          /\ w.kind \in {"add", "verify"} /\ job.ok => new[t] = "pinned"
          /\ w.kind = "remove" => new[t] = "none"
      BY <1>3, <1>5, <1>8 DEF Statuses
    <3>5. retries' = IF w.kind = "add" /\ ~job.ok THEN retries \cup {current}
                     ELSE retries
      BY <1>1, <3>1, <3>2 DEF PostRetry
    <3>6. w.kind = "add" => current.op = "add"
      BY <3>2 DEF IntentOf
    <3>7. /\ \A r \in retries' : r.op = "add"
          /\ retries' \in SUBSET Intents
          /\ Held(queue) \in SUBSET Intents
      BY <1>3, <3>2, <3>3, <3>5, <3>6, HeldType
    <3> HIDE DEF new, i, kept, d
    <3>8. CASE w.kind = "verify" /\ ~job.ok
      <4>1. d = AddOrExecute(i, NoIntent, queue, new, tokens)
        BY <3>1, <3>8 DEF d
      <4>2. i \in Intents /\ i.op = "add" /\ i.token = t /\ t \in Tokens
        BY <1>5, <1>8 DEF Intents, i
      <4>3. current = Wish("validate", t) /\ retries' = retries
        BY <3>2, <3>5, <3>8 DEF IntentOf, Wish
      <4> HIDE DEF t
      <4>4. /\ \A u \in Tokens : u # t =>
                 HasPlan(u, Held(queue), NoIntent, new, retries, tokens)
            /\ Wish("validate", t) \notin Held(queue)
            /\ t \notin tokens =>
                 HasPlan(t, Held(queue), NoIntent, new, retries, tokens)
        <5>1. EachHasPlan(Held(queue), Wish("validate", t), status, retries,
                          tokens)
          BY <3>3, <4>3
        <5>2. \A u \in Tokens : u # t => new[u] = status[u]
          BY <3>4
        <5>3. Held(queue) \in SUBSET Intents /\ retries \in SUBSET Intents
          BY <1>3, <3>7
        <5> QED
          BY <4>2, <5>1, <5>2, <5>3, InvalidPlans
      <4> QED
        BY <1>3, <3>4, <3>7, <4>1, <4>2, <4>3, <4>4, AddOrExecutePlans
    <3>9. CASE ~(w.kind = "verify" /\ ~job.ok)
      <4>1. d = CheckQueue(NoIntent, queue, new)
        BY <3>1, <3>9 DEF d
      <4>2. EachHasPlan(Held(queue), NoIntent, new, retries', tokens)
        <5>1. t \in Tokens
          BY <1>5, <1>8
        <5>2. CASE w.kind = "add" /\ ~job.ok
          <6>1. current = Wish("add", t) /\ retries' = retries \cup {current}
            BY <3>2, <3>5, <5>2 DEF IntentOf, Wish
          <6> HIDE DEF t
          <6> QED
            BY <1>3, <3>3, <3>4, <3>7, <5>1, <6>1, FailedPlans
        <5>3. CASE w.kind \in {"add", "verify"} /\ job.ok
          <6>1. /\ \E op \in {"add", "validate"} : current = Wish(op, t)
                /\ retries' = retries /\ new[t] = "pinned"
            BY <3>2, <3>4, <3>5, <5>3 DEF IntentOf, Wish
          <6> HIDE DEF t
          <6> QED
            BY <1>3, <3>3, <3>4, <3>7, <5>1, <6>1, PinnedPlans
        <5>4. CASE w.kind = "remove"
          <6>1. /\ current = Wish("delete", t)
                /\ retries' = retries /\ new[t] = "none"
            BY <3>2, <3>4, <3>5, <5>4 DEF IntentOf, Wish
          <6> HIDE DEF t
          <6> QED
            BY <1>3, <3>3, <3>4, <3>7, <5>1, <6>1, RemovedPlans
        <5> QED
          BY <1>5, <1>8, <3>9, <5>2, <5>3, <5>4
      <4> QED
        BY <1>3, <3>4, <3>7, <4>1, <4>2, CheckQueuePlans
    <3> QED
      BY <3>7, <3>8, <3>9
  <2> HIDE DEF d
  <2>2. Undisturbed =>
          /\ \A r \in retries' : r.op = "add"
          /\ enabled => EachHasPlan(Held(queue'), current', status', retries', tokens)
    BY <1>1, <2>1 DEF Dispatched
  <2> QED
    BY <1>1, <2>2, PlanMadeAgain
<1> QED
  BY <1>2, <1>7, <1>8

LEMMA NodeAnswersPlans ==
  ASSUME PlanMade, NEW r \in Requests, NodeAnswers(r)
  PROVE  PlanMade'
<1>1. UNCHANGED <<enabled, wallet, news, tokens, queue, current, retries, status>>
  BY DEF NodeAnswers, autoPinVars
<1>2. Calm \/ (\E kind : Upset(kind))
  BY DEF NodeAnswers
<1> QED
  BY <1>1, <1>2, PlanMadeSame

LEMMA NodeFailsPlans ==
  ASSUME PlanMade, NEW r \in Requests, NodeFails(r)
  PROVE  PlanMade'
<1>1. UNCHANGED <<enabled, wallet, news, tokens, queue, current, retries, status>>
  BY DEF NodeFails, autoPinVars
<1>2. Calm \/ (\E kind : Upset(kind))
  BY DEF NodeFails
<1> QED
  BY <1>1, <1>2, PlanMadeSame

LEMMA GcSweepsPlans ==
  ASSUME PlanMade, GcSweeps
  PROVE  PlanMade'
<1>1. UNCHANGED <<enabled, wallet, news, tokens, queue, current, retries, status>>
  BY DEF GcSweeps, autoPinVars
<1>2. Calm \/ (\E kind : Upset(kind))
  BY DEF GcSweeps
<1> QED
  BY <1>1, <1>2, PlanMadeSame

LEMMA GcTimerFiresPlans ==
  ASSUME PlanMade, GcTimerFires
  PROVE  PlanMade'
<1>1. UNCHANGED <<enabled, wallet, news, tokens, queue, current, retries, status>>
  BY DEF GcTimerFires, autoPinVars
<1>2. Calm \/ (\E kind : Upset(kind))
  BY DEF GcTimerFires
<1> QED
  BY <1>1, <1>2, PlanMadeSame

LEMMA NodeLaunchesPlans ==
  ASSUME PlanMade, NodeLaunches
  PROVE  PlanMade'
<1>1. UNCHANGED <<enabled, wallet, news, tokens, queue, current, retries, status>>
  BY DEF NodeLaunches, autoPinVars
<1>2. Calm \/ (\E kind : Upset(kind))
  BY DEF NodeLaunches
<1> QED
  BY <1>1, <1>2, PlanMadeSame

LEMMA NodeFailsToLaunchPlans ==
  ASSUME PlanMade, NodeFailsToLaunch
  PROVE  PlanMade'
<1>1. UNCHANGED <<enabled, wallet, news, tokens, queue, current, retries, status>>
  BY DEF NodeFailsToLaunch, autoPinVars
<1>2. Calm \/ (\E kind : Upset(kind))
  BY DEF NodeFailsToLaunch
<1> QED
  BY <1>1, <1>2, PlanMadeSame

LEMMA OnExecutableReadyPlans ==
  ASSUME PlanMade, OnExecutableReady
  PROVE  PlanMade'
<1>1. UNCHANGED <<enabled, wallet, news, tokens, queue, current, retries, status>>
  BY DEF OnExecutableReady, autoPinVars
<1>2. Calm \/ (\E kind : Upset(kind))
  BY DEF OnExecutableReady
<1> QED
  BY <1>1, <1>2, PlanMadeSame

LEMMA OthersLaunchPlans ==
  ASSUME PlanMade, OthersLaunch
  PROVE  PlanMade'
<1>1. UNCHANGED <<enabled, wallet, news, tokens, queue, current, retries, status>>
  BY DEF OthersLaunch, autoPinVars
<1>2. Calm \/ (\E kind : Upset(kind))
  BY DEF OthersLaunch
<1> QED
  BY <1>1, <1>2, PlanMadeSame

LEMMA UserStopsNodePlans ==
  ASSUME PlanMade, UserStopsNode
  PROVE  PlanMade'
<1>1. UNCHANGED <<enabled, wallet, news, tokens, queue, current, retries, status>>
  BY DEF UserStopsNode, autoPinVars
<1>2. Calm \/ (\E kind : Upset(kind))
  BY DEF UserStopsNode
<1> QED
  BY <1>1, <1>2, PlanMadeSame

LEMMA RestartDaemonPlans ==
  ASSUME PlanMade, RestartDaemon
  PROVE  PlanMade'
<1>1. UNCHANGED <<enabled, wallet, news, tokens, queue, current, retries, status>>
  BY DEF RestartDaemon, autoPinVars
<1>2. Calm \/ (\E kind : Upset(kind))
  BY DEF RestartDaemon
<1> QED
  BY <1>1, <1>2, PlanMadeSame

LEMMA NodeCrashesPlans ==
  ASSUME PlanMade, NodeCrashes
  PROVE  PlanMade'
<1>1. UNCHANGED <<enabled, wallet, news, tokens, queue, current, retries, status>>
  BY DEF NodeCrashes, autoPinVars
<1>2. Calm \/ (\E kind : Upset(kind))
  BY DEF NodeCrashes
<1> QED
  BY <1>1, <1>2, PlanMadeSame

LEMMA PollTimerPlans ==
  ASSUME PlanMade, PollTimer
  PROVE  PlanMade'
<1>1. UNCHANGED <<enabled, wallet, news, tokens, queue, current, retries, status>>
  BY DEF PollTimer, autoPinVars
<1>2. Calm \/ (\E kind : Upset(kind))
  BY DEF PollTimer, Calm
<1> QED
  BY <1>1, <1>2, PlanMadeSame

LEMMA PeersAnswerPlans ==
  ASSUME PlanMade, NEW success \in BOOLEAN, PeersAnswer(success)
  PROVE  PlanMade'
<1>1. UNCHANGED <<enabled, wallet, news, tokens, queue, current, retries, status>>
  BY DEF PeersAnswer, autoPinVars
<1>2. Calm \/ (\E kind : Upset(kind))
  BY DEF PeersAnswer
<1> QED
  BY <1>1, <1>2, PlanMadeSame

LEMMA CliFailsPlans ==
  ASSUME PlanMade, CliFails
  PROVE  PlanMade'
<1>1. UNCHANGED <<enabled, wallet, news, tokens, queue, current, retries, status>>
  BY DEF CliFails, autoPinVars
<1>2. Calm \/ (\E kind : Upset(kind))
  BY DEF CliFails
<1> QED
  BY <1>1, <1>2, PlanMadeSame

LEMMA UserResetsWalletPlans ==
  ASSUME UserResetsWallet
  PROVE  PlanMade'
<1>1. "reset" \in met'
  BY DEF UserResetsWallet, Upset
<1> QED
  BY <1>1 DEF PlanMade, Undisturbed

LEMMA ResetNewsArrivesPlans ==
  ASSUME RecordTrue, ResetNewsArrives
  PROVE  PlanMade'
<1>1. ~Undisturbed
  BY DEF ResetNewsArrives, RecordTrue
<1> QED
  BY <1>1 DEF ResetNewsArrives, Calm, PlanMade, Undisturbed

LEMMA CliListsPlans ==
  ASSUME RecordTrue, CliLists
  PROVE  PlanMade'
<1>1. ~Undisturbed
  BY DEF CliLists, RecordTrue
<1> QED
  BY <1>1 DEF CliLists, Calm, PlanMade, Undisturbed

LEMMA CliRemovesPlans ==
  ASSUME RecordTrue, NEW c \in Cids, CliRemoves(c)
  PROVE  PlanMade'
<1>1. ~Undisturbed
  BY DEF CliRemoves, RecordTrue
<1> QED
  BY <1>1 DEF CliRemoves, Calm, PlanMade, Undisturbed

LEMMA BrowserRestartsPlans ==
  ASSUME TypeOK, QueueAgrees, PlanMade, BrowserRestarts
  PROVE  PlanMade'
<1> SUFFICES ASSUME Undisturbed'
             PROVE  PlanMade'
  BY DEF PlanMade
<1>1. /\ news' = <<>> /\ retries' = {} /\ UNCHANGED <<enabled, wallet>>
      /\ \E kind : Upset(kind)
  BY DEF BrowserRestarts
<1>2. NewsTrue(news', wallet')
  BY <1>1 DEF NewsTrue
<1>3. CASE ~enabled
  BY <1>1, <1>2, <1>3 DEF PlanMade
<1>4. CASE enabled
  <2>1. PICK d \in Restored(status) : tokens' = wallet /\ Dispatched(d, {})
    BY <1>4 DEF BrowserRestarts
  <2>2. EachHasPlan(Held(d.queue), d.current, d.status, {}, wallet)
    BY QueueFacts, RestoredPlans
  <2>3. EachHasPlan(Held(queue'), current', status', retries', tokens')
    BY <1>1, <2>1, <2>2 DEF Dispatched
  <2>4. RestKnown(news', wallet', tokens')
    BY <1>1, <2>1 DEF RestKnown
  <2> QED
    BY <1>1, <1>2, <2>3, <2>4 DEF PlanMade
<1> QED
  BY <1>3, <1>4

LEMMA NextPlans ==
  ASSUME TypeOK, QueueAgrees, IntentAwaited, RecordTrue, PlanMade, Next
  PROVE  PlanMade'
<1>1. CASE \E t \in Tokens : UserChanges(t)
  BY <1>1, UserChangesPlans
<1>2. CASE TokenNewsArrives
  BY <1>2, TokenNewsArrivesPlans
<1>3. CASE \E i \in Intents : RetryFires(i)
  BY <1>3, RetryFiresPlans
<1>4. CASE SwitchOn
  BY <1>4, SwitchOnPlans
<1>5. CASE SwitchOff
  BY <1>5, SwitchOffPlans
<1>6. CASE \E f \in Fetches : MetadataArrives(f)
  BY <1>6, MetadataArrivesPlans
<1>7. CASE \E f \in Fetches, why \in {"failed", "refused"} : MetadataFails(f, why)
  BY <1>7, MetadataFailsPlans
<1>8. CASE \E r \in Requests : NodeAnswers(r)
  BY <1>8, NodeAnswersPlans
<1>9. CASE \E r \in Requests : NodeFails(r)
  BY <1>9, NodeFailsPlans
<1>10. CASE GcSweeps
  BY <1>10, GcSweepsPlans
<1>11. CASE JobFinishes
  BY <1>11, JobFinishesPlans
<1>12. CASE GcTimerFires
  BY <1>12, GcTimerFiresPlans
<1>13. CASE NodeLaunches
  BY <1>13, NodeLaunchesPlans
<1>14. CASE NodeFailsToLaunch
  BY <1>14, NodeFailsToLaunchPlans
<1>15. CASE OnExecutableReady
  BY <1>15, OnExecutableReadyPlans
<1>16. CASE OthersLaunch
  BY <1>16, OthersLaunchPlans
<1>17. CASE UserStopsNode
  BY <1>17, UserStopsNodePlans
<1>18. CASE RestartDaemon
  BY <1>18, RestartDaemonPlans
<1>19. CASE NodeCrashes
  BY <1>19, NodeCrashesPlans
<1>20. CASE PollTimer
  BY <1>20, PollTimerPlans
<1>21. CASE \E success \in BOOLEAN : PeersAnswer(success)
  BY <1>21, PeersAnswerPlans
<1>22. CASE UserResetsWallet
  BY <1>22, UserResetsWalletPlans
<1>23. CASE ResetNewsArrives
  BY <1>23, ResetNewsArrivesPlans
<1>24. CASE CliLists
  BY <1>24, CliListsPlans
<1>25. CASE \E c \in Cids : CliRemoves(c)
  BY <1>25, CliRemovesPlans
<1>26. CASE CliFails
  BY <1>26, CliFailsPlans
<1>27. CASE BrowserRestarts
  BY <1>27, BrowserRestartsPlans
<1> QED
  BY <1>1, <1>2, <1>3, <1>4, <1>5, <1>6, <1>7, <1>8, <1>9, <1>10, <1>11,
     <1>12, <1>13, <1>14, <1>15, <1>16, <1>17, <1>18, <1>19, <1>20, <1>21,
     <1>22, <1>23, <1>24, <1>25, <1>26, <1>27
     DEF Next

LEMMA PlanMadeInit == Init => PlanMade
BY DEF Init, PlanMade, NewsTrue

\* With nothing running or waiting, a plan is a plan that has been carried out.
LEMMA SettledWhenQuiet ==
  ASSUME TypeOK, IntentAwaited, PlanMade
  PROVE  SettledMatchesWallet
<1> SUFFICES ASSUME Quiet, Undisturbed, NEW t \in Tokens
             PROVE  status[t] \in IF t \in wallet THEN {"pinned", "refused"}
                                  ELSE {"none"}
  BY DEF SettledMatchesWallet, Undisturbed
<1>1. enabled /\ news = <<>> /\ current = NoIntent /\ retries = {}
  BY DEF Quiet
<1>2. Held(queue) = {}
  <2>1. queue = <<>>
    BY <1>1 DEF IntentAwaited
  <2> QED
    BY <2>1 DEF Held
<1>3. t \in tokens <=> t \in wallet
  BY <1>1 DEF PlanMade, RestKnown, IsTold
<1>4. HasPlan(t, {}, NoIntent, status, {}, tokens)
  BY <1>1, <1>2 DEF PlanMade, EachHasPlan
<1>5. \A op \in {"add", "delete", "validate"} : Wish(op, t) # NoIntent
  BY WishIsIntent
<1> QED
  BY <1>3, <1>4, <1>5 DEF HasPlan, WantedIsPlanned, UnwantedIsPlanned

\* Unless automatic pinning is switched off or the wallet reset, the tokens of
\* the user are pinned or refused and no other token has a status once nothing
\* is under way, whatever was added, removed, retried, lost or restarted before.
THEOREM SettledTokens == Spec => []SettledMatchesWallet
<1>1. Init => PlanMade
  BY PlanMadeInit
<1>2. TypeOK /\ QueueAgrees /\ IntentAwaited /\ RecordTrue /\ PlanMade
        /\ [Next]_vars => PlanMade'
  <2>1. CASE UNCHANGED vars
    BY <2>1, PlanMadeSame
    DEF vars, autoPinVars, Calm
  <2>2. CASE Next
    BY <2>2, NextPlans
  <2> QED
    BY <2>1, <2>2
<1>3. TypeOK /\ IntentAwaited /\ PlanMade => SettledMatchesWallet
  BY SettledWhenQuiet
<1>4. Spec => []RecordTrue
  BY AlwaysRecordTrue
<1> QED
  BY <1>1, <1>2, <1>3, <1>4, AlwaysAwaited, QueueAgreesAlways, PTL DEF Spec

=============================================================================
