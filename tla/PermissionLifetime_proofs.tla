--------------------- MODULE PermissionLifetime_proofs ---------------------
(***************************************************************************)
(* What PermissionLifetime does for every set of permissions, origins and  *)
(* sites, every lifetime and any number of tabs.                           *)
(***************************************************************************)
EXTENDS PermissionLifetime, WellFoundedInduction, TLAPS

-----------------------------------------------------------------------------
(* Lemmas about the container and the preferences *)

\* A set of times that is not empty has a first one.
LEMMA FirstTime ==
  ASSUME NEW T, T \subseteq Nat, T # {}
  PROVE  \E m \in T : \A n \in T : m <= n
<1>1. PICK m \in T : \A n \in T : ~(<<n, m>> \in OpToRel(<, Nat))
  BY NatLessThanWellFounded, WFMin
<1>2. ASSUME NEW n \in T PROVE m <= n
  <2>1. m \in Nat /\ n \in Nat
    OBVIOUS
  <2>2. ~(n < m)
    BY <1>1, <2>1 DEF OpToRel
  <2> QED
    BY <2>1, <2>2
<1> QED
  BY <1>1, <1>2

\* The timer is scheduled for a time, or for none, which is 0.
LEMMA NearestType ==
  ASSUME NEW e
  PROVE  NearestExpiration(e) \in Nat
<1> DEFINE times == {x.key : x \in e} \cap Nat
<1>1. CASE times = {}
  BY <1>1 DEF NearestExpiration
<1>2. CASE times # {}
  <2>1. \E m \in times : \A n \in times : m <= n
    BY <1>2, FirstTime
  <2>2. (CHOOSE m \in times : \A n \in times : m <= n) \in times
    BY <2>1
  <2> QED
    BY <1>2, <2>2 DEF NearestExpiration
<1> QED
  BY <1>1, <1>2

\* Entries without a time do not move the timer.
LEMMA NearestSame ==
  ASSUME NEW e, NEW f,
         {x.key : x \in e} \cap Nat = {x.key : x \in f} \cap Nat
  PROVE  NearestExpiration(e) = NearestExpiration(f)
<1> DEFINE first(times) ==
      IF times = {} THEN 0 ELSE CHOOSE m \in times : \A n \in times : m <= n
<1>1. /\ NearestExpiration(e) = first({x.key : x \in e} \cap Nat)
      /\ NearestExpiration(f) = first({x.key : x \in f} \cap Nat)
  BY DEF NearestExpiration
<1> HIDE DEF first
<1> QED
  BY <1>1

\* Updating the preferences for every type and key that changed makes them
\* equal to the container.
LEMMA MirrorUpdate ==
  ASSUME NEW p, NEW e, NEW types, NEW keys,
         \A x \in (p \ e) \cup (e \ p) :
           x.type \in types /\ <<x.type, x.key>> \in keys
  PROVE  UpdateExpirationsPref(p, e, types, keys) = e
<1>1. ASSUME NEW x \in UpdateExpirationsPref(p, e, types, keys)
      PROVE  x \in e
  BY <1>1 DEF UpdateExpirationsPref
<1>2. ASSUME NEW x \in e
      PROVE  x \in UpdateExpirationsPref(p, e, types, keys)
  <2>1. x.type \in TypesOf(e)
    BY <1>2 DEF TypesOf
  <2> QED
    BY <1>2, <2>1 DEF UpdateExpirationsPref
<1> QED
  BY <1>1, <1>2

\* What StoreSetting leaves of a container and preferences that agree, with
\* the timer set for them.
LEMMA StoreSettingEffect ==
  ASSUME NEW t, NEW os, NEW s, NEW e, NEW timer,
         timer = NearestExpiration(e),
         StoreSetting(t, os, s, e, e, timer)
  PROVE  /\ expirations' = e \ Stale(e, t, os, s)
         /\ prefs' = e \ Stale(e, t, os, s)
         /\ scheduled' = NearestExpiration(e \ Stale(e, t, os, s))
<1> DEFINE stale == Stale(e, t, os, s)
<1>1. UpdateExpirationsPref(e, e \ stale, {t}, KeysOf(stale)) = e \ stale
  <2>1. ASSUME NEW x \in stale
        PROVE  x.type \in {t} /\ <<x.type, x.key>> \in KeysOf(stale)
    BY <2>1 DEF KeysOf, Stale
  <2> QED
    BY <2>1, MirrorUpdate DEF Stale
<1>2. CASE stale = {}
  BY <1>1, <1>2 DEF StoreSetting
<1>3. CASE stale # {}
  BY <1>1, <1>3 DEF StoreSetting
<1> QED
  BY <1>2, <1>3

\* What RemoveExpired leaves of a container and preferences that agree, when
\* whole keys expire.
LEMMA RemoveExpiredEffect ==
  ASSUME NEW e, NEW gone \in SUBSET e,
         RemoveExpired(e, e, gone)
  PROVE  expirations' = e \ gone /\ prefs' = e \ gone
<1>1. ASSUME NEW x \in gone
      PROVE  x.type \in TypesOf(e) /\ <<x.type, x.key>> \in KeysOf(gone)
  BY <1>1 DEF KeysOf, TypesOf
<1>2. UpdateExpirationsPref(e, e \ gone, TypesOf(e), KeysOf(gone)) = e \ gone
  BY <1>1, MirrorUpdate
<1> QED
  BY <1>2 DEF RemoveExpired

-----------------------------------------------------------------------------
(* Type correctness *)

\* The preferences hold entries only.
LEMMA PrefType ==
  ASSUME NEW p \in SUBSET Entries, NEW e \in SUBSET Entries,
         NEW types, NEW keys
  PROVE  UpdateExpirationsPref(p, e, types, keys) \in SUBSET Entries
BY DEF UpdateExpirationsPref

\* Storing a setting keeps types.
LEMMA StoreSettingType ==
  ASSUME TypeOK, NEW t \in Types, NEW os, NEW s \in Settings,
         NEW e \in SUBSET Entries, NEW p \in SUBSET Entries,
         NEW timer \in Nat,
         StoreSetting(t, os, s, e, p, timer)
  PROVE  /\ settings' \in [Types -> [Origins -> Settings]]
         /\ expirations' \subseteq Entries
         /\ prefs' \subseteq Entries
         /\ scheduled' \in Nat
<1>1. settings' \in [Types -> [Origins -> Settings]]
  BY DEF StoreSetting, TypeOK
<1>2. e \ Stale(e, t, os, s) \in SUBSET Entries
  OBVIOUS
<1>3. UpdateExpirationsPref(p, e \ Stale(e, t, os, s), {t},
                            KeysOf(Stale(e, t, os, s))) \in SUBSET Entries
  BY <1>2, PrefType
<1>4. NearestExpiration(e \ Stale(e, t, os, s)) \in Nat
  BY NearestType
<1> QED
  BY <1>1, <1>2, <1>3, <1>4 DEF StoreSetting

\* Resetting permissions keeps types.
LEMMA ResetType ==
  ASSUME TypeOK, NEW gone, ResetPermissions(gone)
  PROVE  /\ settings' \in [Types -> [Origins -> Settings]]
         /\ ends' \in [Types -> [Origins -> Keys \cup {Forever}]]
BY DEF ResetPermissions, TypeOK, Settings

\* So does removing what has expired.
LEMMA RemoveExpiredType ==
  ASSUME TypeOK, NEW e \in SUBSET Entries, NEW p \in SUBSET Entries, NEW gone,
         RemoveExpired(e, p, gone)
  PROVE  /\ settings' \in [Types -> [Origins -> Settings]]
         /\ ends' \in [Types -> [Origins -> Keys \cup {Forever}]]
         /\ expirations' \subseteq Entries
         /\ prefs' \subseteq Entries
<1>1. UpdateExpirationsPref(p, e \ gone, TypesOf(e), KeysOf(gone))
        \in SUBSET Entries
  <2>1. e \ gone \in SUBSET Entries
    OBVIOUS
  <2> QED
    BY <2>1, PrefType
<1> QED
  BY <1>1, ResetType DEF RemoveExpired

\* The entry a decision adds: its key is a time, or the domain of a site.
LEMMA DecisionKey ==
  ASSUME TypeOK, NEW o \in Origins, NEW l \in Lifetimes \cup {Forever},
         l # Forever, l = 0 => DomainOf[o] # NoDomain,
         NEW key, key = (IF l = 0 THEN DomainOf[o] ELSE now + l)
  PROVE  /\ key \in Keys
         /\ l = 0 => key \in Domains
         /\ l # 0 => key \in Nat
<1>1. l \in Nat
  BY LifetimeAssumption
<1>2. CASE l = 0
  BY <1>2, LifetimeAssumption DEF Keys
<1>3. CASE l # 0
  BY <1>1, <1>3 DEF Keys, TypeOK
<1> QED
  BY <1>2, <1>3

\* What a decision does, whatever the lifetime: it only stores a setting, or it
\* also adds an entry, for a time or for a site that is then watched.
PlainDecision(t, o, r) ==
  /\ StoreSetting(t, {o}, r, expirations, prefs, scheduled)
  /\ ends' = [ends EXCEPT ![t][o] = Forever]
  /\ UNCHANGED subscriptions

Added(t, o, r, k) ==
  expirations \cup {[type |-> t, key |-> k, origin |-> o, setting |-> r]}

AddedPrefs(t, o, r, k) ==
  UpdateExpirationsPref(prefs, Added(t, o, r, k), {t}, {<<t, k>>})

TimedDecision(t, o, r, k) ==
  /\ \E timer \in Nat :
       /\ \/ timer = NearestExpiration(Added(t, o, r, k))
          \/ timer = scheduled /\ k \in Domains
       /\ StoreSetting(t, {o}, r, Added(t, o, r, k), AddedPrefs(t, o, r, k),
                       timer)
  /\ ends' = [ends EXCEPT ![t][o] = k]
  /\ k \in Domains => subscriptions' = subscriptions \cup {k}
  /\ k \notin Domains => UNCHANGED subscriptions

LEMMA DecisionCases ==
  ASSUME TypeOK, NEW t \in Types, NEW o \in Origins, NEW s \in Settings,
         NEW l \in Lifetimes \cup {Forever}, PermissionDecided(t, o, s, l)
  PROVE  \/ \E r \in Settings : PlainDecision(t, o, r)
         \/ \E k \in Keys : TimedDecision(t, o, s, k)
<1> DEFINE Goal == \/ \E r \in Settings : PlainDecision(t, o, r)
                   \/ \E k \in Keys : TimedDecision(t, o, s, k)
<1>1. /\ "default" \in Settings
      /\ scheduled \in Nat
  BY DEF PermissionDecided, Settings, TypeOK
<1>2. 0 # Forever /\ (l \in Nat \ {0} => l # Forever) /\ Domains \cap Nat = {}
  BY LifetimeAssumption
<1>3. ASSUME l = Forever PROVE Goal
  BY <1>2, <1>3 DEF PermissionDecided, PlainDecision
<1>4. ASSUME l = 0, DomainOf[o] = NoDomain PROVE Goal
  BY <1>1, <1>2, <1>4 DEF PermissionDecided, PlainDecision
<1>5. ASSUME l = 0, DomainOf[o] # NoDomain PROVE Goal
  <2>1. PICK k : k = DomainOf[o]
    OBVIOUS
  <2>2. k \in Keys /\ k \in Domains
    BY <1>1, <1>2, <1>5, <2>1, DecisionKey
  <2>3. /\ subscriptions' = subscriptions \cup {k}
        /\ StoreSetting(t, {o}, s, Added(t, o, s, k), AddedPrefs(t, o, s, k),
                        scheduled)
        /\ ends' = [ends EXCEPT ![t][o] = k]
    BY <1>2, <1>5, <2>1 DEF PermissionDecided, Added, AddedPrefs
  <2>4. TimedDecision(t, o, s, k)
    BY <1>1, <2>2, <2>3 DEF TimedDecision
  <2> QED
    BY <2>2, <2>4
<1>6. ASSUME l \in Nat \ {0} PROVE Goal
  <2>1. PICK k : k = now + l
    OBVIOUS
  <2>2. k \in Keys /\ k \in Nat
    BY <1>6, <2>1 DEF Keys, TypeOK
  <2>3. /\ UNCHANGED subscriptions
        /\ StoreSetting(t, {o}, s, Added(t, o, s, k), AddedPrefs(t, o, s, k),
                        NearestExpiration(Added(t, o, s, k)))
        /\ ends' = [ends EXCEPT ![t][o] = k]
    BY <1>2, <1>6, <2>1 DEF PermissionDecided, Added, AddedPrefs
  <2>4. TimedDecision(t, o, s, k)
    BY <1>2, <2>2, <2>3, NearestType DEF TimedDecision
  <2> QED
    BY <2>2, <2>4
<1>7. l = Forever \/ l = 0 \/ l \in Nat \ {0}
  BY LifetimeAssumption
<1> HIDE DEF Goal
<1>8. Goal
  BY <1>3, <1>4, <1>5, <1>6, <1>7
<1> QED
  BY <1>8 DEF Goal

\* A decision keeps types.
LEMMA DecisionType ==
  ASSUME TypeOK, NEW t \in Types, NEW o \in Origins, NEW s \in Settings,
         NEW l \in Lifetimes \cup {Forever}, PermissionDecided(t, o, s, l)
  PROVE  TypeOK'
<1>1. UNCHANGED <<alive, now, siteVars>>
  BY DEF PermissionDecided
<1>2. /\ expirations \in SUBSET Entries /\ prefs \in SUBSET Entries
      /\ scheduled \in Nat
      /\ subscriptions \in SUBSET Domains
      /\ ends \in [Types -> [Origins -> Keys \cup {Forever}]]
  BY DEF TypeOK
<1>3. ASSUME NEW r \in Settings, PlainDecision(t, o, r)
      PROVE  TypeOK'
  <2>1. ends' \in [Types -> [Origins -> Keys \cup {Forever}]]
    BY <1>2, <1>3 DEF PlainDecision
  <2> QED
    BY <1>1, <1>2, <1>3, <2>1, StoreSettingType
    DEF PlainDecision, TypeOK, siteVars
<1>4. ASSUME NEW k \in Keys, TimedDecision(t, o, s, k)
      PROVE  TypeOK'
  <2>1. ends' \in [Types -> [Origins -> Keys \cup {Forever}]]
    BY <1>2, <1>4 DEF TimedDecision
  <2>2. Added(t, o, s, k) \in SUBSET Entries
    BY <1>2 DEF Added, Entries
  <2>3. AddedPrefs(t, o, s, k) \in SUBSET Entries
    BY <1>2, <2>2, PrefType DEF AddedPrefs
  <2>4. subscriptions' \subseteq Domains
    BY <1>2, <1>4 DEF TimedDecision
  <2>5. PICK timer \in Nat :
          StoreSetting(t, {o}, s, Added(t, o, s, k), AddedPrefs(t, o, s, k),
                       timer)
    BY <1>4 DEF TimedDecision
  <2> QED
    BY <1>1, <2>1, <2>2, <2>3, <2>4, <2>5, StoreSettingType
    DEF TypeOK, siteVars
<1> QED
  BY <1>3, <1>4, DecisionCases

\* A change by the user keeps types.
LEMMA ChangeType ==
  ASSUME TypeOK, NEW t \in Types, NEW os, NEW s \in Settings,
         ChangeSetting(t, os, s)
  PROVE  TypeOK'
<1>1. /\ expirations \in SUBSET Entries /\ prefs \in SUBSET Entries
      /\ scheduled \in Nat
  BY DEF TypeOK
<1>2. StoreSetting(t, os, s, expirations, prefs, scheduled)
  BY DEF ChangeSetting
<1>3. ends' \in [Types -> [Origins -> Keys \cup {Forever}]]
  BY DEF ChangeSetting, TypeOK
<1> QED
  BY <1>1, <1>2, <1>3, StoreSettingType DEF ChangeSetting, TypeOK, siteVars

\* The expiry timer keeps types.
LEMMA TimerType ==
  ASSUME TypeOK, OnExpirationTimer
  PROVE  TypeOK'
<1>1. expirations \in SUBSET Entries /\ prefs \in SUBSET Entries
  BY DEF TypeOK
<1>2. RemoveExpired(expirations, prefs, ExpiredBy(expirations, scheduled))
  BY DEF OnExpirationTimer
<1>3. NearestExpiration(expirations') \in Nat
  BY NearestType
<1> QED
  BY <1>1, <1>2, <1>3, RemoveExpiredType DEF OnExpirationTimer, TypeOK, siteVars

\* The end of a site keeps types.
LEMMA CleanupType ==
  ASSUME TypeOK, NEW d \in Domains, CleanupTLDEphemeralArea(d)
  PROVE  TypeOK'
<1>1. expirations \in SUBSET Entries /\ prefs \in SUBSET Entries
  BY DEF TypeOK
<1>2. CASE RemoveExpired(expirations, prefs, ExpiredWith(expirations, d))
  BY <1>1, <1>2, RemoveExpiredType DEF CleanupTLDEphemeralArea, TypeOK
<1>3. CASE UNCHANGED <<settings, expirations, prefs, ends>>
  BY <1>3 DEF CleanupTLDEphemeralArea, TypeOK
<1> QED
  BY <1>2, <1>3 DEF CleanupTLDEphemeralArea

\* Starting keeps types.
LEMMA StartType ==
  ASSUME TypeOK, Start
  PROVE  TypeOK'
<1>1. prefs \in SUBSET Entries
  BY DEF TypeOK
<1>2. RemoveExpired(prefs, prefs, EndedAtStart(prefs))
  BY DEF Start
<1>3. NearestExpiration(expirations') \in Nat
  BY NearestType
<1> QED
  BY <1>1, <1>2, <1>3, RemoveExpiredType DEF Start, TypeOK, siteVars

\* Every step keeps types.
LEMMA TypeStep ==
  ASSUME TypeOK, [Next]_vars
  PROVE  TypeOK'
<1>1. ASSUME NEW t \in Types, NEW o \in Origins, NEW s \in Settings,
             NEW l \in Lifetimes \cup {Forever}, PermissionDecided(t, o, s, l)
      PROVE  TypeOK'
  BY <1>1, DecisionType
<1>2. ASSUME NEW t \in Types, NEW os, NEW s \in Settings,
             ChangeSetting(t, os, s)
      PROVE  TypeOK'
  BY <1>2, ChangeType
<1>3. CASE OnExpirationTimer
  BY <1>3, TimerType
<1>4. ASSUME NEW d \in Domains, CleanupTLDEphemeralArea(d)
      PROVE  TypeOK'
  BY <1>4, CleanupType
<1>5. ASSUME NEW d \in Domains, OpenTab(d)
      PROVE  TypeOK'
  BY <1>5 DEF OpenTab, TypeOK
<1>6. ASSUME NEW d \in Domains, CloseTab(d)
      PROVE  TypeOK'
  <2>1. tabs' \in [Domains -> Nat]
    BY <1>6 DEF CloseTab, TypeOK
  <2> QED
    BY <1>6, <2>1 DEF CloseTab, TypeOK
<1>7. CASE Tick
  BY <1>7 DEF Tick, TypeOK, siteVars
<1>8. CASE Shutdown
  BY <1>8 DEF Shutdown, TypeOK
<1>9. CASE Start
  BY <1>9, StartType
<1>10. CASE UNCHANGED vars
  BY <1>10 DEF vars, siteVars, TypeOK
<1>11. "default" \in Settings
  BY DEF Settings
<1> QED
  BY <1>1, <1>2, <1>3, <1>4, <1>5, <1>6, <1>7, <1>8, <1>9, <1>10, <1>11
  DEF Next

\* For all types, origins, sites and lifetimes: every variable keeps its type;
\* what is in memory, in the preferences and in the timer is always well formed.
THEOREM TypeCorrect == Spec => []TypeOK
<1>1. Init => TypeOK
  BY DEF Init, TypeOK, Settings
<1> QED
  BY <1>1, TypeStep, PTL DEF Spec

-----------------------------------------------------------------------------
(* Memory, preferences and timer agree *)

MirrorInv == PrefsMirror /\ TimerIsNearest

\* A decision leaves the three in agreement: what is stored in the preferences
\* is the container with the new entry, less what the setting made stale.
LEMMA DecisionEffect ==
  ASSUME TypeOK, MirrorInv, alive, NEW t \in Types, NEW o \in Origins,
         NEW s \in Settings, NEW k \in Keys, TimedDecision(t, o, s, k)
  PROVE  LET left == Added(t, o, s, k) \ Stale(Added(t, o, s, k), t, {o}, s)
         IN  /\ expirations' = left
             /\ prefs' = left
             /\ scheduled' = NearestExpiration(left)
<1> DEFINE e == Added(t, o, s, k)
<1>1. PICK timer \in Nat :
        /\ timer = NearestExpiration(e) \/ (timer = scheduled /\ k \in Domains)
        /\ StoreSetting(t, {o}, s, e, AddedPrefs(t, o, s, k), timer)
  BY DEF TimedDecision
<1>2. prefs = expirations /\ scheduled = NearestExpiration(expirations)
  BY DEF MirrorInv, PrefsMirror, TimerIsNearest
<1>3. AddedPrefs(t, o, s, k) = e
  <2>1. \A x \in (prefs \ e) \cup (e \ prefs) :
          x.type \in {t} /\ <<x.type, x.key>> \in {<<t, k>>}
    BY <1>2 DEF Added
  <2> QED
    BY <2>1, MirrorUpdate DEF AddedPrefs
<1>4. timer = NearestExpiration(e)
  <2>1. ASSUME k \in Domains
        PROVE  NearestExpiration(expirations) = NearestExpiration(e)
    <3>1. k \notin Nat
      BY <2>1, LifetimeAssumption
    <3>2. {x.key : x \in expirations} \cap Nat = {x.key : x \in e} \cap Nat
      BY <3>1 DEF Added
    <3> QED
      BY <3>2, NearestSame
  <2> QED
    BY <1>1, <1>2, <2>1
<1>5. StoreSetting(t, {o}, s, e, e, timer)
  BY <1>1, <1>3
<1> HIDE DEF e
<1>6. /\ expirations' = e \ Stale(e, t, {o}, s)
      /\ prefs' = e \ Stale(e, t, {o}, s)
      /\ scheduled' = NearestExpiration(e \ Stale(e, t, {o}, s))
  BY <1>4, <1>5, StoreSettingEffect
<1> QED
  BY <1>6 DEF e

\* The same for a setting that is stored without a new entry.
LEMMA StoreEffect ==
  ASSUME MirrorInv, alive, NEW t, NEW os, NEW s,
         StoreSetting(t, os, s, expirations, prefs, scheduled)
  PROVE  LET left == expirations \ Stale(expirations, t, os, s)
         IN  /\ expirations' = left
             /\ prefs' = left
             /\ scheduled' = NearestExpiration(left)
<1>1. prefs = expirations /\ scheduled = NearestExpiration(expirations)
  BY DEF MirrorInv, PrefsMirror, TimerIsNearest
<1> QED
  BY <1>1, StoreSettingEffect

\* When a site ends, its entries leave the container and the preferences.
LEMMA CleanupEffect ==
  ASSUME MirrorInv, alive, NEW d \in Domains, d \in subscriptions,
         CleanupTLDEphemeralArea(d)
  PROVE  /\ expirations' = expirations \ ExpiredWith(expirations, d)
         /\ prefs' = expirations \ ExpiredWith(expirations, d)
         /\ ResetPermissions(ExpiredWith(expirations, d))
<1>1. RemoveExpired(expirations, expirations, ExpiredWith(expirations, d))
  BY DEF CleanupTLDEphemeralArea, MirrorInv, PrefsMirror
<1>2. ExpiredWith(expirations, d) \in SUBSET expirations
  BY DEF ExpiredWith
<1> QED
  BY <1>1, <1>2, RemoveExpiredEffect DEF RemoveExpired

\* When the timer fires, the entries up to its time do.
LEMMA TimerEffect ==
  ASSUME MirrorInv, OnExpirationTimer
  PROVE  /\ expirations' = expirations \ ExpiredBy(expirations, scheduled)
         /\ prefs' = expirations \ ExpiredBy(expirations, scheduled)
         /\ ResetPermissions(ExpiredBy(expirations, scheduled))
<1>1. RemoveExpired(expirations, expirations,
                    ExpiredBy(expirations, scheduled))
  BY DEF OnExpirationTimer, MirrorInv, PrefsMirror
<1>2. ExpiredBy(expirations, scheduled) \in SUBSET expirations
  BY DEF ExpiredBy
<1> QED
  BY <1>1, <1>2, RemoveExpiredEffect DEF RemoveExpired

\* At the start, what was in the preferences remains less what has ended.
LEMMA StartEffect ==
  ASSUME Start
  PROVE  /\ expirations' = prefs \ EndedAtStart(prefs)
         /\ prefs' = prefs \ EndedAtStart(prefs)
         /\ ResetPermissions(EndedAtStart(prefs))
<1>1. RemoveExpired(prefs, prefs, EndedAtStart(prefs))
  BY DEF Start
<1>2. EndedAtStart(prefs) \in SUBSET prefs
  BY DEF EndedAtStart, ExpiredBy
<1> QED
  BY <1>1, <1>2, RemoveExpiredEffect DEF RemoveExpired

\* Every step keeps the three in agreement.
LEMMA MirrorStep ==
  ASSUME TypeOK, MirrorInv, [Next]_vars
  PROVE  MirrorInv'
<1>1. ASSUME NEW t \in Types, NEW o \in Origins, NEW s \in Settings,
             NEW l \in Lifetimes \cup {Forever}, PermissionDecided(t, o, s, l)
      PROVE  MirrorInv'
  <2>1. alive
    BY <1>1 DEF PermissionDecided
  <2>2. ASSUME NEW r \in Settings, PlainDecision(t, o, r)
        PROVE  MirrorInv'
    BY <2>1, <2>2, StoreEffect
    DEF PlainDecision, MirrorInv, PrefsMirror, TimerIsNearest
  <2>3. ASSUME NEW k \in Keys, TimedDecision(t, o, s, k)
        PROVE  MirrorInv'
    BY <2>1, <2>3, DecisionEffect DEF MirrorInv, PrefsMirror, TimerIsNearest
  <2> QED
    BY <1>1, <2>2, <2>3, DecisionCases
<1>2. ASSUME NEW t \in Types, NEW os, NEW s \in Settings,
             ChangeSetting(t, os, s)
      PROVE  MirrorInv'
  BY <1>2, StoreEffect DEF ChangeSetting, MirrorInv, PrefsMirror, TimerIsNearest
<1>3. CASE OnExpirationTimer
  BY <1>3, TimerEffect
  DEF OnExpirationTimer, MirrorInv, PrefsMirror, TimerIsNearest
<1>4. ASSUME NEW d \in Domains, CleanupTLDEphemeralArea(d)
      PROVE  MirrorInv'
  <2>1. CASE alive /\ d \in subscriptions
    <3>1. /\ expirations' = expirations \ ExpiredWith(expirations, d)
          /\ prefs' = expirations \ ExpiredWith(expirations, d)
      BY <1>4, <2>1, CleanupEffect
    <3>2. {x.key : x \in expirations} \cap Nat
            = {x.key : x \in expirations \ ExpiredWith(expirations, d)} \cap Nat
      BY LifetimeAssumption DEF ExpiredWith
    <3>3. NearestExpiration(expirations) = NearestExpiration(expirations')
      BY <3>1, <3>2, NearestSame
    <3> QED
      BY <1>4, <3>1, <3>3
      DEF CleanupTLDEphemeralArea, MirrorInv, PrefsMirror, TimerIsNearest
  <2>2. CASE ~(alive /\ d \in subscriptions)
    BY <1>4, <2>2
    DEF CleanupTLDEphemeralArea, MirrorInv, PrefsMirror, TimerIsNearest
  <2> QED
    BY <2>1, <2>2
<1>5. ASSUME NEW d \in Domains, OpenTab(d) \/ CloseTab(d)
      PROVE  MirrorInv'
  BY <1>5 DEF OpenTab, CloseTab, MirrorInv, PrefsMirror, TimerIsNearest
<1>6. CASE Tick
  BY <1>6 DEF Tick, MirrorInv, PrefsMirror, TimerIsNearest
<1>7. CASE Shutdown
  BY <1>7 DEF Shutdown, MirrorInv, PrefsMirror, TimerIsNearest
<1>8. CASE Start
  BY <1>8, StartEffect DEF Start, MirrorInv, PrefsMirror, TimerIsNearest
<1>9. CASE UNCHANGED vars
  BY <1>9 DEF vars, MirrorInv, PrefsMirror, TimerIsNearest
<1>10. "default" \in Settings
  BY DEF Settings
<1> QED
  BY <1>1, <1>2, <1>3, <1>4, <1>5, <1>6, <1>7, <1>8, <1>9, <1>10 DEF Next

\* The state TypeOK and MirrorInv describe is never left.
LEMMA MirrorInvariant == Spec => [](TypeOK /\ MirrorInv)
<1>1. Init => MirrorInv
  BY DEF Init, MirrorInv, PrefsMirror, TimerIsNearest, NearestExpiration
<1>2. TypeOK /\ MirrorInv /\ [Next]_vars => MirrorInv'
  BY MirrorStep
<1> QED
  BY <1>1, <1>2, TypeCorrect, PTL DEF Spec

\* Whatever is decided, changed, reset or expires, the preferences of a running
\* profile hold exactly the entries the manager has in memory, so that a crash
\* between two tasks loses none.
THEOREM PrefsAlwaysMirror == Spec => []PrefsMirror
BY MirrorInvariant, PTL DEF MirrorInv

\* The timer of a running profile is always set for the first time among the
\* entries, and unset when there is none, although five operations maintain it.
THEOREM TimerAlwaysNearest == Spec => []TimerIsNearest
BY MirrorInvariant, PTL DEF MirrorInv

-----------------------------------------------------------------------------
(* Sites *)

\* A site whose clean-up is to come is closed, and so is every site of a closed
\* profile.
ClosedSites ==
  /\ \A d \in closing : tabs[d] = 0
  /\ ~alive => closing = {} /\ \A d \in Domains : tabs[d] = 0

\* A clean-up is cancelled when the site is opened again, and set up when its
\* last tab goes.
LEMMA ClosedStep ==
  ASSUME TypeOK, ClosedSites, [Next]_vars
  PROVE  ClosedSites'
<1>1. ASSUME NEW t \in Types, NEW o \in Origins, NEW s \in Settings,
             NEW l \in Lifetimes \cup {Forever}, PermissionDecided(t, o, s, l)
      PROVE  ClosedSites'
  BY <1>1 DEF PermissionDecided, ClosedSites, siteVars
<1>2. ASSUME NEW t \in Types, NEW os, NEW s \in Settings,
             ChangeSetting(t, os, s)
      PROVE  ClosedSites'
  BY <1>2 DEF ChangeSetting, ClosedSites, siteVars
<1>3. CASE OnExpirationTimer
  BY <1>3 DEF OnExpirationTimer, ClosedSites, siteVars
<1>4. ASSUME NEW d \in Domains, CleanupTLDEphemeralArea(d)
      PROVE  ClosedSites'
  BY <1>4 DEF CleanupTLDEphemeralArea, ClosedSites
<1>5. ASSUME NEW d \in Domains, OpenTab(d)
      PROVE  ClosedSites'
  BY <1>5 DEF OpenTab, ClosedSites, TypeOK
<1>6. ASSUME NEW d \in Domains, CloseTab(d)
      PROVE  ClosedSites'
  BY <1>6 DEF CloseTab, ClosedSites, TypeOK
<1>7. CASE Tick
  BY <1>7 DEF Tick, ClosedSites, siteVars
<1>8. CASE Shutdown
  BY <1>8 DEF Shutdown, ClosedSites
<1>9. CASE Start
  BY <1>9 DEF Start, ClosedSites, siteVars
<1>10. CASE UNCHANGED vars
  BY <1>10 DEF vars, siteVars, ClosedSites
<1>11. "default" \in Settings
  BY DEF Settings
<1> QED
  BY <1>1, <1>2, <1>3, <1>4, <1>5, <1>6, <1>7, <1>8, <1>9, <1>10, <1>11
  DEF Next

\* A setting that is stored adds no entry but that of the decision.
LEMMA SiteStep ==
  ASSUME TypeOK, MirrorInv, SiteIsWatched, [Next]_vars
  PROVE  SiteIsWatched'
<1>1. ASSUME NEW t \in Types, NEW o \in Origins, NEW s \in Settings,
             NEW l \in Lifetimes \cup {Forever}, PermissionDecided(t, o, s, l)
      PROVE  SiteIsWatched'
  <2>1. alive /\ UNCHANGED siteVars
    BY <1>1 DEF PermissionDecided
  <2>2. ASSUME NEW r \in Settings, PlainDecision(t, o, r)
        PROVE  SiteIsWatched'
    <3>1. expirations' \subseteq expirations
      BY <2>1, <2>2, StoreEffect DEF PlainDecision
    <3> QED
      BY <2>1, <2>2, <3>1
      DEF PlainDecision, SiteIsWatched, siteVars
  <2>3. ASSUME NEW k \in Keys, TimedDecision(t, o, s, k)
        PROVE  SiteIsWatched'
    <3>1. \A x \in expirations' : x \in expirations \/ x.key = k
      <4>1. expirations' \subseteq Added(t, o, s, k)
        BY <2>1, <2>3, DecisionEffect
      <4> QED
        BY <4>1 DEF Added
    <3>2. subscriptions \subseteq subscriptions'
      BY <2>3 DEF TimedDecision
    <3>3. ~IsTimeKey(k) => k \in subscriptions'
      BY <2>3 DEF TimedDecision, IsTimeKey, Keys
    <3> QED
      BY <2>1, <3>1, <3>2, <3>3 DEF SiteIsWatched, siteVars
  <2> QED
    BY <1>1, <2>2, <2>3, DecisionCases
<1>2. ASSUME NEW t \in Types, NEW os, NEW s \in Settings,
             ChangeSetting(t, os, s)
      PROVE  SiteIsWatched'
  <2>1. expirations' \subseteq expirations
    BY <1>2, StoreEffect DEF ChangeSetting
  <2> QED
    BY <1>2, <2>1 DEF ChangeSetting, SiteIsWatched, siteVars
<1>3. CASE OnExpirationTimer
  <2>1. expirations' \subseteq expirations
    BY <1>3, TimerEffect
  <2> QED
    BY <1>3, <2>1
    DEF OnExpirationTimer, SiteIsWatched, siteVars
<1>4. ASSUME NEW d \in Domains, CleanupTLDEphemeralArea(d), alive
      PROVE  SiteIsWatched'
  <2>1. /\ expirations' \subseteq expirations
        /\ \A x \in expirations' : ~IsTimeKey(x.key) => x.key # d
    <3>1. CASE d \in subscriptions
      BY <1>4, <3>1, CleanupEffect DEF ExpiredWith
    <3>2. CASE d \notin subscriptions
      BY <1>4, <3>2 DEF CleanupTLDEphemeralArea, SiteIsWatched
    <3> QED
      BY <3>1, <3>2
  <2> QED
    BY <1>4, <2>1
    DEF CleanupTLDEphemeralArea, SiteIsWatched
<1>5. ASSUME NEW d \in Domains, CleanupTLDEphemeralArea(d), ~alive
      PROVE  SiteIsWatched'
  BY <1>5 DEF CleanupTLDEphemeralArea, SiteIsWatched
<1>6. ASSUME NEW d \in Domains, OpenTab(d) \/ CloseTab(d)
      PROVE  SiteIsWatched'
  BY <1>6 DEF OpenTab, CloseTab, SiteIsWatched
<1>7. CASE Tick
  BY <1>7 DEF Tick, SiteIsWatched, siteVars
<1>8. CASE Shutdown
  BY <1>8 DEF Shutdown, SiteIsWatched
<1>9. CASE Start
  BY <1>9, StartEffect DEF EndedAtStart, SiteIsWatched
<1>10. CASE UNCHANGED vars
  BY <1>10 DEF vars, siteVars, SiteIsWatched
<1>11. "default" \in Settings
  BY DEF Settings
<1> QED
  BY <1>1, <1>2, <1>3, <1>4, <1>5, <1>6, <1>7, <1>8, <1>9, <1>10, <1>11
  DEF Next

-----------------------------------------------------------------------------
(* No end is lost *)

\* The entry that ends a setting.
Recorded(t, o) ==
  ends[t][o] # Forever =>
    /\ settings[t][o] # "default"
    /\ [type |-> t, key |-> ends[t][o], origin |-> o,
        setting |-> settings[t][o]] \in prefs

\* Resetting what some entries ask for takes no other end away.
LEMMA ResetRecorded ==
  ASSUME TypeOK, EndIsRecorded, NEW gone, ResetPermissions(gone),
         prefs' = prefs \ gone
  PROVE  EndIsRecorded'
<1>1. SUFFICES ASSUME NEW t \in Types, NEW o \in Origins
               PROVE  Recorded(t, o)'
  BY DEF EndIsRecorded, Recorded
<1>2. Recorded(t, o)
  BY DEF EndIsRecorded, Recorded
<1>3. CASE \E x \in gone : x.type = t /\ x.origin = o
  BY <1>3 DEF ResetPermissions, Recorded
<1>4. CASE ~ \E x \in gone : x.type = t /\ x.origin = o
  <2>1. settings'[t][o] = settings[t][o] /\ ends'[t][o] = ends[t][o]
    BY <1>4 DEF ResetPermissions
  <2> QED
    BY <1>2, <1>4, <2>1 DEF Recorded
<1> QED
  BY <1>3, <1>4

\* Storing a setting takes no end away either, but of the origins it is for,
\* unless it is the setting they have.
LEMMA StoreRecorded ==
  ASSUME TypeOK, EndIsRecorded, NEW e \in SUBSET Entries, prefs \subseteq e,
         NEW t \in Types, NEW os, NEW s \in Settings,
         prefs' = e \ Stale(e, t, os, s),
         NEW t2 \in Types, NEW o2 \in Origins,
         settings'[t2][o2] = settings[t2][o2], ends'[t2][o2] = ends[t2][o2],
         ~(t2 = t /\ o2 \in os) \/ settings[t2][o2] = s
  PROVE  Recorded(t2, o2)'
<1>1. Recorded(t2, o2)
  BY DEF EndIsRecorded, Recorded
<1>2. ASSUME ends[t2][o2] # Forever
      PROVE  [type |-> t2, key |-> ends[t2][o2], origin |-> o2,
              setting |-> settings[t2][o2]] \in prefs'
  BY <1>1, <1>2 DEF Recorded, Stale
<1> QED
  BY <1>1, <1>2 DEF Recorded

\* A decision replaces the end of its origin and takes no other away.
LEMMA DecisionRecorded ==
  ASSUME TypeOK, MirrorInv, EndIsRecorded,
         NEW t \in Types, NEW o \in Origins, NEW s \in Settings,
         NEW l \in Lifetimes \cup {Forever}, PermissionDecided(t, o, s, l)
  PROVE  EndIsRecorded'
<1>1. alive /\ s # "default"
  BY DEF PermissionDecided
<1>2. prefs = expirations /\ expirations \in SUBSET Entries
  BY <1>1 DEF MirrorInv, PrefsMirror, TypeOK
<1>3. ASSUME NEW r \in Settings, PlainDecision(t, o, r),
             NEW t2 \in Types, NEW o2 \in Origins
      PROVE  Recorded(t2, o2)'
  <2>1. CASE t2 = t /\ o2 = o
    BY <1>3, <2>1 DEF PlainDecision, Recorded, TypeOK
  <2>2. CASE ~(t2 = t /\ o2 = o)
    <3>1. ends'[t2][o2] = ends[t2][o2]
      BY <1>3, <2>2 DEF PlainDecision, TypeOK
    <3>2. prefs' = expirations \ Stale(expirations, t, {o}, r)
      BY <1>1, <1>3, StoreEffect DEF PlainDecision
    <3>3. settings'[t2][o2] = settings[t2][o2]
      BY <1>3, <2>2 DEF PlainDecision, StoreSetting, TypeOK
    <3> QED
      BY <1>2, <2>2, <3>1, <3>2, <3>3, StoreRecorded
  <2> QED
    BY <2>1, <2>2
<1>4. ASSUME NEW k \in Keys, TimedDecision(t, o, s, k),
             NEW t2 \in Types, NEW o2 \in Origins
      PROVE  Recorded(t2, o2)'
  <2>1. prefs' = Added(t, o, s, k) \ Stale(Added(t, o, s, k), t, {o}, s)
    BY <1>1, <1>4, DecisionEffect
  <2>2. settings' = [settings EXCEPT ![t] =
                       [i \in Origins |-> IF i \in {o} THEN s ELSE @[i]]]
    BY <1>4 DEF TimedDecision, StoreSetting
  <2>3. CASE t2 = t /\ o2 = o
    <3>1. settings'[t][o] = s /\ ends'[t][o] = k
      BY <1>4, <2>2 DEF TimedDecision, TypeOK
    <3>2. [type |-> t, key |-> k, origin |-> o, setting |-> s] \in prefs'
      BY <2>1 DEF Added, Stale
    <3> QED
      BY <1>1, <2>3, <3>1, <3>2 DEF Recorded
  <2>4. CASE ~(t2 = t /\ o2 = o)
    <3>1. ends'[t2][o2] = ends[t2][o2]
      BY <1>4, <2>4 DEF TimedDecision, TypeOK
    <3>2. Added(t, o, s, k) \in SUBSET Entries /\ prefs \subseteq Added(t, o, s, k)
      BY <1>2 DEF Added, Entries
    <3>3. settings'[t2][o2] = settings[t2][o2]
      BY <2>2, <2>4 DEF TypeOK
    <3> QED
      BY <2>1, <2>4, <3>1, <3>2, <3>3, StoreRecorded
  <2> QED
    BY <2>3, <2>4
<1>5. \/ \E r \in Settings : PlainDecision(t, o, r)
      \/ \E k \in Keys : TimedDecision(t, o, s, k)
  BY DecisionCases
<1>6. \A t2 \in Types, o2 \in Origins : Recorded(t2, o2)'
  BY <1>3, <1>4, <1>5
<1> QED
  BY <1>6 DEF EndIsRecorded, Recorded

\* Nor does a change by the user, whose new settings have no end.
LEMMA ChangeRecorded ==
  ASSUME TypeOK, MirrorInv, EndIsRecorded,
         NEW t \in Types, NEW os, NEW s \in Settings, ChangeSetting(t, os, s)
  PROVE  EndIsRecorded'
<1>1. alive
  BY DEF ChangeSetting
<1>2. prefs = expirations /\ expirations \in SUBSET Entries
  BY <1>1 DEF MirrorInv, PrefsMirror, TypeOK
<1>3. prefs' = expirations \ Stale(expirations, t, os, s)
  BY <1>1, StoreEffect DEF ChangeSetting
<1>4. settings' = [settings EXCEPT ![t] =
                     [i \in Origins |-> IF i \in os THEN s ELSE @[i]]]
  BY DEF ChangeSetting, StoreSetting
<1>5. ends' = [ends EXCEPT ![t] =
                 [i \in Origins |-> IF i \in os /\ settings[t][i] # s
                                      THEN Forever ELSE @[i]]]
  BY DEF ChangeSetting
<1>6. ASSUME NEW t2 \in Types, NEW o2 \in Origins
      PROVE  Recorded(t2, o2)'
  <2>1. CASE t2 = t /\ o2 \in os /\ settings[t2][o2] # s
    BY <1>5, <2>1 DEF Recorded, TypeOK
  <2>2. CASE ~(t2 = t /\ o2 \in os) \/ settings[t2][o2] = s
    <3>1. ends'[t2][o2] = ends[t2][o2]
      BY <1>5, <2>2 DEF TypeOK
    <3>2. settings'[t2][o2] = settings[t2][o2]
      BY <1>4, <2>2 DEF TypeOK
    <3> QED
      BY <1>2, <1>3, <2>2, <3>1, <3>2, StoreRecorded
  <2> QED
    BY <2>1, <2>2
<1> QED
  BY <1>6 DEF EndIsRecorded, Recorded

\* No step loses an end.
LEMMA RecordedStep ==
  ASSUME TypeOK, MirrorInv, ClosedSites, EndIsRecorded, [Next]_vars
  PROVE  EndIsRecorded'
<1>1. ASSUME NEW t \in Types, NEW o \in Origins, NEW s \in Settings,
             NEW l \in Lifetimes \cup {Forever}, PermissionDecided(t, o, s, l)
      PROVE  EndIsRecorded'
  BY <1>1, DecisionRecorded
<1>2. ASSUME NEW t \in Types, NEW os, NEW s \in Settings,
             ChangeSetting(t, os, s)
      PROVE  EndIsRecorded'
  BY <1>2, ChangeRecorded
<1>3. CASE OnExpirationTimer
  <2>1. /\ prefs' = prefs \ ExpiredBy(expirations, scheduled)
        /\ ResetPermissions(ExpiredBy(expirations, scheduled))
    BY <1>3, TimerEffect DEF OnExpirationTimer, MirrorInv, PrefsMirror
  <2> QED
    BY <2>1, ResetRecorded
<1>4. ASSUME NEW d \in Domains, CleanupTLDEphemeralArea(d)
      PROVE  EndIsRecorded'
  <2> alive
    BY <1>4 DEF CleanupTLDEphemeralArea, ClosedSites
  <2>1. CASE d \in subscriptions
    <3>1. /\ prefs' = prefs \ ExpiredWith(expirations, d)
          /\ ResetPermissions(ExpiredWith(expirations, d))
      BY <1>4, <2>1, CleanupEffect DEF MirrorInv, PrefsMirror
    <3> QED
      BY <3>1, ResetRecorded
  <2>2. CASE d \notin subscriptions
    BY <1>4, <2>2 DEF CleanupTLDEphemeralArea, EndIsRecorded
  <2> QED
    BY <2>1, <2>2
<1>5. ASSUME NEW d \in Domains, OpenTab(d) \/ CloseTab(d)
      PROVE  EndIsRecorded'
  BY <1>5 DEF OpenTab, CloseTab, EndIsRecorded
<1>6. CASE Tick
  BY <1>6 DEF Tick, EndIsRecorded
<1>7. CASE Shutdown
  BY <1>7 DEF Shutdown, EndIsRecorded
<1>8. CASE Start
  BY <1>8, StartEffect, ResetRecorded
<1>9. CASE UNCHANGED vars
  BY <1>9 DEF vars, EndIsRecorded
<1>10. "default" \in Settings
  BY DEF Settings
<1> QED
  BY <1>1, <1>2, <1>3, <1>4, <1>5, <1>6, <1>7, <1>8, <1>9, <1>10 DEF Next

\* What the reachable states have in common.
LifetimeInv ==
  /\ TypeOK
  /\ MirrorInv
  /\ ClosedSites
  /\ SiteIsWatched
  /\ EndIsRecorded

LEMMA LifetimeInvariant == Spec => []LifetimeInv
<1>1. Init => LifetimeInv
  <2>1. Init => TypeOK /\ EndIsRecorded
    BY DEF Init, TypeOK, Settings, EndIsRecorded
  <2>2. Init => MirrorInv
    BY DEF Init, MirrorInv, PrefsMirror, TimerIsNearest, NearestExpiration
  <2>3. Init => ClosedSites /\ SiteIsWatched
    BY DEF Init, ClosedSites, SiteIsWatched
  <2> QED
    BY <2>1, <2>2, <2>3 DEF LifetimeInv
<1>2. LifetimeInv /\ [Next]_vars => LifetimeInv'
  BY TypeStep, MirrorStep, ClosedStep, SiteStep, RecordedStep DEF LifetimeInv
<1> QED
  BY <1>1, <1>2, PTL DEF Spec

\* As long as a setting the user gave an end is in force, the preferences hold
\* the entry that ends it, whatever was decided before and however often the
\* profile was closed.
THEOREM EndAlwaysRecorded == Spec => []EndIsRecorded
BY LifetimeInvariant, PTL DEF LifetimeInv

\* The monitor watches every site an entry of a running profile waits for: the
\* entries of sites it does not watch went when the profile was opened.
THEOREM SiteAlwaysWatched == Spec => []SiteIsWatched
BY LifetimeInvariant, PTL DEF LifetimeInv

-----------------------------------------------------------------------------
(* No early end *)

\* Where a prompt is shown only for a setting that was not decided, every entry
\* is the end of the setting in force.
EntriesAreCurrent ==
  \A x \in prefs : /\ x.setting # "default"
                   /\ settings[x.type][x.origin] = x.setting
                   /\ ends[x.type][x.origin] = x.key

\* Entries that are reset leave no other entry of their origin behind.
LEMMA ResetCurrent ==
  ASSUME TypeOK, EntriesAreCurrent, NEW gone \in SUBSET prefs,
         ResetPermissions(gone), prefs' = prefs \ gone
  PROVE  EntriesAreCurrent'
<1>1. ASSUME NEW x \in prefs'
      PROVE  /\ x.setting # "default"
             /\ settings'[x.type][x.origin] = x.setting
             /\ ends'[x.type][x.origin] = x.key
  <2>1. x \in Entries /\ x \in prefs /\ x \notin gone
    BY <1>1 DEF TypeOK
  <2>2. x.type \in Types /\ x.origin \in Origins
    BY <2>1 DEF Entries
  <2>3. ~ \E y \in gone : y.type = x.type /\ y.origin = x.origin
    <3>1. SUFFICES ASSUME NEW y \in gone,
                          y.type = x.type, y.origin = x.origin
                   PROVE  FALSE
      OBVIOUS
    <3>2. y.setting = x.setting /\ y.key = x.key /\ y \in Entries
      BY <2>1, <3>1 DEF EntriesAreCurrent, TypeOK
    <3>3. y = x
      BY <2>1, <3>1, <3>2 DEF Entries
    <3> QED
      BY <2>1, <3>3
  <2>4. /\ settings'[x.type][x.origin] = settings[x.type][x.origin]
        /\ ends'[x.type][x.origin] = ends[x.type][x.origin]
    BY <2>2, <2>3 DEF ResetPermissions
  <2> QED
    BY <2>1, <2>4 DEF EntriesAreCurrent
<1> QED
  BY <1>1 DEF EntriesAreCurrent

\* A decision is the first for its origin, which has no entry before.
LEMMA DecisionCurrent ==
  ASSUME TypeOK, MirrorInv, EntriesAreCurrent, Redecide = FALSE,
         NEW t \in Types, NEW o \in Origins, NEW s \in Settings,
         NEW l \in Lifetimes \cup {Forever}, PermissionDecided(t, o, s, l)
  PROVE  EntriesAreCurrent'
<1>1. alive /\ settings[t][o] = "default" /\ s # "default"
  BY DEF PermissionDecided
<1>2. prefs = expirations /\ expirations \in SUBSET Entries
  BY <1>1 DEF MirrorInv, PrefsMirror, TypeOK
<1>3. \A x \in expirations : /\ x.type \in Types /\ x.origin \in Origins
                             /\ ~(x.type = t /\ x.origin = o)
  BY <1>1, <1>2 DEF EntriesAreCurrent, Entries
<1>4. ASSUME NEW r \in Settings, PlainDecision(t, o, r)
      PROVE  EntriesAreCurrent'
  <2>1. prefs' \subseteq expirations
    BY <1>1, <1>4, StoreEffect DEF PlainDecision
  <2>2. \A x \in expirations :
          /\ settings'[x.type][x.origin] = settings[x.type][x.origin]
          /\ ends'[x.type][x.origin] = ends[x.type][x.origin]
    BY <1>3, <1>4 DEF PlainDecision, StoreSetting, TypeOK
  <2> QED
    BY <1>2, <2>1, <2>2 DEF EntriesAreCurrent
<1>5. ASSUME NEW k \in Keys, TimedDecision(t, o, s, k)
      PROVE  EntriesAreCurrent'
  <2>1. prefs' \subseteq Added(t, o, s, k)
    BY <1>1, <1>5, DecisionEffect
  <2>2. \A x \in expirations :
          /\ settings'[x.type][x.origin] = settings[x.type][x.origin]
          /\ ends'[x.type][x.origin] = ends[x.type][x.origin]
    BY <1>3, <1>5 DEF TimedDecision, StoreSetting, TypeOK
  <2>3. settings'[t][o] = s /\ ends'[t][o] = k
    BY <1>5 DEF TimedDecision, StoreSetting, TypeOK
  <2>4. ASSUME NEW x \in prefs'
        PROVE  /\ x.setting # "default"
               /\ settings'[x.type][x.origin] = x.setting
               /\ ends'[x.type][x.origin] = x.key
    <3>1. x \in expirations
            \/ x = [type |-> t, key |-> k, origin |-> o, setting |-> s]
      BY <2>1, <2>4 DEF Added
    <3>2. CASE x \in expirations
      BY <1>2, <2>2, <3>2 DEF EntriesAreCurrent
    <3>3. CASE x = [type |-> t, key |-> k, origin |-> o, setting |-> s]
      BY <1>1, <2>3, <3>3
    <3> QED
      BY <3>1, <3>2, <3>3
  <2> QED
    BY <2>4 DEF EntriesAreCurrent
<1> QED
  BY <1>4, <1>5, DecisionCases

\* A change by the user takes the entries of what it changes with it.
LEMMA ChangeCurrent ==
  ASSUME TypeOK, MirrorInv, EntriesAreCurrent,
         NEW t \in Types, NEW os, NEW s \in Settings, ChangeSetting(t, os, s)
  PROVE  EntriesAreCurrent'
<1>1. alive
  BY DEF ChangeSetting
<1>2. prefs = expirations /\ expirations \in SUBSET Entries
  BY <1>1 DEF MirrorInv, PrefsMirror, TypeOK
<1>3. prefs' = expirations \ Stale(expirations, t, os, s)
  BY <1>1, StoreEffect DEF ChangeSetting
<1>4. ASSUME NEW x \in prefs'
      PROVE  /\ x.setting # "default"
             /\ settings'[x.type][x.origin] = x.setting
             /\ ends'[x.type][x.origin] = x.key
  <2>1. /\ x \in prefs
        /\ ~(x.type = t /\ x.origin \in os /\ x.setting # s)
    BY <1>2, <1>3, <1>4 DEF Stale
  <2>2. x.type \in Types /\ x.origin \in Origins
    BY <1>2, <2>1 DEF Entries
  <2>3. /\ x.setting # "default"
        /\ settings[x.type][x.origin] = x.setting
        /\ ends[x.type][x.origin] = x.key
    BY <2>1 DEF EntriesAreCurrent
  <2>4. settings'[x.type][x.origin] = x.setting
    BY <2>1, <2>2, <2>3 DEF ChangeSetting, StoreSetting, TypeOK
  <2>5. ends'[x.type][x.origin] = x.key
    BY <2>1, <2>2, <2>3 DEF ChangeSetting, TypeOK
  <2> QED
    BY <2>3, <2>4, <2>5
<1> QED
  BY <1>4 DEF EntriesAreCurrent

\* No step makes an entry outlive the setting it is for.
LEMMA CurrentStep ==
  ASSUME LifetimeInv, EntriesAreCurrent, Redecide = FALSE, [Next]_vars
  PROVE  EntriesAreCurrent'
<1> USE DEF LifetimeInv
<1>1. ASSUME NEW t \in Types, NEW o \in Origins, NEW s \in Settings,
             NEW l \in Lifetimes \cup {Forever}, PermissionDecided(t, o, s, l)
      PROVE  EntriesAreCurrent'
  BY <1>1, DecisionCurrent
<1>2. ASSUME NEW t \in Types, NEW os, NEW s \in Settings,
             ChangeSetting(t, os, s)
      PROVE  EntriesAreCurrent'
  BY <1>2, ChangeCurrent
<1>3. CASE OnExpirationTimer
  <2>1. /\ prefs' = prefs \ ExpiredBy(expirations, scheduled)
        /\ ResetPermissions(ExpiredBy(expirations, scheduled))
        /\ ExpiredBy(expirations, scheduled) \in SUBSET prefs
    BY <1>3, TimerEffect DEF OnExpirationTimer, MirrorInv, PrefsMirror, ExpiredBy
  <2> QED
    BY <2>1, ResetCurrent
<1>4. ASSUME NEW d \in Domains, CleanupTLDEphemeralArea(d)
      PROVE  EntriesAreCurrent'
  <2>1. CASE d \in subscriptions
    <3>1. alive
      BY <1>4 DEF CleanupTLDEphemeralArea, ClosedSites
    <3>2. /\ prefs' = prefs \ ExpiredWith(expirations, d)
          /\ ResetPermissions(ExpiredWith(expirations, d))
          /\ ExpiredWith(expirations, d) \in SUBSET prefs
      BY <1>4, <2>1, <3>1, CleanupEffect DEF MirrorInv, PrefsMirror, ExpiredWith
    <3> QED
      BY <3>2, ResetCurrent
  <2>2. CASE d \notin subscriptions
    BY <1>4, <2>2 DEF CleanupTLDEphemeralArea, EntriesAreCurrent
  <2> QED
    BY <2>1, <2>2
<1>5. ASSUME NEW d \in Domains, OpenTab(d) \/ CloseTab(d)
      PROVE  EntriesAreCurrent'
  BY <1>5 DEF OpenTab, CloseTab, EntriesAreCurrent
<1>6. CASE Tick
  BY <1>6 DEF Tick, EntriesAreCurrent
<1>7. CASE Shutdown
  BY <1>7 DEF Shutdown, EntriesAreCurrent
<1>8. CASE Start
  <2>1. EndedAtStart(prefs) \in SUBSET prefs
    BY DEF EndedAtStart, ExpiredBy
  <2> QED
    BY <1>8, <2>1, StartEffect, ResetCurrent
<1>9. CASE UNCHANGED vars
  BY <1>9 DEF vars, EntriesAreCurrent
<1>10. "default" \in Settings
  BY DEF Settings
<1> QED
  BY <1>1, <1>2, <1>3, <1>4, <1>5, <1>6, <1>7, <1>8, <1>9, <1>10 DEF Next

\* A setting that is reset had one of the entries that asked for it as its end.
LEMMA ResetDue ==
  ASSUME TypeOK, EntriesAreCurrent, NEW gone \in SUBSET prefs,
         ResetPermissions(gone), NEW t \in Types, NEW o \in Origins,
         settings'[t][o] # settings[t][o]
  PROVE  \E x \in gone : x.key = ends[t][o]
<1>1. PICK x \in gone : x.type = t /\ x.origin = o
  BY DEF ResetPermissions, TypeOK
<1> QED
  BY <1>1 DEF EntriesAreCurrent

\* What resets a setting, other than the user, is its end.
LEMMA OnlyDue ==
  ASSUME LifetimeInv, EntriesAreCurrent, Redecide = FALSE, Next,
         NEW t \in Types, NEW o \in Origins,
         settings[t][o] # "default", settings'[t][o] = "default"
  PROVE  UserChanges \/ EndHasCome(ends[t][o])
<1> USE DEF LifetimeInv
<1>1. ASSUME NEW t2 \in Types, NEW o2 \in Origins, NEW s \in Settings,
             NEW l \in Lifetimes \cup {Forever}, PermissionDecided(t2, o2, s, l)
      PROVE  FALSE
  <2>1. settings[t2][o2] = "default"
    BY <1>1 DEF PermissionDecided
  <2>2. \E r : settings' = [settings EXCEPT ![t2] =
                 [i \in Origins |-> IF i \in {o2} THEN r ELSE @[i]]]
    BY <1>1 DEF PermissionDecided, StoreSetting
  <2> QED
    BY <2>1, <2>2 DEF TypeOK
<1>2. CASE OnExpirationTimer
  <2>1. /\ ResetPermissions(ExpiredBy(expirations, scheduled))
        /\ ExpiredBy(expirations, scheduled) \in SUBSET prefs
    BY <1>2, TimerEffect DEF OnExpirationTimer, MirrorInv, PrefsMirror, ExpiredBy
  <2>2. PICK x \in ExpiredBy(expirations, scheduled) : x.key = ends[t][o]
    BY <2>1, ResetDue
  <2>3. x.key \in Nat /\ x.key <= scheduled
    BY <2>2 DEF ExpiredBy, IsTimeKey
  <2>4. scheduled \in Nat /\ now \in Nat /\ scheduled <= now
    BY <1>2 DEF OnExpirationTimer, TypeOK
  <2> QED
    BY <2>2, <2>3, <2>4 DEF EndHasCome
<1>3. ASSUME NEW d \in Domains, CleanupTLDEphemeralArea(d)
      PROVE  EndHasCome(ends[t][o])
  <2>1. alive /\ tabs[d] = 0
    BY <1>3 DEF CleanupTLDEphemeralArea, ClosedSites
  <2>2. d \in subscriptions
    BY <1>3 DEF CleanupTLDEphemeralArea
  <2>3. /\ ResetPermissions(ExpiredWith(expirations, d))
        /\ ExpiredWith(expirations, d) \in SUBSET prefs
    BY <1>3, <2>1, <2>2, CleanupEffect DEF MirrorInv, PrefsMirror, ExpiredWith
  <2>4. ends[t][o] = d
    BY <2>3, ResetDue DEF ExpiredWith
  <2> QED
    BY <2>1, <2>4 DEF EndHasCome
<1>4. ~ \E d \in Domains : OpenTab(d) \/ CloseTab(d)
  BY DEF OpenTab, CloseTab
<1>5. ~Tick /\ ~Shutdown
  BY DEF Tick, Shutdown
<1>6. CASE Start
  <2>1. EndedAtStart(prefs) \in SUBSET prefs
    BY DEF EndedAtStart, ExpiredBy
  <2>2. PICK x \in EndedAtStart(prefs) : x.key = ends[t][o]
    BY <1>6, <2>1, StartEffect, ResetDue
  <2>3. CASE IsTimeKey(x.key)
    BY <2>2, <2>3 DEF EndedAtStart, ExpiredBy, EndHasCome, IsTimeKey
  <2>4. CASE ~IsTimeKey(x.key)
    <3>1. x.key \in Domains
      BY <2>1, <2>4 DEF TypeOK, Entries, Keys, IsTimeKey
    <3> QED
      BY <1>6, <2>2, <3>1 DEF Start, ClosedSites, EndHasCome
  <2> QED
    BY <2>3, <2>4
<1> QED
  BY <1>1, <1>2, <1>3, <1>4, <1>5, <1>6 DEF Next, UserChanges

\* A page that shows one prompt at a time gets no setting that ends before the
\* end the user chose, for every timing of decisions, sites and sessions.
THEOREM NoEarlyEndWithOnePrompt ==
  ASSUME Redecide = FALSE
  PROVE  Spec => NoEarlyEnd
<1>1. LifetimeInv /\ EntriesAreCurrent /\ [Next]_vars
        => [\A t \in Types, o \in Origins :
              (settings[t][o] # "default" /\ settings'[t][o] = "default")
                => UserChanges \/ EndHasCome(ends[t][o])]_vars
  BY OnlyDue
<1>2. Init => EntriesAreCurrent
  BY DEF Init, EntriesAreCurrent
<1>3. LifetimeInv /\ EntriesAreCurrent /\ [Next]_vars => EntriesAreCurrent'
  BY CurrentStep
<1> QED
  BY <1>1, <1>2, <1>3, LifetimeInvariant, PTL DEF Spec, NoEarlyEnd

\* With one prompt at a time a setting without an end stays until the user
\* changes it: what breaks this elsewhere is the second answer alone.
THEOREM ForeverStaysWithOnePrompt ==
  ASSUME Redecide = FALSE
  PROVE  Spec => ForeverStays
<1>1. LifetimeInv /\ EntriesAreCurrent /\ [Next]_vars
        => [\A t \in Types, o \in Origins :
              (/\ settings[t][o] # "default" /\ ends[t][o] = Forever
               /\ settings'[t][o] = "default")
                => UserChanges]_vars
  <2>1. ~EndHasCome(Forever)
    BY LifetimeAssumption DEF EndHasCome
  <2> QED
    BY <2>1, OnlyDue
<1>2. Init => EntriesAreCurrent
  BY DEF Init, EntriesAreCurrent
<1>3. LifetimeInv /\ EntriesAreCurrent /\ [Next]_vars => EntriesAreCurrent'
  BY CurrentStep
<1> QED
  BY <1>1, <1>2, <1>3, LifetimeInvariant, PTL DEF Spec, ForeverStays
=============================================================================
