------------------------- MODULE PermissionLifetime -------------------------
(***************************************************************************)
(* Permissions granted for a while: PermissionLifetimeManager with the     *)
(* container it keeps (PermissionExpirations), the monitor that tells it   *)
(* when a site is gone (PermissionOriginLifetimeMonitorImpl) and the part  *)
(* of EphemeralStorageService that decides when that is.                   *)
(*                                                                         *)
(* A decision of the user is stored twice: as a content setting, and as an *)
(* entry that says when to reset that setting.  The entries are kept in    *)
(* memory and in the preferences; a timer runs for the first of them.      *)
(* Everything runs on one sequence; one action is one task.                *)
(*                                                                         *)
(* A definition marked FAULT is not part of the model: it is a way its     *)
(* neighbour could be wrong, kept to show that a property would notice.    *)
(***************************************************************************)
EXTENDS Naturals, FiniteSets

CONSTANTS
  Types,      \* content types whose requests support a lifetime
  Origins,    \* pages that ask for them
  Domains,    \* ephemeral storage domains, as keys of entries
  NoDomain,   \* the empty storage domain
  DomainOf,   \* the storage domain of each origin
  Lifetimes,  \* what the prompt offers: 0 is "until I close this site"
  Forever,    \* no lifetime
  Redecide,   \* two tabs of a page may both show a prompt, answered in turn
  MaxTime,    \* bound: the clock
  MaxTabs     \* bound: tabs open on a domain

ASSUME LifetimeAssumption ==
  /\ Lifetimes \subseteq Nat
  /\ Domains \cap Nat = {}
  /\ NoDomain \notin Domains
  /\ Forever \notin Nat \cup Domains
  /\ DomainOf \in [Origins -> Domains \cup {NoDomain}]
  /\ Redecide \in BOOLEAN
  /\ MaxTime \in Nat /\ MaxTabs \in Nat \ {0}

Settings == {"default", "allow", "block"}

\* PermissionExpirationKey: a time, or a domain.  Times come first.
Keys == Nat \cup Domains

IsTimeKey(k) == k \in Nat

\* PermissionOrigins under its key.  The embedding origin follows the
\* requesting one here.  A list that holds an element twice is the same set:
\* whatever removes one removes the other.
Entries == [type: Types, key: Keys, origin: Origins, setting: Settings]

VARIABLES
  alive,          \* the profile is open and the manager exists
  now,            \* the wall clock
  settings,       \* HostContentSettingsMap, which is persistent
  expirations,    \* expirations_
  prefs,          \* kPermissionLifetimeExpirations
  scheduled,      \* current_scheduled_expiration_time_; 0 is null
  subscriptions,  \* active_subscriptions_ of the monitor
  tabs,           \* tabs open on each domain: references to its lifetime
  closing,        \* tld_ephemeral_areas_to_cleanup_: their timers run
  ends            \* history: the end the user chose with the setting

siteVars == <<tabs, closing>>
vars == <<alive, now, settings, expirations, prefs, scheduled, subscriptions,
          siteVars, ends>>

TypeOK ==
  /\ alive \in BOOLEAN
  /\ now \in Nat
  /\ settings \in [Types -> [Origins -> Settings]]
  /\ expirations \subseteq Entries
  /\ prefs \subseteq Entries
  /\ scheduled \in Nat
  /\ subscriptions \subseteq Domains
  /\ tabs \in [Domains -> Nat]
  /\ closing \subseteq Domains
  /\ ends \in [Types -> [Origins -> Keys \cup {Forever}]]

Init ==
  /\ alive = TRUE
  /\ now = 1
  /\ settings = [t \in Types |-> [o \in Origins |-> "default"]]
  /\ expirations = {}
  /\ prefs = {}
  /\ scheduled = 0
  /\ subscriptions = {}
  /\ tabs = [d \in Domains |-> 0]
  /\ closing = {}
  /\ ends = [t \in Types |-> [o \in Origins |-> Forever]]

-----------------------------------------------------------------------------
(* The container and its preferences *)

TypesOf(e) == {x.type : x \in e}

\* FAULT: nothing is written for a type that has no entries left.
UpdateListedTypes(p, e, types, keys) ==
  {x \in p : x.type \notin types \cap TypesOf(e) \/ <<x.type, x.key>> \notin keys}
    \cup {x \in e : x.type \in types /\ <<x.type, x.key>> \in keys}

\* The preferences p after the keys of some types were updated from the
\* container e.  A type without entries is taken out whole.
UpdateExpirationsPref(p, e, types, keys) ==
  {x \in p : \/ x.type \notin types
             \/ x.type \in TypesOf(e) /\ <<x.type, x.key>> \notin keys}
    \cup {x \in e : x.type \in types /\ <<x.type, x.key>> \in keys}

KeysOf(e) == {<<x.type, x.key>> : x \in e}

\* FAULT: a domain key is taken for a time.
FirstKey(e) ==
  IF e = {} THEN 0
  ELSE (CHOOSE x \in e :
          \A y \in e : IsTimeKey(y.key) => IsTimeKey(x.key) /\ x.key <= y.key).key

\* UpdateExpirationTimer: the time it ends up scheduled for.
NearestExpiration(e) ==
  LET times == {x.key : x \in e} \cap Nat
  IN  IF times = {} THEN 0 ELSE CHOOSE m \in times : \A n \in times : m <= n

-----------------------------------------------------------------------------
(* Changing a setting *)

\* FAULT: the entry goes although it is of the setting just stored.
StaleWhateverTheSetting(e, t, os, s) == {x \in e : x.type = t /\ x.origin \in os}

\* The entries of a decision that is no longer in force.
Stale(e, t, os, s) ==
  {x \in e : x.type = t /\ x.origin \in os /\ x.setting # s}

\* FAULT: the timer is left as it is.
StoreButKeepTimer(t, os, s, e, p, timer) ==
  LET stale == Stale(e, t, os, s)
  IN  /\ settings' = [settings EXCEPT ![t] =
                        [o \in Origins |-> IF o \in os THEN s ELSE @[o]]]
      /\ expirations' = e \ stale
      /\ prefs' = UpdateExpirationsPref(p, e \ stale, {t}, KeysOf(stale))
      /\ scheduled' = timer

\* The setting of some origins becomes s and the manager hears of it
\* (OnContentSettingChanged); e, p and timer are what the task has made of the
\* entries, the preferences and the timer so far.
StoreSetting(t, os, s, e, p, timer) ==
  LET stale == Stale(e, t, os, s)
  IN  /\ settings' = [settings EXCEPT ![t] =
                        [o \in Origins |-> IF o \in os THEN s ELSE @[o]]]
      /\ expirations' = e \ stale
      /\ \/ stale = {} /\ prefs' = p /\ scheduled' = timer
         \/ /\ stale # {}
            /\ prefs' = UpdateExpirationsPref(p, e \ stale, {t}, KeysOf(stale))
            /\ scheduled' = NearestExpiration(e \ stale)

\* The user answers a prompt: PermissionDecided, then the setting is stored.
\* The origin is that of the frame that asks, whose site may have no tab.
\* An origin without a storage domain is reset by a task posted at once, which
\* nothing else comes before.
PermissionDecided(t, o, s, l) ==
  LET d     == DomainOf[o]
      key   == IF l = 0 THEN d ELSE now + l
      entry == [type |-> t, key |-> key, origin |-> o, setting |-> s]
      e     == expirations \cup {entry}
      p     == UpdateExpirationsPref(prefs, e, {t}, {<<t, key>>})
  IN  /\ alive
      /\ s \in {"allow", "block"}
      /\ settings[t][o] = "default" \/ Redecide
      /\ \/ /\ l = Forever
            /\ StoreSetting(t, {o}, s, expirations, prefs, scheduled)
            /\ ends' = [ends EXCEPT ![t][o] = Forever]
            /\ UNCHANGED subscriptions
         \/ /\ l = 0 /\ d = NoDomain
            /\ StoreSetting(t, {o}, "default", expirations, prefs, scheduled)
            /\ ends' = [ends EXCEPT ![t][o] = Forever]
            /\ UNCHANGED subscriptions
         \/ /\ l = 0 /\ d # NoDomain
            /\ subscriptions' = subscriptions \cup {d}
            /\ StoreSetting(t, {o}, s, e, p, scheduled)
            /\ ends' = [ends EXCEPT ![t][o] = key]
         \/ /\ l \in Nat \ {0}
            /\ StoreSetting(t, {o}, s, e, p, NearestExpiration(e))
            /\ ends' = [ends EXCEPT ![t][o] = key]
            /\ UNCHANGED subscriptions
      /\ UNCHANGED <<alive, now, siteVars>>

\* The user changes the setting of one origin, or clears a whole type.
ChangeSetting(t, os, s) ==
  /\ alive
  /\ \E o \in os : settings[t][o] # s
  /\ StoreSetting(t, os, s, expirations, prefs, scheduled)
  /\ ends' = [ends EXCEPT ![t] =
                [o \in Origins |-> IF o \in os /\ settings[t][o] # s
                                     THEN Forever ELSE @[o]]]
  /\ UNCHANGED <<alive, now, subscriptions, siteVars>>

-----------------------------------------------------------------------------
(* Resetting what has come to its end *)

\* The manager does not listen while it resets, so other entries of the same
\* origin stay.
ResetPermissions(gone) ==
  LET ended(t, o) == \E x \in gone : x.type = t /\ x.origin = o
  IN  /\ settings' = [t \in Types |-> [o \in Origins |->
                        IF ended(t, o) THEN "default" ELSE settings[t][o]]]
      /\ ends' = [t \in Types |-> [o \in Origins |->
                        IF ended(t, o) THEN Forever ELSE ends[t][o]]]

\* RemoveExpiredPermissionsImpl, which goes through every type it has.
RemoveExpired(e, p, gone) ==
  /\ expirations' = e \ gone
  /\ prefs' = UpdateExpirationsPref(p, e \ gone, TypesOf(e), KeysOf(gone))
  /\ ResetPermissions(gone)

ExpiredBy(e, time) == {x \in e : IsTimeKey(x.key) /\ x.key <= time}

ExpiredWith(e, d) == {x \in e : x.key = d}

\* FAULT: the timer is not started again.
FireOnce ==
  /\ alive
  /\ scheduled # 0 /\ scheduled <= now
  /\ RemoveExpired(expirations, prefs, ExpiredBy(expirations, scheduled))
  /\ scheduled' = 0
  /\ UNCHANGED <<alive, now, subscriptions, siteVars>>

OnExpirationTimer ==
  /\ alive
  /\ scheduled # 0 /\ scheduled <= now
  /\ RemoveExpired(expirations, prefs, ExpiredBy(expirations, scheduled))
  /\ scheduled' = NearestExpiration(expirations')
  /\ UNCHANGED <<alive, now, subscriptions, siteVars>>

\* CleanupTLDEphemeralAreaByTimer, OnCleanupTLDEphemeralArea and
\* OnPermissionOriginDestroyed: the site has been closed for a while.
CleanupTLDEphemeralArea(d) ==
  /\ d \in closing
  /\ closing' = closing \ {d}
  /\ subscriptions' = subscriptions \ {d}
  /\ \/ /\ d \in subscriptions
        /\ RemoveExpired(expirations, prefs, ExpiredWith(expirations, d))
     \/ /\ d \notin subscriptions
        /\ UNCHANGED <<settings, expirations, prefs, ends>>
  /\ UNCHANGED <<alive, now, scheduled, tabs>>

-----------------------------------------------------------------------------
(* Tabs, the clock, the session *)

\* FAULT: the clean-up of a site that is back is not cancelled.
OpenTabOnly(d) ==
  /\ alive
  /\ tabs[d] < MaxTabs
  /\ tabs' = [tabs EXCEPT ![d] = @ + 1]
  /\ UNCHANGED <<alive, now, settings, expirations, prefs, scheduled,
                 subscriptions, closing, ends>>

\* TLDEphemeralLifetime::GetOrCreate, and TLDEphemeralLifetimeCreated for the
\* first tab.
OpenTab(d) ==
  /\ alive
  /\ tabs[d] < MaxTabs
  /\ tabs' = [tabs EXCEPT ![d] = @ + 1]
  /\ closing' = closing \ {d}
  /\ UNCHANGED <<alive, now, settings, expirations, prefs, scheduled,
                 subscriptions, ends>>

\* The tab is closed or leaves the site: TLDEphemeralLifetimeDestroyed for the
\* last one.
CloseTab(d) ==
  /\ alive
  /\ tabs[d] > 0
  /\ tabs' = [tabs EXCEPT ![d] = @ - 1]
  /\ closing' = IF tabs[d] = 1 THEN closing \cup {d} ELSE closing
  /\ UNCHANGED <<alive, now, settings, expirations, prefs, scheduled,
                 subscriptions, ends>>

Tick ==
  /\ now < MaxTime
  /\ now' = now + 1
  /\ UNCHANGED <<alive, settings, expirations, prefs, scheduled, subscriptions,
                 siteVars, ends>>

\* The profile is closed, or the browser dies.  The content settings and the
\* entries are preferences of one file.
Shutdown ==
  /\ alive
  /\ alive' = FALSE
  /\ expirations' = {}
  /\ scheduled' = 0
  /\ subscriptions' = {}
  /\ tabs' = [d \in Domains |-> 0]
  /\ closing' = {}
  /\ UNCHANGED <<now, settings, prefs, ends>>

\* FAULT: only the entries that are past their time go.
PastAtStart(e) == ExpiredBy(e, now)

\* What the constructor resets: what is past its time, and the permissions of
\* sites that cannot be open yet.
EndedAtStart(e) == ExpiredBy(e, now) \cup {x \in e : ~IsTimeKey(x.key)}

\* The constructors: ReadExpirationsFromPrefs, then two rounds of removal.
Start ==
  /\ ~alive
  /\ alive' = TRUE
  /\ RemoveExpired(prefs, prefs, EndedAtStart(prefs))
  /\ scheduled' = NearestExpiration(expirations')
  /\ UNCHANGED <<now, subscriptions, siteVars>>

Next ==
  \/ \E t \in Types :
       \/ \E o \in Origins :
            \/ \E s \in Settings, l \in Lifetimes \cup {Forever} :
                 PermissionDecided(t, o, s, l)
            \/ \E s \in Settings : ChangeSetting(t, {o}, s)
       \/ ChangeSetting(t, Origins, "default")
  \/ OnExpirationTimer
  \/ \E d \in Domains : CleanupTLDEphemeralArea(d) \/ OpenTab(d) \/ CloseTab(d)
  \/ Tick
  \/ Shutdown
  \/ Start

Spec == Init /\ [][Next]_vars

\* Timers fire, and the user starts the browser again.
Fairness ==
  /\ WF_vars(OnExpirationTimer)
  /\ \A d \in Domains : WF_vars(CleanupTLDEphemeralArea(d))
  /\ WF_vars(Start)

FairSpec == Spec /\ Fairness

-----------------------------------------------------------------------------
(* Safety *)

\* While the manager runs, the preferences say what the container says, so
\* that a crash at any moment loses no end of a permission and revives none
\* (UpdateExpirationsPref).
PrefsMirror == alive => prefs = expirations

\* The timer runs for the first entry that has a time, and only then; this is
\* what the DCHECK of UpdateExpirationTimer rests on.
TimerIsNearest == alive => scheduled = NearestExpiration(expirations)

\* As long as a setting the user gave an end is in force, open or closed, there
\* is an entry that will end it.
EndIsRecorded ==
  \A t \in Types, o \in Origins :
    ends[t][o] # Forever =>
      /\ settings[t][o] # "default"
      /\ [type |-> t, key |-> ends[t][o], origin |-> o,
          setting |-> settings[t][o]] \in prefs

\* The monitor will report the end of every site an entry waits for.
SiteIsWatched ==
  alive => \A x \in expirations : ~IsTimeKey(x.key) => x.key \in subscriptions

\* The end the user chose has come.
EndHasCome(k) ==
  \/ k \in Nat /\ k <= now
  \/ k \in Domains /\ tabs[k] = 0

UserChanges ==
  \E t \in Types : \/ \E o \in Origins, s \in Settings : ChangeSetting(t, {o}, s)
                   \/ ChangeSetting(t, Origins, "default")

\* A setting is reset when the end the user chose has come, and not before
\* (ResetPermission).  The sites of a closed profile are closed.
NoEarlyEnd ==
  [][\A t \in Types, o \in Origins :
       (settings[t][o] # "default" /\ settings'[t][o] = "default")
         => UserChanges \/ EndHasCome(ends[t][o])]_vars

\* What the user chose to allow or block "forever" (permissions_strings.grdp:16)
\* stays until the user changes it.
ForeverStays ==
  [][\A t \in Types, o \in Origins :
       (/\ settings[t][o] # "default" /\ ends[t][o] = Forever
        /\ settings'[t][o] = "default")
         => UserChanges]_vars

-----------------------------------------------------------------------------
(* Liveness *)

TimeIsUp(t, o) == ends[t][o] \in Nat /\ ends[t][o] <= now

ClosesWith(t, o, d) == ends[t][o] = d /\ d \in closing

\* However often the browser is closed, a permission is reset once its time is
\* up, and once its site has been closed, unless the user decides again or
\* comes back to the site (OnExpirationTimer, CleanupTLDEphemeralArea, the
\* constructor).
GrantEnds ==
  \A t \in Types, o \in Origins :
    /\ TimeIsUp(t, o) ~> ~TimeIsUp(t, o)
    /\ \A d \in Domains \cap {DomainOf[o]} :
         ClosesWith(t, o, d) ~> (ends[t][o] # d \/ tabs[d] > 0)
=============================================================================
