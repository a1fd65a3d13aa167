SPECIFICATION FairSpec
CONSTANTS
  o1 = o1
  o2 = o2
  d1 = d1
  Types = {geolocation, ethereum}
  Origins = {o1, o2}
  Domains = {d1}
  NoDomain = NoDomain
  DomainOf <- MCDomainOf
  Lifetimes = {0, 1}
  Forever = Forever
  Redecide = FALSE
  MaxTime = 3
  MaxTabs = 1
INVARIANTS
  TypeOK
  PrefsMirror
  TimerIsNearest
  EndIsRecorded
  SiteIsWatched
PROPERTIES
  NoEarlyEnd
  GrantEnds
