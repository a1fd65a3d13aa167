SPECIFICATION Spec
CONSTANTS
  o1 = o1
  o2 = o2
  d1 = d1
  Types = {geolocation}
  Origins = {o1, o2}
  Domains = {d1}
  NoDomain = NoDomain
  DomainOf <- MCDomainOf
  Lifetimes = {1}
  Forever = Forever
  Redecide = TRUE
  MaxTime = 3
  MaxTabs = 1
PROPERTY ForeverStays
