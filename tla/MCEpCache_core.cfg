SPECIFICATION Spec
CONSTANTS
  t1 = t1
  t2 = t2
  t3 = t3
  c1 = c1
  c2 = c2
  c3 = c3
  c4 = c4
  shallow = shallow
  deep = deep
  person = person
  order = order
  Null = Null
  Thread = {t1, t2}
  CacheId = {c1, c2, c3}
  Name = {order}
  Schema = {shallow, deep}
  Raising = {shallow}
  Defines <- MCDefines
  Nest <- MCNest
  MaxNest <- MCMaxNest
  Width <- MCWidth
  LockN = 2
  StackInit = 1
  Calls = {"encode", "decode", "load", "purge", "set_opts"}
  OptList <- MCBadOptList
  MaxUpgrades = 0
INVARIANTS
  TypeOK
  InFlightCacheValid
  CacheOwnership
  Presized
PROPERTIES
  ImplementsService
SYMMETRY Symmetry
