SPECIFICATION Spec
CONSTANTS
  t1 = t1
  t2 = t2
  t3 = t3
  c1 = c1
  c2 = c2
  c3 = c3
  c4 = c4
  shallow = shallow
  deep = deep
  person = person
  order = order
  Null = Null
  Thread = {t1, t2}
  CacheId = {c1, c2, c3}
  Name = {person, order}
  Schema = {shallow}
  Raising = {}
  Defines <- MCOneDefines
  Nest <- MCOneNest
  MaxNest <- MCOneNest
  Width <- MCOneWidth
  LockN = 2
  StackInit = 1
  Calls = {"load", "encode", "set_opts"}
  OptList <- MCOptList
  MaxUpgrades = 0
INVARIANTS
  OneSettingPerCall
SYMMETRY Symmetry
