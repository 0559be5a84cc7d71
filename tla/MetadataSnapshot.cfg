SPECIFICATION SpecSnapshot
CONSTANTS
  Servers = {s1, s2}
  NodeIDs = {n1}
  PartitionIDs = {p0}
  upper = upper
  lower = lower
  Names <- TwoSpellings
  Lower <- ToLower
  Values = {nil, new}
  NilConfig = nil
  NewConfig = new
  NoRow = NoRow
  MaxLog = 3
INVARIANT RowsAgree
