CONSTANTS
  Tree = {t1, t2}
  Memory = {m1, m2}
  File = {f1, f2, f3}
  Other = {f3}
  B <- MCB
  MaxRoot = 2
  None = None
  NoFile = NoFile
SPECIFICATION HSpec
SYMMETRY TreeSymmetry
CHECK_DEADLOCK FALSE
INVARIANTS TypeOK LinksAgree OwnsWhatItAllocated RootPersists
PROPERTY OnlyMisuseAborts
