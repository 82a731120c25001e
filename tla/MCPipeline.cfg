CONSTANTS
  d1 = d1
  d2 = d2
  d3 = d3
  f1 = f1
  f2 = f2
  f3 = f3
  f4 = f4
  lib1 = lib1
  lib2 = lib2
  libc = libc
  a1 = a1
  a2 = a2
  Dir = {d1, d2, d3}
  File = {f1, f2, f3, f4}
  Lib = {lib1, lib2, libc}
  Archive = {a1, a2}
  Empty = Empty
  NoFile = NoFile
  usr = usr
  Dep <- MCDep
  Word <- MCWord
  Longer <- MCLonger
  ArgsPerExec = 2
  Inputs <- MCInputs
SPECIFICATION Spec
INVARIANTS
  StatusIsRight
  AsksExactly
  ReportsAll
