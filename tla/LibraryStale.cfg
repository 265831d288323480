SPECIFICATION Spec
CONSTANTS
  c1 = c1
  g1 = g1
  g2 = g2
  p1 = p1
  p2 = p2
  r1 = r1
  r2 = r2
  q1 = q1
  q2 = q2
  h1 = h1
  h2 = h2
  m1 = m1
  m2 = m2
  Main = Main
  None = None
  Dead = Dead
  Absent = Absent
  Builder = Builder
  Local = Local
  Coro <- MCCoro
  Gen <- MCGen
  Proc <- MCProc
  Results <- MCResults
  Requests <- MCRequests
  Others <- MCOthers
  Handle <- MCHandle
  Token <- MCToken
  Keys <- MCKeys
  Values <- MCValues
  LineEnds <- MCLineEnds
  MaxValues = 3
  MaxFields = 2
INVARIANT
  ProcessorContext
