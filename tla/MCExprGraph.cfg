\* Four graphs of up to five expressions, two shapes and two contents
CONSTANTS
  x = x  w = w  a = a  b = b  y = y
  s1 = s1  s2 = s2  c1 = c1  c2 = c2
  Nil = Nil
  Exprs = {x, w, a, b, y}
  Shapes = {s1, s2}
  Contents = {c1, c2}
  Graphs <- MCGraphs
SYMMETRY MCSymmetry
SPECIFICATION Spec
INVARIANTS
  TypeOK
  ReadsFresh
  InfoFresh
  ReadsAnswer
