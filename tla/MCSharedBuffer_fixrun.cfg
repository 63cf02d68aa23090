CONSTANTS
  Nil = Nil
  Session = {s1, s2}
  Tensor = {t1, t2}
  Input = t1
  Addr = {a1, a2, a3}
  Sizes = {1, 2}
  NoFit = 0
  MayFail = FALSE
  RunAfterFix = TRUE
SPECIFICATION Spec
INVARIANTS AccessValid
SYMMETRY Symmetry
