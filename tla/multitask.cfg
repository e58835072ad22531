SPECIFICATION Spec
CONSTANTS
  Ctxs = {c1, c2}
  Stacks = {s1, s2}
  FxAreas = {f1, f2}
  First = first_ctx
  FirstStack = stack_bottom
  FirstFx = first_fxdata
  Regs = {0, 1}
  Fpu = {0, 1}
SYMMETRY Symmetry
INVARIANTS BlocksOwned LinksInverse
PROPERTIES RegistersKept AreCoroutines
