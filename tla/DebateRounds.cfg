CONSTANTS
  Requests = {r1, r2}
  Debates = {d1}
  Texts = {t1, t2}
  None = None
  MaxRounds = 2
  Stalls = TRUE
SPECIFICATION Spec
SYMMETRY Symmetry
INVARIANTS
  TypeOK
  InReviewIsLast
  TextChain
PROPERTIES
  TerminalFrozen
  DescriptionGuarded
  ImplementsDoc
