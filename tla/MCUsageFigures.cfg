CONSTANTS
  MaxFigure = 2
SPECIFICATION Spec
INVARIANTS
  TypeOK
  FiguresOwn
  ExactOnceExited
