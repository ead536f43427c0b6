SPECIFICATION Spec
CONSTANTS
  CONSOLES = 2
  CON_W = 2
  CON_H = 2
  ROWS = 3
  FIRST_ROW = 1
  VM = 10
  Banner <- MCBanner
INVARIANTS DisplayShowsCurrent
