SPECIFICATION Spec
CONSTANTS
  Irq <- MCIrq
  CLOCK_IRQ = "clock"
  KEYBOARD_IRQ = "keyboard"
  Slot <- MCSlot
  FirstSlot = 0
  Junk <- MCJunk
  NoIrq <- RestartWindow
INVARIANTS NestingCounted CallerStays ResumesOwnContext
PROPERTIES InterruptsServed
