SPECIFICATION Spec
CONSTANTS
  KB_NUM = 2
  TTY_IN_BYTES_NUM = 2
  TTY_NUM = 2
  Char <- OneChar
  FKey <- MCFKey
INVARIANT EchoOnItsOwnTty
PROPERTIES KbBufIsQueue KeysAreRead
