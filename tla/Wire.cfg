CONSTANTS
  a = a b = b c = c HELLO = HELLO WELCOME = WELCOME
  Messages = {a, b, c}
  Sender <- Senders
  Size <- Sizes
  LimitChoices <- Choices
  Lanes = 2
  Faults = 2
SPECIFICATION Spec
INVARIANTS Whole Bounded NeverRefused
CHECK_DEADLOCK FALSE
