CONSTANTS
  BUF = 2
  Lengths = {1, 3, 4}
  MaxMessages = 3
SPECIFICATION Spec
PROPERTIES
  EachMessageAnswered
