CONSTANTS
  MESSAGE_BUF_SIZE = 4
  Room = 3
  Messages <- MCMessages
  MaxMessages = 3
SPECIFICATION OutputSpec
INVARIANTS
  OutputTypeOK
PROPERTY
  StreamSpec
