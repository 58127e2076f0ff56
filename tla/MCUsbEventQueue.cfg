\* The default build, with HID.  The queue is longer than all events but audio need.
\* A panic stops it.
CONSTANTS
  USB_QUEUE_LENGTH = 8
  HID_ENABLE = TRUE
  MaxResets = 1
SPECIFICATION Spec
INVARIANT TypeOK
INVARIANT OthersAreBounded
INVARIANT ChainUnbroken
CHECK_DEADLOCK FALSE
