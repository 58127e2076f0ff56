\* The default build, with HID.
CONSTANTS
  USB_QUEUE_LENGTH = 6
  HID_ENABLE = TRUE
  MaxResets = 0
SPECIFICATION Spec
INVARIANT NeverPanics
CHECK_DEADLOCK FALSE
