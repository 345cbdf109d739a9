SPECIFICATION FairSpec
CONSTANTS
  Devices = {"kbd1", "kbd2", "hook"}
  Hook = "hook"
  KeysOf <- MCKeysOf
  ModifierKeys <- MCModifierKeys
  Ctrl = "ControlLeft"
  V = "V"
  NoKey = "none"
  MaxUnread = 1
  MaxEvents = 1
  MaxWire = 1
INVARIANTS
  TypeOK
  KeysAgree
  PasteLands
PROPERTY LossNoticed
