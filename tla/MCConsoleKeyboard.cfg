CONSTANTS
  Shift = Shift
  E = E
  Dead = Dead
  Dead2 = Dead2
  Ime = Ime
  VK_PROCESSKEY = VK_PROCESSKEY
  VK_PACKET = VK_PACKET
  NoKey = NoKey
  Keys <- KbdKeys
  Layouts <- KbdLayouts
SPECIFICATION Spec
INVARIANT SwallowingStateHeld
