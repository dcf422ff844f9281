SPECIFICATION Spec
CONSTANTS
  s1 = s1  s2 = s2  u1 = u1  u2 = u2
  Sessions = {s1, s2}
  Urbs = {u1, u2}
  Submitter <- EachTheirs
  NoUrb = NoUrb
  NumSlots = 2
INVARIANT RepliesToOwner
