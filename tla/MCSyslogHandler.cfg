\* Two handlers live beside each other, and either address is used again.
CONSTANTS
  Handlers = {h1, h2}
  Idents = {a, b}
  NoIdent = NoIdent
  Facilities = {user, local0}
  RingSize = 2
SPECIFICATION SyslogSpec
INVARIANTS
  TagNeverDangles
PROPERTIES
  SoleIdentity
