SPECIFICATION FairSpec
CONSTANTS
  z = z
  m4 = m4
  m5 = m5
  p = p
  q = q
  Byte = {z, m4, m5, p, q}
  Zero = z
  Depth = 2
  Scripts <- StartupFirst
INVARIANTS
  TypeOK
  FeatureIntact
  PageIntact
PROPERTIES
  CommandsEnd
