SPECIFICATION Spec
CONSTANTS
  n1 = n1
  n2 = n2
  s1 = s1
  t1 = t1
  u1 = u1
  u2 = u2
  yes = yes
  red = red
  MaxTime = 1
  Names <- TwoNames
  Sessions <- OneSession
  NoSession = NoSession
  Lifetimes = {1}
  Tokens <- OneToken
  TokenLife = 1
  Urls <- TwoUrls
  Texts <- OneText
  Targets <- OneTarget
  MaxChanges = 1
  MaxInputs = 2
  FirstState = FirstState
  Latest = Latest
  Unchecked = Unchecked
  NoToken = NoToken
INVARIANTS
  TokenAuthorizesOneInput
PROPERTIES
  ImplementsInputGuards
  FirstPresentationOnly
  LeaseRespected
SYMMETRY ClickSymmetry
