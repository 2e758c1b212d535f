SPECIFICATION Spec
CONSTANTS
  Clients = {c1, c2}
  Users = {u1}
  Codes = {k1, k2}
  Slots = {r1, r2}
  CodeTTL = 0
  ChainTTL = 1
  MaxRequests = 4
  MaxTime = 2
SYMMETRY TokenSymmetry
INVARIANTS
  TokensTypeOK
  OneUsablePerChain
  ReplayIsNoticed
  EndedChainStaysEnded
  CodeYieldsOneChain
PROPERTIES
  OnlyOwnerMovesChain
  RevokedChainsDoNotGrow
