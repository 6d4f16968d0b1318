CONSTANTS
  c1 = c1
  c2 = c2
  NoConn = NoConn
  Conns <- TwoConns
  Configured <- SomeConfigured
  Offers <- SomeOffers
  MaxRequests <- OneOrTwo
SPECIFICATION FairSpec
INVARIANTS TypeOK NothingLostInTheBios NoForeignError
PROPERTIES HandshakeEndsIn13 AnsweredIfAwaited
CHECK_DEADLOCK FALSE
