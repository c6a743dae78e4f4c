SPECIFICATION FairSpec
CONSTANTS
  Requests = {i1, i2}
  i1 = i1
  i2 = i2
  Hosts = {h1, h2}
  h1 = h1
  h2 = h2
  NoAnswer = NoAnswer
  NoRequest = NoRequest
  MethodOf <- MCMethodOf
  BodyOf <- MCBodyOf
INVARIANTS
  TypeOK
  HostTold
  OnlyHostsGrant
PROPERTIES
  ImplementsAnsweredOnce
  RowsSettle
  RequestsAnswered
