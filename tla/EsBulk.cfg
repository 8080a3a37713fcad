CONSTANTS
  Docs = {1, 2, 3}
  Sizes = {0, 2, 5}
  MaxBulkBytes = 4
  MaxRetries = 2
  Word = 16
  Transports = {"OK", "OPERATION_TIMEDOUT", "SSL_CONNECT_ERROR"}
  HttpStatus = {200, 400, 503}
  ItemStatus = {201, 204, 400, 429}
SPECIFICATION FairSpec
INVARIANTS
  TypeOK
  SentAtMost
  RequestWithinLimit
  TrueMeansDelivered
PROPERTIES
  NeverResent
  ImplementsDelivery
CHECK_DEADLOCK FALSE
