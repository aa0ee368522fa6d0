SPECIFICATION Spec
CONSTANTS
  Methods <- MCMethods
  CONNECT <- MCCONNECT
  HTTP <- MCHTTP
  CONNECTION <- MCCONNECTION
  PROXY_CONNECTION <- MCPROXY_CONNECTION
  CONTENT_LENGTH <- MCCONTENT_LENGTH
  TRANSFER_ENCODING <- MCTRANSFER_ENCODING
  UPGRADE <- MCUPGRADE
  CHUNKED <- MCCHUNKED
  KEEP_ALIVE <- MCKEEP_ALIVE
  CLOSE <- MCCLOSE
  ULLONG_MAX = 63
  HTTP_MAX_HEADER_SIZE = 40
  Streams <- AllStreams
CHECK_DEADLOCK FALSE
INVARIANTS
  AssertionsHold
  CutsDoNotMatter
  LengthIsKept
  PlainRequestsArrive
