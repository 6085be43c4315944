CONSTANTS
  StreamCount = 4
  initial_window_size = 2
  initial_connection_window_size = 3
  max_concurrent_streams = 2
  FrameLimit = 2
  RequestSizes = {0, 3}
  BatchSizes = {0, 1}
  ResponseSizes = {0, 3}
  ChunkSize = 1
  MaxServed = 2
  MaxEvents = 5
SPECIFICATION Http2Spec
INVARIANTS Http2CreditExact Http2FaultsExplained StreamSlotsReturned
CHECK_DEADLOCK FALSE
PROPERTY BlockedUploadResumes
