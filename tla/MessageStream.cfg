CONSTANTS
  LongRunBits = 2
  Requests <- PassRequests
SPECIFICATION Spec
INVARIANTS
  RoundTrip
  StructuredIsRead
  AcceptedIsWellFormed
  TransmissionTellsMessage
