SPECIFICATION PipelineSpec
CONSTANTS
  Watermark = 2
  Length = 3
  MaxBinds = 2
  StartLimit = 2

PROPERTY NodeFailureRestarts
