SPECIFICATION FairSpec
CONSTANTS
  Setters = {request, response}
  First = connection
PROPERTY TimesOut
CHECK_DEADLOCK FALSE
