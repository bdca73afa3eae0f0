SPECIFICATION LiveSpec
CONSTANTS
  K = 1
PROPERTIES
  ResultIsReturned
