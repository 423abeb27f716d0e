CONSTANTS
  MaxEvents = 3
  MaxKeys = 2
  MaxReports = 2
SPECIFICATION Spec
 
PROPERTY Drained
