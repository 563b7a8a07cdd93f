\* Methods are called between iterations and from handlers.
SPECIFICATION Spec
CONSTANTS
    BufUnits = 4
    RealUnits = 2
    MaxEvents = 4
    QueueLen = 3
  
PROPERTIES  QueueDrained
CHECK_DEADLOCK FALSE
