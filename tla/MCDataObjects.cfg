CONSTANTS
  NameMax = 2
  MaxCalls = 3

SPECIFICATION Behaviour
CHECK_DEADLOCK FALSE


  
  

PROPERTY
  IsStore
