SPECIFICATION Spec
CONSTANTS
  MaxDate = 3
  MaxAdds = 2
PROPERTY
  OnlyRemindsIfEnabled
CHECK_DEADLOCK FALSE
