\* Two threads with a connection each; ids that differ by less than 4 times the
\* number of connections never share one.  Two statements, so that a
\* transaction can be torn.
CONSTANTS
  Threads = {4, 8}
  Connections = 2
  MaxStatements = 2
SPECIFICATION AdoSpec
INVARIANTS
  AllOrNothing
PROPERTIES
  ConnectionComesBack
