SPECIFICATION Spec
CONSTANTS
  Threads = {t1, t2}
  Fields = {x, y}
  Values = {0, 1}
INVARIANT CleanFieldsCommitted
