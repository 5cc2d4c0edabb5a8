SPECIFICATION TopSpec
CONSTANTS
  Parameters <- Trees
  Lines = {l1, l2, l3}
  l1 = l1
  l2 = l2
  l3 = l3
  MaxId = 2
  MaxPorts = 3
  Strangers = 1
  MaxReplugs = 2
INVARIANTS Addressed AnswersComeHome
SYMMETRY Permuted
CHECK_DEADLOCK FALSE
