\* Three keys, and a heap of three levels with and without a right child
SPECIFICATION Spec
CONSTANTS
  Elems = {0, 1, 2}
  Key <- Keys
  Zero = 0
  Caps = {0, 4}
  MaxTop = 6
INVARIANT HeapOrdered
PROPERTY ImplementsBag
CHECK_DEADLOCK FALSE
