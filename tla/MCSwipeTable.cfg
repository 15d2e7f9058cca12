\* A screen of two rows with two cells, which every row that comes takes from one that goes;
\* an item more than there are rows, and a finger for each cell.
SPECIFICATION FairSpec
CONSTANTS
  Cells = {c1, c2}
  Items = {x1, x2, x3}
  Height = 2
  Fingers = 2
  MaxPending = 1
INVARIANTS RowsShowItems NeverStuckOpen
PROPERTIES DeletesTheSwipedItem EveryRowComesToRest ImplementsSwipeToDelete DragsEndByHand
