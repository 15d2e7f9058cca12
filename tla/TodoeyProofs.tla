---------------------------- MODULE TodoeyProofs ----------------------------
(***************************************************************************)
(* Proofs about Todoey, for every bound on the objects and every choice of  *)
(* names and search texts: the tables always show what the live Results     *)
(* would give, so that no handler indexes out of range and UIKit's row      *)
(* count check never fails.                                                 *)
(*                                                                          *)
(* The inductive invariant adds three bookkeeping facts to the properties:  *)
(* new keys are fresh (an old key would carry old list entries), an "add    *)
(* item" alert is only up while a category is open, and a search text only  *)
(* exists there.                                                            *)
(***************************************************************************)
EXTENDS Todoey, FiniteSetTheorems, FunctionTheorems, TLAPS

(***************************************************************************)
(* The rows of a Results: each object of the set has a row of its own, each *)
(* row an object, and deleting the object of row r removes exactly that row.*)
(* The last is what makes it right that the swipe's delete action neither   *)
(* reloads the table nor looks the row up again.                            *)
(***************************************************************************)

(* The objects listed before x are fewer than all objects.                  *)
LEMMA RankRange ==
  ASSUME NEW S \in SUBSET Nat, IsFiniteSet(S), NEW key, \A z \in S : key[z] \in Int, NEW x \in S
  PROVE  /\ IsFiniteSet({y \in S : Precedes(key, y, x)})
         /\ Cardinality(S) \in Nat
         /\ Rank(key, S, x) \in 0 .. Cardinality(S) - 1
         /\ Rank(key, S, x) \in Int
<1> DEFINE Q == {y \in S : Precedes(key, y, x)}
<1>1. ~ Precedes(key, x, x)
  BY DEF Precedes
<1>2. Q \in SUBSET (S \ {x})
  BY <1>1
<1>3. /\ IsFiniteSet(S \ {x})
      /\ Cardinality(S \ {x}) = Cardinality(S) - 1
  BY FS_RemoveElement
<1>4. IsFiniteSet(Q) /\ Cardinality(Q) <= Cardinality(S) - 1
  BY <1>2, <1>3, FS_Subset
<1>5. Cardinality(S) \in Nat /\ Cardinality(Q) \in Nat
  BY <1>4, FS_CardinalityType
<1> QED
  BY <1>4, <1>5 DEF Rank

(* An object listed before another one has a smaller row number.            *)
LEMMA RankStrict ==
  ASSUME NEW S \in SUBSET Nat, IsFiniteSet(S), NEW key, \A z \in S : key[z] \in Int,
         NEW x \in S, NEW y \in S, Precedes(key, x, y)
  PROVE  Rank(key, S, x) < Rank(key, S, y)
<1> DEFINE P == {z \in S : Precedes(key, z, x)}
           Q == {z \in S : Precedes(key, z, y)}
<1>1. x \in Q /\ x \notin P
  BY DEF Precedes
<1>2. P \in SUBSET (Q \ {x})
  <2> SUFFICES ASSUME NEW z \in P PROVE z \in Q \ {x}
    OBVIOUS
  <2>1. z \in Nat /\ x \in Nat /\ y \in Nat
    OBVIOUS
  <2>2. key[z] \in Int /\ key[x] \in Int /\ key[y] \in Int
    OBVIOUS
  <2> QED
    BY <1>1, <2>1, <2>2 DEF Precedes
<1>3. IsFiniteSet(P) /\ IsFiniteSet(Q)
  BY RankRange
<1>4. IsFiniteSet(Q \ {x}) /\ Cardinality(Q \ {x}) = Cardinality(Q) - 1
  BY <1>1, <1>3, FS_RemoveElement
<1>5. Cardinality(P) <= Cardinality(Q) - 1
  BY <1>2, <1>4, FS_Subset
<1>6. Cardinality(P) \in Nat /\ Cardinality(Q) \in Nat
  BY <1>3, FS_CardinalityType
<1> QED
  BY <1>5, <1>6 DEF Rank

(* Two objects never share a row: key and ObjKey order objects totally.     *)
LEMMA RankInjective ==
  ASSUME NEW S \in SUBSET Nat, IsFiniteSet(S), NEW key, \A z \in S : key[z] \in Int,
         NEW x \in S, NEW y \in S, Rank(key, S, x) = Rank(key, S, y)
  PROVE  x = y
<1>1. x \in Nat /\ y \in Nat /\ key[x] \in Int /\ key[y] \in Int
  OBVIOUS
<1>2. x = y \/ Precedes(key, x, y) \/ Precedes(key, y, x)
  BY <1>1 DEF Precedes
<1>3. Rank(key, S, x) \in Int /\ Rank(key, S, y) \in Int
  BY RankRange
<1>4. CASE Precedes(key, x, y)
  BY <1>3, <1>4, RankStrict
<1>5. CASE Precedes(key, y, x)
  BY <1>3, <1>5, RankStrict
<1> QED
  BY <1>2, <1>4, <1>5

(* Every row number below the count is the rank of some object: the rank is *)
(* an injection between two sets of the same size.                          *)
LEMMA RankSurjective ==
  ASSUME NEW S \in SUBSET Nat, IsFiniteSet(S), NEW key, \A z \in S : key[z] \in Int,
         NEW r \in 0 .. Cardinality(S) - 1
  PROVE  \E x \in S : Rank(key, S, x) = r
<1> DEFINE n == Cardinality(S)
           f == [x \in S |-> Rank(key, S, x)]
<1>1. n \in Nat
  BY FS_CardinalityType
<1>2. f \in [S -> 0 .. n - 1]
  BY RankRange
<1>3. \A x, y \in S : f[x] = f[y] => x = y
  BY RankInjective
<1>4. f \in Injection(S, 0 .. n - 1)
  BY <1>2, <1>3, Fun_IsInj
<1>5. IsFiniteSet(0 .. n - 1) /\ Cardinality(0 .. n - 1) = n
  BY <1>1, FS_Interval
<1>6. f \in Surjection(S, 0 .. n - 1)
  BY <1>4, <1>5, FS_Injection
<1>7. PICK x \in S : f[x] = r
  BY <1>6 DEF Surjection
<1> QED
  BY <1>7

(* Row r of a Results is an object of its set, and its rank is r.           *)
LEMMA RowsMember ==
  ASSUME NEW S \in SUBSET Nat, IsFiniteSet(S), NEW key, \A z \in S : key[z] \in Int,
         NEW r \in 0 .. Cardinality(S) - 1
  PROVE  Rows(key, S)[r] \in S /\ Rank(key, S, Rows(key, S)[r]) = r
BY RankSurjective DEF Rows

(* A table with the cells of a Results has as many rows as it has objects.  *)
LEMMA CountRows ==
  ASSUME NEW S, IsFiniteSet(S), NEW key
  PROVE  /\ DOMAIN Rows(key, S) = 0 .. Cardinality(S) - 1
         /\ Rows(key, S) = [i \in 0 .. Cardinality(S) - 1 |-> Rows(key, S)[i]]
         /\ Cardinality(S) \in Nat
         /\ Count(Rows(key, S)) = Cardinality(S)
<1>1. Cardinality(S) \in Nat
  BY FS_CardinalityType
<1>2. DOMAIN Rows(key, S) = 0 .. Cardinality(S) - 1
  BY DEF Rows
<1>3. Cardinality(0 .. Cardinality(S) - 1) = Cardinality(S)
  BY <1>1, FS_Interval
<1>4. Rows(key, S) = [i \in 0 .. Cardinality(S) - 1 |-> Rows(key, S)[i]]
  BY DEF Rows
<1> QED
  BY <1>1, <1>2, <1>3, <1>4 DEF Count

(* Every object of the set is listed: it is the object of the row its rank  *)
(* names.                                                                   *)
LEMMA RowsOnto ==
  ASSUME NEW S \in SUBSET Nat, IsFiniteSet(S), NEW key, \A z \in S : key[z] \in Int
  PROVE  {Rows(key, S)[r] : r \in DOMAIN Rows(key, S)} = S
<1> DEFINE D == 0 .. Cardinality(S) - 1
<1>1. DOMAIN Rows(key, S) = D
  BY CountRows
<1>2. \A r \in D : Rows(key, S)[r] \in S
  BY RowsMember
<1>3. ASSUME NEW x \in S
      PROVE  Rank(key, S, x) \in D /\ Rows(key, S)[Rank(key, S, x)] = x
  <2>1. Rank(key, S, x) \in D
    BY RankRange
  <2>2. /\ Rows(key, S)[Rank(key, S, x)] \in S
        /\ Rank(key, S, Rows(key, S)[Rank(key, S, x)]) = Rank(key, S, x)
    BY <2>1, RowsMember
  <2> QED
    BY <2>1, <2>2, RankInjective
<1> QED
  BY <1>1, <1>2, <1>3

(* Once x is deleted, the objects after it are listed one row higher and    *)
(* the others where they were.                                              *)
LEMMA RankAfterDelete ==
  ASSUME NEW S \in SUBSET Nat, IsFiniteSet(S), NEW key, \A z \in S : key[z] \in Int,
         NEW x \in S, NEW y \in S \ {x}
  PROVE  Rank(key, S \ {x}, y) = IF Rank(key, S, y) > Rank(key, S, x)
                                 THEN Rank(key, S, y) - 1 ELSE Rank(key, S, y)
<1> DEFINE Q == {z \in S : Precedes(key, z, y)}
<1>1. {z \in S \ {x} : Precedes(key, z, y)} = Q \ {x}
  OBVIOUS
<1>2. IsFiniteSet(Q)
  BY RankRange
<1>3. Cardinality(Q \ {x}) = IF x \in Q THEN Cardinality(Q) - 1 ELSE Cardinality(Q)
  BY <1>2, FS_RemoveElement
<1>4. x \in Q <=> Precedes(key, x, y)
  OBVIOUS
<1>5. Precedes(key, x, y) <=> Rank(key, S, y) > Rank(key, S, x)
  <2>1. x \in Nat /\ y \in Nat /\ key[x] \in Int /\ key[y] \in Int
    OBVIOUS
  <2>2. Precedes(key, x, y) \/ Precedes(key, y, x)
    BY <2>1 DEF Precedes
  <2>3. Rank(key, S, x) \in Int /\ Rank(key, S, y) \in Int
    BY RankRange
  <2>4. Precedes(key, x, y) => Rank(key, S, x) < Rank(key, S, y)
    BY RankStrict
  <2>5. Precedes(key, y, x) => Rank(key, S, y) < Rank(key, S, x)
    BY RankStrict
  <2> QED
    BY <2>2, <2>3, <2>4, <2>5
<1> QED
  BY <1>1, <1>3, <1>4, <1>5 DEF Rank

(* Deleting the object of row r from the store changes the rows of a live   *)
(* Results exactly as UITableView.deleteRows(at: [r]) changes the cells.    *)
THEOREM DeleteShiftsRows ==
  ASSUME NEW S \in SUBSET Nat, IsFiniteSet(S), NEW key, \A z \in S : key[z] \in Int,
         NEW r \in 0 .. Cardinality(S) - 1
  PROVE  Rows(key, S \ {Rows(key, S)[r]}) = Without(Rows(key, S), r)
<1> DEFINE x == Rows(key, S)[r]
           T == S \ {x}
           n == Cardinality(S)
<1>1. x \in S /\ Rank(key, S, x) = r
  BY RowsMember
<1>2. IsFiniteSet(T) /\ Cardinality(T) = n - 1 /\ n \in Nat
  BY <1>1, FS_RemoveElement, FS_CardinalityType
<1>3. Count(Rows(key, S)) = n
  BY CountRows
<1>4. ASSUME NEW i \in 0 .. n - 2
      PROVE  Rows(key, T)[i] = IF i < r THEN Rows(key, S)[i] ELSE Rows(key, S)[i + 1]
  <2> DEFINE j == IF i < r THEN i ELSE i + 1
             y == Rows(key, S)[j]
  <2>1. j \in 0 .. n - 1 /\ j # r /\ r \in Int /\ i \in Int
    BY <1>2
  <2>2. y \in S /\ Rank(key, S, y) = j
    BY <2>1, RowsMember
  <2>3. y \in T
    BY <1>1, <2>1, <2>2
  <2>4. Rank(key, T, y) = i
    <3>1. Rank(key, T, y) = IF Rank(key, S, y) > Rank(key, S, x)
                            THEN Rank(key, S, y) - 1 ELSE Rank(key, S, y)
      BY <1>1, <2>3, RankAfterDelete
    <3>2. Rank(key, S, y) = j /\ Rank(key, S, x) = r
      BY <1>1, <2>2
    <3> QED
      BY <3>1, <3>2, <2>1
  <2>5. i \in 0 .. Cardinality(T) - 1
    BY <1>2
  <2>6. T \in SUBSET Nat /\ \A z \in T : key[z] \in Int
    OBVIOUS
  <2>7. Rows(key, T)[i] \in T /\ Rank(key, T, Rows(key, T)[i]) = i
    BY <1>2, <2>5, <2>6, RowsMember
  <2>8. Rows(key, T)[i] = y
    BY <1>2, <2>3, <2>4, <2>6, <2>7, RankInjective
  <2> QED
    BY <2>8
<1>5. Rows(key, T) = [i \in 0 .. n - 2 |-> Rows(key, T)[i]]
  <2>1. Cardinality(T) - 1 = n - 2
    BY <1>2
  <2> QED
    BY <2>1, CountRows, <1>2
<1>6. Without(Rows(key, S), r) =
        [i \in 0 .. n - 2 |-> IF i < r THEN Rows(key, S)[i] ELSE Rows(key, S)[i + 1]]
  BY <1>3 DEF Without
<1> QED
  BY <1>4, <1>5, <1>6

------------------------------------------------------------------------------

Bookkeeping == /\ \A k \in categories \cup items : k < nextKey
               /\ alert \in {"none", screen}
               /\ screen = "categories" => searchText = {}

IInv == TypeOK /\ NeverAborts /\ OneHome /\ Bookkeeping /\ TablesShowStore

(* Sets of keys are finite sets of naturals.                                *)
LEMMA KeySets == \A S \in SUBSET Keys : S \in SUBSET Nat /\ IsFiniteSet(S)
<1>1. IsFiniteSet(Keys)
  BY TodoeyAssumption, FS_Interval DEF Keys
<1> SUFFICES ASSUME NEW S \in SUBSET Keys
             PROVE  S \in SUBSET Nat /\ IsFiniteSet(S)
  OBVIOUS
<1>2. IsFiniteSet(S)
  BY <1>1, FS_Subset
<1> QED
  BY <1>2, TodoeyAssumption DEF Keys

(* Deleting the object of a row: the object exists, the data source has one *)
(* row less, and the remaining cells are those of the remaining objects.    *)
LEMMA DeleteRow ==
  ASSUME NEW S \in SUBSET Keys, NEW key, \A z \in S : key[z] \in Int,
         NEW r \in DOMAIN Rows(key, S)
  PROVE  /\ Rows(key, S)[r] \in S
         /\ Cardinality(S \ {Rows(key, S)[r]}) = Count(Rows(key, S)) - 1
         /\ Without(Rows(key, S), r) = Rows(key, S \ {Rows(key, S)[r]})
<1>1. S \in SUBSET Nat /\ IsFiniteSet(S)
  BY KeySets
<1>2. r \in 0 .. Cardinality(S) - 1 /\ Count(Rows(key, S)) = Cardinality(S)
  BY <1>1, CountRows
<1>3. Rows(key, S)[r] \in S
  BY <1>1, <1>2, RowsMember
<1>4. Cardinality(S \ {Rows(key, S)[r]}) = Cardinality(S) - 1
  BY <1>1, <1>3, FS_RemoveElement
<1> QED
  BY <1>1, <1>2, <1>3, <1>4, DeleteShiftsRows

(* The initial state satisfies the invariant: both tables are empty.        *)
LEMMA InitInv == Init => IInv
<1> SUFFICES ASSUME Init PROVE IInv
  OBVIOUS
<1>1. TypeOK
  BY TodoeyAssumption DEF Init, TypeOK, Keys
<1>2. CategoryRows = NoCells
  <2>1. Cardinality(categories) = 0
    BY FS_EmptySet DEF Init
  <2>2. 0 .. 0 - 1 = {}
    OBVIOUS
  <2> QED
    BY <2>1, <2>2 DEF CategoryRows, Rows, NoCells
<1> QED
  BY <1>1, <1>2 DEF Init, IInv, NeverAborts, OneHome, Bookkeeping, TablesShowStore

(* Adding a category: a fresh key, and the table reloads.                   *)
LEMMA AddCategoryInv ==
  ASSUME IInv, NEW n \in Names, addNewCategory(n)
  PROVE  IInv'
<1>1. TypeOK'
  BY TodoeyAssumption DEF IInv, TypeOK, addNewCategory, readData, todoList, Keys
<1>2. OneHome' /\ Bookkeeping' /\ NeverAborts'
  BY DEF IInv, TypeOK, OneHome, Bookkeeping, NeverAborts, addNewCategory, readData,
         todoList, Keys
<1>3. TablesShowStore'
  <2>1. categoryCells' = CategoryRows'
    BY DEF addNewCategory, readData
  <2>2. screen' = "categories"
    BY DEF IInv, Bookkeeping, addNewCategory
  <2> QED
    BY <2>1, <2>2 DEF TablesShowStore
<1> QED
  BY <1>1, <1>2, <1>3 DEF IInv

(* Opening a category: it is live, because its row was.                     *)
LEMMA SelectCategoryInv ==
  ASSUME IInv, NEW r \in DOMAIN categoryCells, selectCategory(r)
  PROVE  IInv'
<1>1. categoryCells = CategoryRows
  BY DEF IInv, NeverAborts, TablesShowStore
<1>2. CategoryRows[r] \in categories /\ categories \in SUBSET Keys
  <2>1. categories \in SUBSET Keys
    BY DEF IInv, TypeOK
  <2>2. \A z \in categories : KeyOrder[z] \in Int
    BY <2>1 DEF KeyOrder
  <2> QED
    BY <1>1, <2>1, <2>2, DeleteRow DEF CategoryRows
<1>3. /\ screen' = "todos" /\ selectedCategory' = CategoryRows[r]
      /\ searchText' = {} /\ predicates' = {} /\ itemCells' = CellsOfItems'
      /\ UNCHANGED <<running, alert, categoryCells>>
  BY <1>1 DEF selectCategory, loadItems
<1>4. TypeOK' /\ OneHome' /\ Bookkeeping' /\ NeverAborts'
  BY <1>2, <1>3 DEF IInv, TypeOK, OneHome, Bookkeeping, NeverAborts, selectCategory, store
<1>5. CategoryRows' = CategoryRows
  BY DEF selectCategory, store, CategoryRows
<1> QED
  BY <1>1, <1>3, <1>4, <1>5 DEF IInv, TablesShowStore

(* Deleting a category by a swipe: UIKit's count check passes and the       *)
(* remaining cells are those of the remaining categories.                   *)
LEMMA SwipeCategoryInv ==
  ASSUME IInv, NEW r \in DOMAIN categoryCells, swipeCategory(r)
  PROVE  IInv'
<1> DEFINE c == CategoryRows[r]
<1>1. categoryCells = CategoryRows
  BY DEF IInv, NeverAborts, TablesShowStore
<1>2. deleteCategoryAction(r) /\ deleteCategoryRow(r) /\ screen = "categories"
  BY <1>1 DEF swipeCategory
<1>3. /\ c \in categories
      /\ Cardinality(categories \ {c}) = Count(CategoryRows) - 1
      /\ Without(CategoryRows, r) = Rows(KeyOrder, categories \ {c})
  <2>1. categories \in SUBSET Keys
    BY DEF IInv, TypeOK
  <2>2. \A z \in categories : KeyOrder[z] \in Int
    BY <2>1 DEF KeyOrder
  <2> QED
    BY <1>1, <2>1, <2>2, DeleteRow DEF CategoryRows
<1>4. /\ categories' = categories \ {c} /\ list' = [list EXCEPT ![c] = {}]
      /\ UNCHANGED <<nextKey, items, name, done>>
  BY <1>2 DEF deleteCategoryAction
<1>5. /\ categoryCells' = Without(categoryCells, r)
      /\ UNCHANGED <<running, screen, alert, todoList>>
  BY <1>1, <1>2, <1>3, <1>4 DEF deleteCategoryRow
<1>6. categoryCells' = CategoryRows'
  BY <1>1, <1>3, <1>4, <1>5 DEF CategoryRows
<1>7. TypeOK' /\ OneHome' /\ Bookkeeping' /\ NeverAborts'
  BY <1>2, <1>3, <1>4, <1>5 DEF IInv, TypeOK, OneHome, Bookkeeping, NeverAborts, todoList
<1> QED
  BY <1>2, <1>5, <1>6, <1>7 DEF IInv, TablesShowStore

(* Typing into the search bar.                                              *)
LEMMA TextDidChangeInv ==
  ASSUME IInv, NEW text \in {{}} \cup {{t} : t \in Texts}, textDidChange(text)
  PROVE  IInv'
<1>1. UNCHANGED <<store, running, screen, alert, categoryCells, selectedCategory>>
  BY DEF textDidChange
<1>2. \/ searchText' = text /\ predicates' = {} /\ itemCells' = CellsOfItems'
      \/ searchText' = text /\ UNCHANGED <<predicates, itemCells>>
  BY DEF textDidChange, loadItems
<1>3. TypeOK' /\ OneHome' /\ Bookkeeping' /\ NeverAborts'
  BY <1>1, <1>2 DEF IInv, TypeOK, OneHome, Bookkeeping, NeverAborts, store, textDidChange
<1>4. CategoryRows' = CategoryRows
  BY <1>1 DEF store, CategoryRows
<1>5. screen' = "todos" => itemCells' = CellsOfItems'
  <2>1. predicates' = predicates => CellsOfItems' = CellsOfItems
    BY <1>1 DEF store, CellsOfItems, ItemRows, itemArray, setCellData
  <2> QED
    BY <1>1, <1>2, <2>1 DEF IInv, NeverAborts, TablesShowStore
<1> QED
  BY <1>1, <1>3, <1>4, <1>5 DEF IInv, NeverAborts, TablesShowStore

(* Searching narrows the predicates and reloads.                            *)
LEMMA SearchInv ==
  ASSUME IInv, searchBarSearchButtonClicked
  PROVE  IInv'
<1>1. /\ UNCHANGED <<store, running, screen, alert, categoryCells, selectedCategory, searchText>>
      /\ predicates' = predicates \cup searchText
      /\ itemCells' = CellsOfItems'
  BY DEF searchBarSearchButtonClicked
<1>2. TypeOK' /\ OneHome' /\ Bookkeeping' /\ NeverAborts'
  BY <1>1 DEF IInv, TypeOK, OneHome, Bookkeeping, NeverAborts, store
<1>3. CategoryRows' = CategoryRows
  BY <1>1 DEF store, CategoryRows
<1> QED
  BY <1>1, <1>2, <1>3 DEF IInv, NeverAborts, TablesShowStore

(* The open list: a finite set of items with a name to sort by.             *)
LEMMA OpenList ==
  ASSUME IInv, screen = "todos"
  PROVE  /\ selectedCategory \in Keys /\ itemArray \in SUBSET items
         /\ itemArray \in SUBSET Keys /\ itemArray \in SUBSET Nat
         /\ IsFiniteSet(itemArray)
         /\ \A z \in itemArray : name[z] \in Int
<1>1. /\ selectedCategory \in Keys /\ items \in SUBSET Keys
      /\ list \in [Keys -> SUBSET items] /\ name \in [Keys -> Names]
  BY DEF IInv, TypeOK, OneHome
<1>2. itemArray \in SUBSET items /\ itemArray \in SUBSET Keys
  BY <1>1 DEF itemArray
<1>3. itemArray \in SUBSET Nat /\ IsFiniteSet(itemArray)
  BY <1>2, KeySets
<1>4. ASSUME NEW z \in itemArray PROVE name[z] \in Int
  <2>1. name[z] \in Names
    BY <1>1, <1>2
  <2>2. name[z] \in Nat
    BY <2>1, TodoeyAssumption, Zenon
  <2> QED
    BY <2>2
<1> QED
  BY <1>1, <1>2, <1>3, <1>4

(* Deleting an item by a swipe: as for a category, with the checkmarks of   *)
(* the remaining items unchanged.                                           *)
LEMMA SwipeItemStep ==
  ASSUME IInv, NEW r \in DOMAIN itemCells, swipeItem(r)
  PROVE  /\ r \in DOMAIN ItemRows /\ ItemRows[r] \in itemArray
         /\ itemCells[r].item = ItemRows[r]
         /\ items' = items \ {ItemRows[r]} /\ done' = done \ {ItemRows[r]}
         /\ list' = [c \in Keys |-> list[c] \ {ItemRows[r]}]
         /\ itemArray' = itemArray \ {ItemRows[r]}
         /\ itemArray \in SUBSET items
         /\ ItemRows' = Without(ItemRows, r)
         /\ itemCells' = Without(itemCells, r)
         /\ UNCHANGED <<nextKey, categories, name, running, screen, alert, categoryCells,
                        selectedCategory, searchText, predicates>>
<1> DEFINE x == ItemRows[r]
<1>1. screen = "todos" /\ itemCells = CellsOfItems
  BY DEF IInv, NeverAborts, TablesShowStore, swipeItem
<1>2. DOMAIN itemCells = DOMAIN ItemRows /\ itemCells[r].item = x
  BY <1>1 DEF CellsOfItems, setCellData
<1>3. /\ selectedCategory \in Keys /\ itemArray \in SUBSET items
      /\ itemArray \in SUBSET Keys /\ \A z \in itemArray : name[z] \in Int
  BY <1>1, OpenList
<1>5. /\ x \in itemArray
      /\ Cardinality(itemArray \ {x}) = Count(ItemRows) - 1
      /\ Without(ItemRows, r) = Rows(name, itemArray \ {x})
  BY <1>2, <1>3, DeleteRow DEF ItemRows
<1>6. /\ deleteItemAction(r) /\ deleteItemRow(r)
      /\ UNCHANGED <<selectedCategory, predicates>>
  BY <1>2 DEF swipeItem
<1>7. /\ items' = items \ {x} /\ done' = done \ {x}
      /\ list' = [c \in Keys |-> list[c] \ {x}]
      /\ UNCHANGED <<nextKey, categories, name>>
  BY <1>6 DEF deleteItemAction
<1>8. itemArray' = itemArray \ {x}
  BY <1>3, <1>6, <1>7 DEF itemArray
<1>9. Count(itemCells) = Count(ItemRows)
  BY <1>2 DEF Count
<1>10. /\ itemCells' = Without(itemCells, r)
       /\ UNCHANGED <<running, screen, alert, categoryCells, searchText>>
  BY <1>5, <1>6, <1>8, <1>9 DEF deleteItemRow
<1>11. ItemRows' = Without(ItemRows, r)
  BY <1>5, <1>7, <1>8 DEF ItemRows
<1> QED
  BY <1>2, <1>3, <1>5, <1>6, <1>7, <1>8, <1>10, <1>11

LEMMA SwipeItemInv ==
  ASSUME IInv, NEW r \in DOMAIN itemCells, swipeItem(r)
  PROVE  IInv'
<1> DEFINE x == ItemRows[r]
<1>1. screen = "todos" /\ itemCells = CellsOfItems
  BY DEF IInv, NeverAborts, TablesShowStore, swipeItem
<1>2. /\ r \in DOMAIN ItemRows /\ x \in itemArray
      /\ items' = items \ {x} /\ done' = done \ {x}
      /\ list' = [c \in Keys |-> list[c] \ {x}]
      /\ ItemRows' = Without(ItemRows, r) /\ itemCells' = Without(itemCells, r)
      /\ UNCHANGED <<nextKey, categories, name, running, screen, alert, categoryCells,
                     selectedCategory, searchText, predicates>>
  BY SwipeItemStep
<1>3. TypeOK'
  BY <1>2 DEF IInv, TypeOK
<1>4. OneHome' /\ Bookkeeping' /\ NeverAborts'
  BY <1>2 DEF IInv, TypeOK, OneHome, Bookkeeping, NeverAborts
<1>5. CategoryRows' = CategoryRows
  BY <1>2 DEF CategoryRows
<1>6. itemCells' = CellsOfItems'
  <2> DEFINE n == Count(ItemRows)
             j(i) == IF i < r THEN i ELSE i + 1
  <2>1. DOMAIN itemCells = DOMAIN ItemRows /\ Count(itemCells) = n
    BY <1>1 DEF CellsOfItems, Count
  <2>2. /\ itemArray \in SUBSET Nat /\ IsFiniteSet(itemArray)
        /\ \A z \in itemArray : name[z] \in Int
    BY <1>1, OpenList
  <2>3. /\ n = Cardinality(itemArray) /\ n \in Nat
        /\ DOMAIN ItemRows = 0 .. n - 1
    BY <2>2, CountRows DEF ItemRows
  <2>4. r \in 0 .. n - 1
    BY <1>2, <2>3
  <2>5. ASSUME NEW i \in 0 .. n - 2
        PROVE  j(i) \in DOMAIN ItemRows /\ ItemRows[j(i)] # x
    <3>1. j(i) \in 0 .. n - 1 /\ j(i) # r
      BY <2>3, <2>4
    <3>2. Rank(name, itemArray, ItemRows[j(i)]) = j(i)
      BY <2>2, <2>3, <3>1, RowsMember DEF ItemRows
    <3>3. Rank(name, itemArray, x) = r
      BY <2>2, <2>3, <2>4, RowsMember DEF ItemRows
    <3> QED
      BY <2>3, <3>1, <3>2, <3>3
  <2>6. ItemRows' = [i \in 0 .. n - 2 |-> ItemRows[j(i)]]
    BY <1>2 DEF Without
  <2>7. CellsOfItems' = [i \in 0 .. n - 2 |-> [item |-> ItemRows[j(i)],
                                              checkmark |-> ItemRows[j(i)] \in done']]
    <3>1. DOMAIN ItemRows' = 0 .. n - 2
      BY <2>6
    <3>2. \A i \in 0 .. n - 2 : ItemRows'[i] = ItemRows[j(i)]
      BY <2>6
    <3> QED
      BY <3>1, <3>2 DEF CellsOfItems, setCellData
  <2>8. itemCells' = [i \in 0 .. n - 2 |-> [item |-> ItemRows[j(i)],
                                           checkmark |-> ItemRows[j(i)] \in done]]
    <3>1. itemCells' = [i \in 0 .. n - 2 |-> itemCells[j(i)]]
      BY <1>2, <2>1 DEF Without
    <3>2. \A k \in DOMAIN ItemRows :
            itemCells[k] = [item |-> ItemRows[k], checkmark |-> ItemRows[k] \in done]
      BY <1>1 DEF CellsOfItems, setCellData
    <3> QED
      BY <3>1, <3>2, <2>5
  <2>9. \A i \in 0 .. n - 2 : ItemRows[j(i)] \in done' <=> ItemRows[j(i)] \in done
    BY <1>2, <2>5
  <2> QED
    BY <2>7, <2>8, <2>9
<1> QED
  BY <1>1, <1>2, <1>3, <1>4, <1>5, <1>6 DEF IInv, NeverAborts, TablesShowStore

(* Toggling an item's checkmark.                                            *)
LEMMA ToggleItemInv ==
  ASSUME IInv, NEW r \in DOMAIN itemCells, toggleItem(r)
  PROVE  IInv'
<1>1. screen = "todos" /\ itemCells = CellsOfItems
  BY DEF IInv, NeverAborts, TablesShowStore, toggleItem
<1>2. r \in DOMAIN ItemRows
  BY <1>1 DEF CellsOfItems
<1>3. ItemRows[r] \in items
  BY <1>1, <1>2, OpenList, DeleteRow DEF ItemRows
<1>4. /\ done' = IF ItemRows[r] \in done THEN done \ {ItemRows[r]}
                                          ELSE done \cup {ItemRows[r]}
      /\ itemCells' = CellsOfItems'
      /\ UNCHANGED <<running, screen, alert, categoryCells, searchText>>
      /\ UNCHANGED <<nextKey, categories, items, name, list, selectedCategory, predicates>>
  BY <1>2 DEF toggleItem
<1>5. TypeOK' /\ OneHome' /\ Bookkeeping' /\ NeverAborts'
  BY <1>3, <1>4 DEF IInv, TypeOK, OneHome, Bookkeeping, NeverAborts
<1>6. CategoryRows' = CategoryRows
  BY <1>4 DEF CategoryRows
<1> QED
  BY <1>4, <1>5, <1>6 DEF IInv, NeverAborts, TablesShowStore

(* Adding an item to the open category's list.                              *)
LEMMA SaveDataInv ==
  ASSUME IInv, NEW n \in Names, saveData(n)
  PROVE  IInv'
<1>1. screen = "todos" /\ selectedCategory \in categories
  BY DEF IInv, Bookkeeping, OneHome, TypeOK, saveData
<1>2. /\ nextKey \in Keys /\ nextKey' = nextKey + 1
      /\ items' = items \cup {nextKey} /\ name' = [name EXCEPT ![nextKey] = n]
      /\ list' = [list EXCEPT ![selectedCategory] = @ \cup {nextKey}]
      /\ alert' = "none" /\ itemCells' = CellsOfItems'
      /\ UNCHANGED <<categories, done, running, screen, categoryCells,
                     selectedCategory, searchText, predicates>>
  BY DEF saveData
<1>3. TypeOK'
  <2>1. nextKey' \in 1 .. MaxKey + 1
    BY <1>2, TodoeyAssumption DEF Keys
  <2>2. items' \in SUBSET Keys /\ done' \in SUBSET items'
    BY <1>2 DEF IInv, TypeOK
  <2>3. name' \in [Keys -> Names] /\ list' \in [Keys -> SUBSET items']
    BY <1>2 DEF IInv, TypeOK
  <2> QED
    BY <1>2, <2>1, <2>2, <2>3 DEF IInv, TypeOK
<1>4. OneHome'
  <2>1. \A c \in Keys : nextKey \notin list[c]
    BY DEF IInv, TypeOK, Bookkeeping, Keys
  <2>2. selectedCategory \in Keys /\ categories \in SUBSET Keys
    BY <1>1 DEF IInv, TypeOK
  <2>3. \A c \in Keys : list'[c] = IF c = selectedCategory THEN list[c] \cup {nextKey}
                                                           ELSE list[c]
    BY <1>2 DEF IInv, TypeOK
  <2> QED
    BY <1>1, <1>2, <2>1, <2>2, <2>3 DEF IInv, OneHome
<1>5. Bookkeeping' /\ NeverAborts'
  BY <1>1, <1>2 DEF IInv, TypeOK, Bookkeeping, NeverAborts, Keys
<1>6. CategoryRows' = CategoryRows
  BY <1>2 DEF CategoryRows
<1> QED
  BY <1>2, <1>3, <1>4, <1>5, <1>6 DEF IInv, NeverAborts, TablesShowStore

(* The steps that only present an alert, leave the list or start the app.   *)
LEMMA NavigationInv ==
  ASSUME IInv,
         addCategoryButtonPressed \/ addItemBttonPressed \/ back \/ relaunch \/ UNCHANGED vars
  PROVE  IInv'
<1>1. UNCHANGED store
  BY DEF addCategoryButtonPressed, addItemBttonPressed, back, relaunch, vars
<1>2. CategoryRows' = CategoryRows
  BY <1>1 DEF store, CategoryRows
<1>3. UNCHANGED todoList => CellsOfItems' = CellsOfItems
  BY <1>1 DEF store, todoList, CellsOfItems, ItemRows, itemArray, setCellData
<1>4. CASE addCategoryButtonPressed
  BY <1>1, <1>2, <1>3, <1>4 DEF IInv, TypeOK, NeverAborts, OneHome, Bookkeeping,
     TablesShowStore, addCategoryButtonPressed, store, todoList
<1>5. CASE addItemBttonPressed
  BY <1>1, <1>2, <1>3, <1>5 DEF IInv, TypeOK, NeverAborts, OneHome, Bookkeeping,
     TablesShowStore, addItemBttonPressed, store, todoList
<1>6. CASE back
  BY <1>1, <1>2, <1>6 DEF IInv, TypeOK, NeverAborts, OneHome, Bookkeeping,
     TablesShowStore, back, store
<1>7. CASE relaunch
  BY <1>1, <1>2, <1>7 DEF IInv, TypeOK, NeverAborts, OneHome, Bookkeeping,
     TablesShowStore, relaunch, readData, store
<1>8. CASE UNCHANGED vars
  BY <1>1, <1>2, <1>3, <1>8 DEF IInv, TypeOK, NeverAborts, OneHome, Bookkeeping,
     TablesShowStore, vars, store, todoList
<1> QED
  BY <1>4, <1>5, <1>6, <1>7, <1>8

(* Every step of the app preserves the invariant.                           *)
LEMMA NextInv == IInv /\ [Next]_vars => IInv'
BY AddCategoryInv, SelectCategoryInv, SwipeCategoryInv, TextDidChangeInv, SearchInv,
   SwipeItemInv, ToggleItemInv, SaveDataInv, NavigationInv DEF Next

THEOREM Inductive == Spec => []IInv
BY InitInv, NextInv, PTL DEF Spec

(* Type correctness.                                                        *)
THEOREM TypeCorrect == Spec => []TypeOK
BY Inductive, PTL DEF IInv

(* The cells on screen are always those of the live Results.                *)
THEOREM TablesAgree == Spec => []TablesShowStore
BY Inductive, PTL DEF IInv

(* No index is out of range and no row count check fails.                   *)
THEOREM NoAbort == Spec => []NeverAborts
BY Inductive, PTL DEF IInv

(* Items have one live category at most, and the open category is live.     *)
THEOREM OneHomeHolds == Spec => []OneHome
BY Inductive, PTL DEF IInv

(* Only a swipe removes an item, and the item it removes is the one the     *)
(* swiped row showed.                                                       *)
THEOREM SwipedItemOnly == Spec => DeletesTheSwipedItem
<1> DEFINE BySwipe == \A x \in items \ items' :
                        \E r \in DOMAIN itemCells : /\ itemCells[r].item = x
                                                    /\ itemCells' = Without(itemCells, r)
<1>1. IInv /\ [Next]_vars => [BySwipe]_vars
  <2> SUFFICES ASSUME IInv, Next, NEW x \in items \ items'
               PROVE  \E r \in DOMAIN itemCells : /\ itemCells[r].item = x
                                                  /\ itemCells' = Without(itemCells, r)
    OBVIOUS
  <2>1. PICK r \in DOMAIN itemCells : swipeItem(r)
    BY DEF Next, store, addCategoryButtonPressed, addItemBttonPressed,
       searchBarSearchButtonClicked, back, relaunch, addNewCategory, saveData,
       selectCategory, swipeCategory, deleteCategoryAction, toggleItem, textDidChange
  <2> QED
    BY <2>1, SwipeItemStep
<1> QED
  BY <1>1, Inductive, PTL DEF Spec, DeletesTheSwipedItem

(* Clearing the search text shows every item of the open category.          *)
THEOREM ClearedSearchShowsAll == Spec => ClearingRestores
<1> DEFINE Restores == screen' = "todos" /\ searchText # {} /\ searchText' = {}
             => {itemCells'[r].item : r \in DOMAIN itemCells'} = list[selectedCategory]
<1>1. IInv /\ [Next]_vars => [Restores]_vars
  <2> SUFFICES ASSUME IInv, Next, screen' = "todos", searchText # {}, searchText' = {}
               PROVE  {itemCells'[r].item : r \in DOMAIN itemCells'} = list[selectedCategory]
    OBVIOUS
  <2>1. screen = "todos"
    BY DEF IInv, TypeOK, Bookkeeping
  <2>2. textDidChange({})
    <3>1. ASSUME NEW r \in DOMAIN itemCells, swipeItem(r) PROVE FALSE
      BY <3>1, SwipeItemStep
    <3>2. ASSUME NEW r \in DOMAIN itemCells, toggleItem(r) PROVE FALSE
      BY <3>2 DEF toggleItem, Abort, todoList
    <3>3. ASSUME NEW n \in Names, addNewCategory(n) \/ saveData(n) PROVE FALSE
      BY <3>3 DEF addNewCategory, saveData, todoList
    <3>4. ASSUME NEW r \in DOMAIN categoryCells, selectCategory(r) \/ swipeCategory(r)
          PROVE  FALSE
      BY <2>1, <3>4 DEF selectCategory, swipeCategory
    <3>5. ~ addCategoryButtonPressed /\ ~ addItemBttonPressed
      BY DEF addCategoryButtonPressed, addItemBttonPressed, todoList
    <3>6. ~ searchBarSearchButtonClicked /\ ~ back /\ ~ relaunch
      BY DEF searchBarSearchButtonClicked, back, relaunch
    <3>7. PICK text \in {{}} \cup {{t} : t \in Texts} : textDidChange(text)
      BY <3>1, <3>2, <3>3, <3>4, <3>5, <3>6 DEF Next
    <3> QED
      BY <3>7 DEF textDidChange, loadItems
  <2>3. /\ predicates' = {} /\ itemCells' = CellsOfItems'
        /\ UNCHANGED <<name, list, selectedCategory>>
    BY <2>2 DEF textDidChange, loadItems, store
  <2>4. selectedCategory \in Keys /\ list[selectedCategory] \in SUBSET Keys
        /\ name \in [Keys -> Names]
    BY <2>1, OpenList DEF IInv, TypeOK
  <2>5. itemArray' = list[selectedCategory]
    BY <2>3 DEF itemArray
  <2>6. ItemRows' = Rows(name, list[selectedCategory])
    BY <2>3, <2>5 DEF ItemRows
  <2>7. /\ DOMAIN itemCells' = DOMAIN ItemRows'
        /\ \A r \in DOMAIN itemCells' : itemCells'[r].item = ItemRows'[r]
    BY <2>3 DEF CellsOfItems, setCellData
  <2>8. \A z \in list[selectedCategory] : name[z] \in Int
    <3> SUFFICES ASSUME NEW z \in list[selectedCategory] PROVE name[z] \in Int
      OBVIOUS
    <3>1. name[z] \in Names
      BY <2>4
    <3>2. name[z] \in Nat
      BY <3>1, TodoeyAssumption, Zenon
    <3> QED
      BY <3>2
  <2>9. {ItemRows'[r] : r \in DOMAIN ItemRows'} = list[selectedCategory]
    BY <2>4, <2>6, <2>8, KeySets, RowsOnto
  <2> QED
    BY <2>7, <2>9
<1> QED
  BY <1>1, Inductive, PTL DEF Spec, ClearingRestores
==============================================================================
