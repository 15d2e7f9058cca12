-------------------------------- MODULE Todoey --------------------------------
(***************************************************************************)
(* The Todoey app: CategoryViewController and TodoListViewController, both  *)
(* SwipableTableViewControllers, over one Realm.  Everything runs on the    *)
(* main thread, so each handler is one step; what can go wrong is the       *)
(* agreement of three things that are updated at different places: the      *)
(* Realm, the live Results the controllers index into, and the cells UIKit  *)
(* keeps, which change only on reloadData and deleteRows.                   *)
(*                                                                          *)
(* A swipe that ends in a deletion is one step here (SwipeCellKit calls the *)
(* action's handler and deleteRows in one go); module SwipeTable has the    *)
(* gestures and animations around it.                                       *)
(***************************************************************************)
EXTENDS LiveResults

CONSTANTS MaxKey,    \* bound: ObjKeys handed out before the model stops adding
          Names,     \* names of categories and items, as ranks in sort order
          Texts,     \* texts that can be typed into the search bar
          Contains   \* Contains[t]: the names the predicate CONTAINS[cd] t accepts

ASSUME TodoeyAssumption == /\ MaxKey \in Nat
                           /\ Names \subseteq Nat /\ Names # {}
                           /\ Contains \in [Texts -> SUBSET Names]

Keys == 1 .. MaxKey

VARIABLES
  \* the Realm file
  nextKey,           \* the key the next object gets
  categories,        \* the TodoCategory objects
  items,             \* the TodoItem objects
  name,              \* the name property of an object
  done,              \* the items whose done property is true
  list,              \* list[c]: the items of category c
  \* the running app
  running,           \* FALSE after an uncaught exception
  screen,            \* the view controller on top of the navigation stack
  alert,             \* the controller whose "add" alert is presented, or "none"
  categoryCells,     \* row |-> category shown by CategoryViewController's table
  selectedCategory,  \* TodoListViewController.selectedCategory, 0 when there is none
  searchText,        \* the set holding the search bar's text, {} when it is empty
  predicates,        \* the filters applied to itemArray since loadItems
  itemCells          \* row |-> item and checkmark shown by the todo table

store == <<nextKey, categories, items, name, done, list>>
todoList == <<selectedCategory, searchText, predicates, itemCells>>
vars == <<store, running, screen, alert, categoryCells, todoList>>

(* CategoryViewController.categories and TodoListViewController.itemArray,  *)
(* with the cells cellForRowAt makes of them.                               *)
KeyOrder == [k \in Keys |-> 0]
CategoryRows == Rows(KeyOrder, categories)

itemArray == {x \in list[selectedCategory] :
                \A t \in predicates : name[x] \in Contains[t]}
ItemRows == Rows(name, itemArray)

setCellData(x) == [item |-> x, checkmark |-> x \in done]
CellsOfItems == [r \in DOMAIN ItemRows |-> setCellData(ItemRows[r])]

NoCells == [r \in {} |-> 0]

Init == /\ nextKey = 1 /\ categories = {} /\ items = {} /\ done = {}
        /\ name = [k \in Keys |-> CHOOSE n \in Names : TRUE]
        /\ list = [k \in Keys |-> {}]
        /\ running = TRUE /\ screen = "categories" /\ alert = "none"
        /\ categoryCells = NoCells
        /\ selectedCategory = 0 /\ searchText = {} /\ predicates = {}
        /\ itemCells = NoCells

(* An exception nobody catches: indexing a Results beyond its count, or     *)
(* UIKit's NSInternalInconsistencyException.  Committed writes stay.        *)
Abort == running' = FALSE /\ UNCHANGED <<screen, alert, categoryCells, todoList>>

------------------------------------------------------------------------------
(* CategoryViewController *)

(* Mutated: the table is not told.                                          *)
readNothing == categoryCells' = categoryCells

readData == categoryCells' = CategoryRows'

addCategoryButtonPressed ==
  /\ running /\ screen = "categories" /\ alert = "none"
  /\ alert' = "categories"
  /\ UNCHANGED <<store, running, screen, categoryCells, todoList>>

(* The alert's action: a new TodoCategory is written and the table reloads. *)
addNewCategory(n) ==
  /\ running /\ alert = "categories" /\ nextKey \in Keys
  /\ nextKey' = nextKey + 1
  /\ categories' = categories \cup {nextKey}
  /\ name' = [name EXCEPT ![nextKey] = n]
  /\ alert' = "none"
  /\ readData
  /\ UNCHANGED <<items, done, list, running, screen, todoList>>

(* loadItems: itemArray is rebuilt from the category and the table reloads. *)
(* Mutated: itemArray keeps its filters.                                    *)
loadItemsFiltered(text) ==
  /\ searchText' = text
  /\ predicates' = predicates
  /\ itemCells' = CellsOfItems'

loadItems(text) ==
  /\ searchText' = text
  /\ predicates' = {}
  /\ itemCells' = CellsOfItems'

(* didSelectRowAt and the segue's prepare: the category is looked up by row *)
(* in the live Results, and setting selectedCategory loads its items.       *)
selectCategory(r) ==
  /\ running /\ screen = "categories" /\ alert = "none" /\ r \in DOMAIN categoryCells
  /\ UNCHANGED store
  /\ IF r \in DOMAIN CategoryRows
     THEN /\ screen' = "todos"
          /\ selectedCategory' = CategoryRows[r]
          /\ loadItems({})
          /\ UNCHANGED <<running, alert, categoryCells>>
     ELSE Abort

(* The handler of the swipe action: the object is looked up in the live     *)
(* Results and deleted.  Items of a deleted category stay in the Realm.     *)
(* Mutated: the category's list outlives it.                                *)
deleteCategoryKeepList(r) ==
  /\ categories' = categories \ {CategoryRows[r]}
  /\ UNCHANGED <<nextKey, items, name, done, list>>

deleteCategoryAction(r) ==
  /\ categories' = categories \ {CategoryRows[r]}
  /\ list' = [list EXCEPT ![CategoryRows[r]] = {}]
  /\ UNCHANGED <<nextKey, items, name, done>>

(* SwipeCellKit's fulfilment: UIKit removes the cell if the data source now *)
(* has one row less, and raises otherwise.                                  *)
deleteCategoryRow(r) ==
  IF Cardinality(categories') = Count(categoryCells) - 1
  THEN /\ categoryCells' = Without(categoryCells, r)
       /\ UNCHANGED <<running, screen, alert, todoList>>
  ELSE Abort

(* A swipe needs no closed alert: a pan under way when the alert comes up   *)
(* is cancelled, and handlePan performs an expanded action even then.       *)
swipeCategory(r) ==
  /\ running /\ screen = "categories" /\ r \in DOMAIN categoryCells
  /\ IF r \in DOMAIN CategoryRows
     THEN deleteCategoryAction(r) /\ deleteCategoryRow(r)
     ELSE UNCHANGED store /\ Abort

------------------------------------------------------------------------------
(* TodoListViewController *)

(* The user types; clearing the text reloads the whole category.            *)
textDidChange(text) ==
  /\ running /\ screen = "todos" /\ alert = "none" /\ text # searchText
  /\ UNCHANGED <<store, running, screen, alert, categoryCells, selectedCategory>>
  /\ \/ text = {} /\ loadItems(text)
     \/ text # {} /\ searchText' = text /\ UNCHANGED <<predicates, itemCells>>

(* The filter is applied to itemArray, which earlier searches may already   *)
(* have narrowed.                                                           *)
searchBarSearchButtonClicked ==
  /\ running /\ screen = "todos" /\ alert = "none" /\ searchText # {}
  /\ predicates' = predicates \cup searchText
  /\ UNCHANGED <<store, running, screen, alert, categoryCells, selectedCategory, searchText>>
  /\ itemCells' = CellsOfItems'

(* Mutated: the row is looked up in the category, not in the search result; *)
(* the link to the deleted item dangles.                                    *)
deleteUnfiltered(r) ==
  LET x == Rows(name, list[selectedCategory])[r] IN
  /\ items' = items \ {x}
  /\ done' = done \ {x}
  /\ list' = [c \in Keys |-> list[c] \ {x}]
  /\ UNCHANGED <<nextKey, categories, name>>

deleteLeavingLink(r) ==
  /\ items' = items \ {ItemRows[r]}
  /\ done' = done \ {ItemRows[r]}
  /\ UNCHANGED <<nextKey, categories, name, list>>

deleteItemAction(r) ==
  LET x == ItemRows[r] IN
  /\ items' = items \ {x}
  /\ done' = done \ {x}
  /\ list' = [c \in Keys |-> list[c] \ {x}]
  /\ UNCHANGED <<nextKey, categories, name>>

deleteItemRow(r) ==
  IF Cardinality(itemArray') = Count(itemCells) - 1
  THEN /\ itemCells' = Without(itemCells, r)
       /\ UNCHANGED <<running, screen, alert, categoryCells, searchText>>
  ELSE Abort

swipeItem(r) ==
  /\ running /\ screen = "todos" /\ r \in DOMAIN itemCells
  /\ UNCHANGED <<selectedCategory, predicates>>
  /\ IF r \in DOMAIN ItemRows
     THEN deleteItemAction(r) /\ deleteItemRow(r)
     ELSE UNCHANGED store /\ Abort

(* didSelectRowAt: the item's done flag is toggled and the table reloads.   *)
toggleItem(r) ==
  /\ running /\ screen = "todos" /\ alert = "none" /\ r \in DOMAIN itemCells
  /\ UNCHANGED <<nextKey, categories, items, name, list, selectedCategory, predicates>>
  /\ IF r \in DOMAIN ItemRows
     THEN /\ done' = IF ItemRows[r] \in done THEN done \ {ItemRows[r]}
                                              ELSE done \cup {ItemRows[r]}
          /\ itemCells' = CellsOfItems'
          /\ UNCHANGED <<running, screen, alert, categoryCells, searchText>>
     ELSE UNCHANGED done /\ Abort

addItemBttonPressed ==
  /\ running /\ screen = "todos" /\ alert = "none"
  /\ alert' = "todos"
  /\ UNCHANGED <<store, running, screen, categoryCells, todoList>>

(* The alert's action: the new item joins the selected category's list.     *)
(* Mutated: the table is not reloaded.                                      *)
saveDataNoReload(n) ==
  /\ running /\ alert = "todos" /\ nextKey \in Keys
  /\ nextKey' = nextKey + 1
  /\ items' = items \cup {nextKey}
  /\ name' = [name EXCEPT ![nextKey] = n]
  /\ list' = [list EXCEPT ![selectedCategory] = @ \cup {nextKey}]
  /\ alert' = "none"
  /\ UNCHANGED <<categories, done, running, screen, categoryCells, todoList>>

saveData(n) ==
  /\ running /\ alert = "todos" /\ nextKey \in Keys
  /\ nextKey' = nextKey + 1
  /\ items' = items \cup {nextKey}
  /\ name' = [name EXCEPT ![nextKey] = n]
  /\ list' = [list EXCEPT ![selectedCategory] = @ \cup {nextKey}]
  /\ alert' = "none"
  /\ UNCHANGED <<categories, done, running, screen, categoryCells,
                 selectedCategory, searchText, predicates>>
  /\ itemCells' = CellsOfItems'

------------------------------------------------------------------------------
(* UINavigationController's back button.                                    *)
back ==
  /\ running /\ screen = "todos" /\ alert = "none"
  /\ screen' = "categories" /\ selectedCategory' = 0
  /\ searchText' = {} /\ predicates' = {} /\ itemCells' = NoCells
  /\ UNCHANGED <<store, running, alert, categoryCells>>

(* The process ends (the user, the system, an exception) and is launched    *)
(* again: only the Realm file survives.                                     *)
relaunch ==
  /\ running' = TRUE /\ screen' = "categories" /\ alert' = "none"
  /\ selectedCategory' = 0 /\ searchText' = {} /\ predicates' = {}
  /\ itemCells' = NoCells
  /\ UNCHANGED store
  /\ readData

Next ==
  \/ addCategoryButtonPressed \/ addItemBttonPressed
  \/ searchBarSearchButtonClicked \/ back \/ relaunch
  \/ \E n \in Names : addNewCategory(n) \/ saveData(n)
  \/ \E r \in DOMAIN categoryCells : selectCategory(r) \/ swipeCategory(r)
  \/ \E r \in DOMAIN itemCells : toggleItem(r) \/ swipeItem(r)
  \/ \E text \in {{}} \cup {{t} : t \in Texts} : textDidChange(text)

Spec == Init /\ [][Next]_vars
------------------------------------------------------------------------------
(* The values the variables can hold.                                       *)
TypeOK ==
  /\ nextKey \in 1 .. MaxKey + 1
  /\ categories \in SUBSET Keys /\ items \in SUBSET Keys /\ done \in SUBSET items
  /\ name \in [Keys -> Names] /\ list \in [Keys -> SUBSET items]
  /\ running \in BOOLEAN /\ screen \in {"categories", "todos"}
  /\ alert \in {"none", "categories", "todos"}
  /\ selectedCategory \in Keys \cup {0}
  /\ searchText \in SUBSET Texts /\ predicates \in SUBSET Texts

(* The cells on screen are those the live Results would give now, although  *)
(* deleteAction never reloads: no row shows a deleted item, a stale         *)
(* checkmark or somebody else's row.                                        *)
TablesShowStore ==
  running => /\ categoryCells = CategoryRows
             /\ screen = "todos" => itemCells = CellsOfItems

(* No handler indexes a Results out of range and no deleteRows finds the    *)
(* data source with the wrong number of rows: the app never aborts.         *)
NeverAborts == running

(* An item is in the list of one category at most, only of a live one, and  *)
(* the category whose todos are open is never deleted beneath them.         *)
OneHome ==
  /\ \A c \in Keys : list[c] # {} => c \in categories
  /\ \A c, d \in Keys : c # d => list[c] \cap list[d] = {}
  /\ screen = "todos" => selectedCategory \in categories

(* An item leaves the Realm only by a swipe on the row that showed it, and  *)
(* exactly that row leaves the table.                                       *)
DeletesTheSwipedItem ==
  [][\A x \in items \ items' :
       \E r \in DOMAIN itemCells : /\ itemCells[r].item = x
                                   /\ itemCells' = Without(itemCells, r)]_vars

(* Clearing the search bar shows the whole category again, whatever was     *)
(* searched, toggled, added or deleted in between.                          *)
ClearingRestores ==
  [][screen' = "todos" /\ searchText # {} /\ searchText' = {}
       => {itemCells'[r].item : r \in DOMAIN itemCells'} = list[selectedCategory]]_vars
==============================================================================
