# Verification of the iOS apps in this repository

The repository holds fifteen small, independent iOS apps and, under
`Todoey/Pods`, the libraries one of them links: Realm (its object store in C++, the
Objective-C bindings and RealmSwift) and SwipeCellKit. The repository has no tests of
its own; its READMEs describe tutorial goals, and what Realm promises stands in the
comments of its headers and in its assertions. This project models the code that has
behaviour: the todo app with its database and its swipeable table, the apps whose
screens are driven by closures, animations and network answers that arrive later, and
the parts of the object store that coordinate threads, compute changes and manage sync
sessions.

Paths below are relative to the repository (`src/` in `PROJECT.json`); the object store
is `Todoey/Pods/Realm/Realm/ObjectStore/src`.

## Inventory

### The apps

| Part | State | Operations | How it interacts | What is hard | What makes it correct |
|---|---|---|---|---|---|
| **Todoey** (`Todoey/Todoey`) | the Realm file; live `Results` of both controllers; the cells UIKit keeps; search text; navigation | add category or item by alert, select, toggle, swipe to delete, search, clear, back, relaunch | controllers call Realm in write transactions; SwipeCellKit calls `deleteAction`, then `deleteRows` | cells change only on `reloadData` and `deleteRows`, results at every write; a stale row number deletes another object or aborts | cells always agree with the results; the item swiped is the item deleted; no abort |
| **SwipeCellKit** (`Pods/SwipeCellKit/Source`) | per cell: `SwipeState`, actions view, animator; UIKit's gesture recognizers | pan, tap, expansion, fill action, hide, reset, reuse | gestures of several fingers; animator completions; data source and delegate calls | cells are reused while fingers, animators and deletion animations refer to them; a stopped animator never calls its completion | one row is swiped at a time, the item deleted is the one swiped, no cell stays half open or blocks the table |
| **EggTimer** | busy flag, cooking time, label, bar, closures in the main queue | tap, three closures | each closure posts the next | the countdown exists only in closures; buttons stay enabled | one countdown at a time; it counts down to *Done* and frees the buttons |
| **Quizzler** | question number, score, label, question shown, colours, closures | answer, delayed next question | tap now, screen a second later | taps in between | the answer checked is for the question shown; bounded score |
| **Flash-Chat** | navigation stack, bar, title left to show, title shown, closures | appear, disappear, push, pop, interactive pop | every appearance restarts the animation | earlier closures pop from the new text; cancelled pops | the title comes out whole and in order |
| **ByteCoin** | requests in flight, main queue, labels | select a currency, completion handler, closure | `URLSession` threads to main queue | answers out of order, errors | labels of one response; never back to an earlier answer |
| **Clima** | search field, location request, requests, main queue, labels | edit, search, locate, delegate calls, closure | `CLLocationManager`, `WeatherManager` (not in the repository), main queue | editing ends in two ways, each of which calls a third handler; answers overtake each other | one search for each edit that ended, for its text; never back to an earlier answer |
| **Destini** | current story, story shown, closures | choice, delayed refresh | tap now, screen 0.2 s later | a tap on a button of a story already left | the screen lags by exactly what is posted |
| **Xylophone**, **Tipsy**, **BMI-Calculator**, **Dicee**, **Magic 8 Ball**, **AutoLayout**, **Calculator-Layout**, **iar** | one result, or none | one calculation or image | | | not modelled, see below |

### The Realm object store

| Part | State | Operations | How it interacts | What is hard | What makes it correct |
|---|---|---|---|---|---|
| **Results** (`results.cpp`) | query, sort descriptors, cached view | `size`, `get`, `sort`, `filter` | re-evaluated at each read | the row of an object is a function of everything else in the result | rows are a bijection, and deleting a row shifts those below it |
| **Transactions and notifications** (`shared_realm.cpp`, `impl/realm_coordinator.*`, `impl/collection_notifier.*`, `impl/results_notifier.cpp`, `impl/transact_log_handler.cpp`, `impl/apple/external_commit_helper.cpp`) | the version each Realm reads, the versions the worker's two read transactions are at, new and running notifiers, the change sets left for each callback, the index of the callback being called | observe, add and remove callbacks, run, hand over, package, deliver; begin, commit and cancel writes; `refresh`, `notify` | app threads, the worker thread and other processes, over two mutexes, a pipe and a condition variable | locks are let go while queries run and around each callback; a callback may write, add and remove callbacks; commits come at any time | the worker's assertions; each callback is told of every change once, as of the version its Realm shows; nobody waits for ever |
| **Changes and index sets** (`impl/collection_change_builder.cpp`, `index_set.cpp`) | deletions, insertions, modifications and moves; ranges in chunks | instruction by instruction, difference of two runs, merge of two change sets; add, erase, shift, count | the notifiers build them, the bindings animate a table by them | positions before and after, shifted through one another; chunks that fill and empty | the changes turn the rows seen into the rows there are; the ranges stand for the positions |
| **Sync sessions** (`sync/sync_session.cpp`, `sync/sync_manager.cpp`, `sync/sync_user.cpp`) | state of a session, its completion callbacks, the registry, the user's sessions | get, revive, suspend, log in and out, refresh the token, errors, client resync, wait for completion | app threads and the event loop, over three kinds of mutexes and weak references | completion handlers of an earlier death; callbacks moved between sessions; references dropped while others look | no callback called twice, and none dropped while the app waits for it; a session that ends has uploaded |
| **Schema, migrations, keychain, thread-safe references** | | | | | not modelled, see below |
| **Realm core, RealmSwift, bindings** | | | | | not modelled, see below |

The hazards of the code, each at its line, are in `PROJECT.json`.

## Modules

Definitions whose comment says *Mutated* are the plausible bugs that each property is
shown to find; no specification uses them.

### The apps

Everything the apps do runs on the main thread, one handler or closure after the other;
a handler is one action, whole. Concurrency comes from fingers, animations, closures
posted for later, background answers and relaunches, and is the interleaving of those
actions. Closures posted with one and the same delay run in the order they were posted,
so the main queue is a sequence (or, where the closures are all alike, their number).

**LiveResults** is the pure part of a Realm `Results`: `Rank` is the row at which an
object is listed, `Rows` what the subscript returns, and `Without` what `deleteRows`
does to cells. Objects are their keys; the sort key is a function.

**Todoey** extends it with both controllers. `categories`, `items`, `name`, `done`,
`list` are the Realm file; `categoryCells` and `itemCells` are what UIKit shows. An index
that is out of range, or a `deleteRows` with the wrong number of rows, is the action
`Abort`, after which only `relaunch` is possible. A swipe that ends in a deletion is one
step here, since `performFillAction` calls the handler and `deleteRows` synchronously.
Names are ranks in sort order; a search text stands for the set of names it matches.

**SwipeTable** has what lies around that step: each visible row is a cell taken from a
pool, with its `SwipeState`, its actions view, the completion its animator will call, the
deletion animations that have not ended, and the finger on it. A pan of the table
(`handleTablePan`) closes what is open, whether or not a row scrolls off (`scroll`). `handlePan` is `panBegan`,
`panChanged` and `panEnded`; `touchDown` is hit testing; `tap` the tap recognizer or the
row selection; `actionTapped` and `perform` the fill action with its handler, `deleteRows`
and 0.3 s animation. Distances are abstracted to what the code asks of them. UIKit's
choice of the cell to dequeue is nondeterministic.

**SwipeToDelete** is the abstract list that a user believes in: rows are closed, swiping,
open or closing, one is swiped at a time, and a row leaves only when it is not closed.
`SwipeTable!ImplementsSwipeToDelete` is the refinement: a row's phase is the state of the
cell that shows it.

**EggTimer**, **Quizzler**, **FlashChat**, **ByteCoin**, **Clima** and **Destini** model one
app each. **LatestAnswer** is the abstract screen that shows answers whole and never goes
back to an earlier one. These six apps share nothing, and **Apps** puts them side by side:
`app` says which is running, and its properties are those of the apps. There `CoinScreen`
and `WeatherScreen` are the instances of `LatestAnswer` that `ByteCoin` and `Clima` implement
(`ImplementsLatestAnswer`). Neither promises that the answer shown is the one to the latest
request, as the code ties no answer to a request. In `Clima` the return key and the search
button end editing, and UIKit calls `searchTextEntered` for it before they return: `due` counts
such calls, and `edits` is a history of the edits that ended and the text of each. **MCApps** gives the values to check it
with, and has beside the apps an instance of `Coordinator`, below, whose liveness is checked in
the same run; there too, `part` says which runs.

### The object store

**Coordinator** has the Realms of one process, each on the thread of its run loop, the
worker thread of the `ExternalCommitHelper`, and other processes. A version is a number,
and every commit changes what the collections hold, so that a change set is the set of
versions whose commits it tells of; what a change set says of rows is `ChangeBuilder`'s.
`latest` and `writer` are the file and its write lock; `version[r]` is what Realm `r`
reads; `workerAt` and `pin` are `m_notifier_sg` and `m_advancer_sg`; `notifier` and
`callbacks` are the fields of `CollectionNotifier` and of its callbacks, with `index` and
`count` as the `size_t`s they are. `worker` and `call` say where `run_async_notifiers`
and each Realm's thread are; what the code does with a mutex held is one step, and every
release of it a boundary between steps: `startNotifiers`, `runNotifier`,
`handOverSkipped`, `handOver` and `signalRealms` are the sections of `on_change`; `notify`,
`refresh` and `beginTransaction` begin a delivery, `packageAndWait` packages it, and
`callNext`, `callbackReturns` and `delivered` are `for_each_callback` with what its caller
does before and after. `heard` is a history of what each callback was told. Three
constants say what the app does: `CallbacksWrite` (the last callback of a delivery
writes, or others do), `NewOnesLeave` (a
callback added during a delivery is removed during it; a debug build asserts in
`for_each_callback` that the count has not passed the list, which is a guard of `callNext`) and `FirstIsLate` (the first
callback comes when its notifier has run without any).

**SyncSessions** has `SyncManager`, one `SyncUser` and the `SyncSession` objects of one
path. The state mutex of a session is held within a step; the mutexes of the manager and
of the user, held across calls, are variables, and `thread` says where each thread is in
between. `become` is `advance_state` with the new state's `enter_state`. A handler
registered with the sync client carries whether it is `due`; a *death* handler is the one
that entering the dying state registers, those that a counter makes stale are left out, and
that none of an earlier death ends the session is `UploadedWhenDead`. `IsAlive` is the shared pointers, `IsReferenced` the external ones. An assertion
that fails sets `aborted`, after which nothing happens.

**IndexSets** defines what the operations of an `IndexSet` do to a set of positions.
**RangeVector** is how they are carried out: ranges in chunks that remember where they
begin and end and how many positions they hold, iterators that are mended as chunks are
split and emptied. Its `count`, like the code's, is too small where it starts within a chunk and
ends in the first range of the next one (run `ranges_from`); so is that of `ChangeBuilder`
(`countFrom`), which asks it how many rows of a match are modified. Its runs apply any operation to any reachable index set and compare
with `IndexSets`. **ChangeBuilder** builds changes from the instructions of a transaction
(`list_set`, `list_insert`, `list_erase`, `list_move`, `list_swap`, `list_clear` of its
observer) or from the rows of two runs of a query (`calculate`, with its longest common
subsequences for sorted rows), merges them with those of earlier transactions and
finalizes them. **MCChanges** checks the two in one run, where `part` says which of them
moves.

Other `MC*` modules and the `.cfg` files hold the instances. `*Proofs` modules hold
theorems.

## Runs

| Run | Instance | States | What it shows |
|---|---|---|---|
| `todoey` | 4 objects, 2 names, 2 searches (one matches both names) | 97 thousand | cells agree with results, no abort, right item deleted, clearing restores, items have one home |
| `swipe` | 2 cells, 3 items, 2 rows on screen, 2 fingers, 1 unfinished deletion per cell; fair | 142 thousand | right item deleted, cells show their rows, no dead table, drags end by hand, every swiped row comes to rest; refinement of `SwipeToDelete` |
| `apps` | see `MCApps`: 3 eggs, 10 questions, 10 characters, 4 and 3 requests, 6 stories at most 4 choices apart; and 1 Realm with 1 notifier, 1 callback, which writes, and 3 versions; fair | 82 thousand | what makes each of the six apps correct, liveness and the refinements of `LatestAnswer` included; changes arrive; who waits for the worker goes on |
| `notifiers` | 1 Realm, 1 notifier, 2 callbacks, the last of which writes, 3 versions | 382 thousand | the worker's assertions; nothing is lost; each callback is told as of its Realm |
| `notifiers_skips` | 1 callback | violation | a skipped transaction is told all the same |
| `notifiers_late` | 1 callback that comes late | violation | changes are lost on it |
| `sessions` | 1 app thread and the event loop, 1 session object, 1 completion callback, 2 stop policies, 4 kinds of errors, 1 reference | 2.3 million | completion callbacks are kept, but for what a client resync loses, and called once; a session that ends has uploaded |
| `sessions_unregister` | the same with 1 policy, without errors | violation | an unregistered session is unregistered again |
| `sync_resync` | the same with client resets alone | violation | a completion callback handed in during a client resync is lost |
| `changes` | lists of 4 rows and 4 instructions; results of 3 rows and 2 runs; 7 positions in chunks of 2 ranges | 624 thousand | changes, moves and modifications are right; ranges stand for their set |
| `ranges_from` | the same 7 positions | violation | counting from within a chunk leaves out a range |
| `ranges_count` | the same 7 positions | violation | a chunk remembers too few positions |

**Bounds.** `MaxKey` is the number of objects ever created; four give two categories with
items, equal and different names, and a deletion before, at and after every row. Three
items for two rows let a row come on screen as another scrolls off or is deleted, which takes
the cell that has just gone, with its animator and its deletion's end still to come; two
fingers are the least that pan two rows. A second deletion of one cell within 0.3 s
(`MaxPending` of 2), and a cell in the pool while the list is full, are left to the proofs,
which cover all safety properties of `SwipeTable` and the refinement.
`MaxPosted`, `MaxRequests` and `MaxAppearances` bound how many closures, requests or
animations overlap; the code treats each one like the others, so that three or four show
every order of two with others between them. The lives of `ByteCoin` and `Clima` start
again with `relaunch`.

Three versions let a commit happen before, during and after a run of the notifiers, and a
run hand over two at once; two callbacks are the least that one of them can remove or
add another before or behind itself. One Realm with the worker and another process has
every pair of actors that share state; Realms on different threads meet only in the worker
and in the write lock, which the other process stands for. A `size_t` that goes below 0 is
`npos`, and one below that wraps, as in the code.

One session object at a time is what there is at a path, as a session that is alive is
revived; the thread and the event loop are the two sides of every race in the session.
One reference of the app's thread is there or not, beside those of the registry, the user, the
token's request and whoever looks at the session; a second changes only when the last one
goes, and is left to the proofs. Two rows cannot be
moved across each other and a third be deleted with less than three, four let two ranges
be apart with rows around each. Chunks of two ranges, where the code has dozens, fill,
split and empty with few positions; `ChangeBuilder` counts modified rows in chunks of two
(`MaxSize`) as well.

**Fairness.** Weak fairness of the main queue (its closures run), of animators and
deletion animations (they end, unless stopped) and of a panning finger (it is lifted). Of
`Coordinator`, also in `apps`: of the worker, which is a thread that does nothing else; of the
run loop that calls `notify` when signalled; of a delivery under way; and of the end of a write
transaction, which the code of the app must reach. That no tap, navigation, search, write
or answer of `WeatherManager` happens by itself is not excluded, and none is assumed.

**Deadlock.** Checked in `todoey` and `swipe`, where somebody can always do something.
Switched off elsewhere: in `apps`, `notifiers*`, `changes` and `ranges_*` the bounds end a
behaviour (no further request, version or instruction), and in `sessions*` and `sync_resync`
a failed assertion ends the app and threads may wait on each other, for a log out holds
the user's mutex while it asks for the manager's, and `get_session` does it the other
way.

## Proofs

All theorems are about the specifications that TLC runs, for every value of the constants
that satisfies the modules' assumptions; the two of `DeliveryProofs` have a hypothesis about
the constants besides, stated there.

*TodoeyProofs, the rows.* `Rank` maps a finite set of objects into `0 .. n-1`, strictly
increasing along `Precedes` (`RankStrict`), hence injective, hence onto by counting
(`RankSurjective`); so the `CHOOSE` in `Rows` has exactly one candidate (`RowsOnto`,
`RowsMember`). Deleting the object at row `r` lowers by one the rank of what it precedes
(`RankAfterDelete`). `DeleteShiftsRows` concludes that the rows after the deletion are the
cells after `deleteRows`.

*TodoeyProofs, the app.* `TablesShowStore` is not inductive by itself: that a deletion makes the
right cell go needs the lists to be within the items, and the todo cells to be those of a
category that still exists. `IInv` is the type invariant with the three safety invariants
and the facts that join them. Each action has a lemma; those that delete use
`DeleteShiftsRows`. From `IInv` follow `TablesAgree`, `NoAbort`, `OneHomeHolds` and, as
action properties, `SwipedItemOnly` and `ClearedSearchShowsAll`.

*SwipeTableProofs.* `NeverStuckOpen`, once it is known that `state` and `actionsView` are
functions over the cells, is inductive (`OverCells`): all cells change by `reset`,
`hideSwipe` and `perform`, each of which has a lemma, or one at a time. `SInv` adds the
screen: the items are listed once, the rows are those of the window at `top`, no cell is in
two of them, and the window is full unless the list is short. `RemoveAtSeq`, `InsertAtSeq`
and the lemmas on windows (`ShownRemove`, `ShownAppend`, `ShownPrepend`) say what a scroll
or a deletion makes of it, wherever in the list it happens. `CInv` says what a cell can be
in (an animator only with actions, a completion only of what was deleted), `FInv` which
cells fingers are on. From them follow `RowsAlwaysShowItems`, `TheSwipedItemGoes`, that the
item that goes is the one whose row was swiped, and `DragsAreNotCut`. `SwipeRefinement`
maps each row's cell to its phase (`Bar`): a step moves at most one row (`Replaced`) and
resets the cells that leave, so that each action is a step of `SwipeToDelete` or a stutter.

*CoordinatorProofs.* `WorkerAssertions` is what `run_async_notifiers` asserts of the
versions it works with. It is not inductive: a commit that comes while the worker runs
with no lock held sets a version to skip, and the end of that run moves the notifiers and
must not pass it. `During` says that a run goes to a version older than any skip version
set meanwhile, with all the notifiers that are in the main list, so that `handOver` leaves
them behind it; `Ahead` that a delivery which is to advance has a version to advance to.
`IInv` is both with the types and the assertions. Steps of the app and of deliveries leave
the worker alone and share the frame `AppStep`; the three ways to commit share
`CommitStep`, in which every set of records grows with the version; each section of the
worker has a lemma of its own. `TypeCorrect` and `AssertionsHold` follow, whatever the
callbacks do: the three constants about them are arbitrary.

*DeliveryProofs.* `NothingLost` and `ToldAsOfRealm`, for any number of notifiers, callbacks
and versions, under the hypothesis `Instance`: one Realm, whose callbacks do not write, are
not taken off when they were added in the same delivery, and come before their notifier has
run without any. Those are the constants of the run `notifiers`, but for its callbacks, of which the last in a
delivery writes; and each is needed:

- with two Realms, the version that one Realm's commit asks to skip can be overwritten by the
  other Realm, whose notifier has no callbacks and thus nothing to wait for, before the worker
  has looked (`m_notifier_skip_version`, `impl/realm_coordinator.cpp:694`); the worker then
  skips both commits in one go, and `impl/collection_notifier.cpp:423` drops what the second
  one changed;
- a callback that writes takes its Realm past the notifier that is being delivered: a
  callback called next has its initial call at the new version and is told of it again when
  the worker gets there (of the last callback TLC alone shows that it may write);
- the callback of `notifiers_late` is added when the notifier has run without any;
- taking off a callback that was added in the same delivery lowers the count of those to
  call, `m_callback_count`, which it was not part of; from 0 it wraps, and another one added
  meanwhile has its initial call at a version that the worker has left.

The invariant is `DInv`. Its heart is `Kept`: the versions a callback was told of, is about to
be told of, has accumulated and asked to skip make up those between its initial call and
`workerAt`. A delivery in two halves needs `Left` and `Called`, which say the same with the
version the delivery tells of (`Target`), of what it leaves and of what it takes. That a commit
to skip is dropped alone needs `Skips` (the worker will stop right before and right after it)
and `NextOnes` (what comes next is no older than what the Realm shows, and a write transaction
begins with nothing left to tell). `RunInv` and `RowsInv` follow a notifier through a run,
`CallInv` a thread through a delivery. Callbacks are called by their place in a list that others change:
`Below` is the rank in a finite set of tokens, shown to be one-to-one and onto
(`BelowInjective`, `BelowOnto`) and followed through additions and removals (`BelowAdd`,
`BelowRemove`), and `StepBack` shows that the index kept by `removeCallback` passes over nobody.
Each action has a lemma, over the frame `AccountStays` where it leaves the accounts alone.
`NoChangeIsLost` adds the rows; `ToldOfWhatIsShown` is `Called` at the one step that tells.

*SyncSessionsProofs.* `IInv` is the types; `Connected` (a session that is active or dying
has a `sync::Session`); `InUse` (who works with a session works with one that was made);
`Mutexes` (who may hold the manager's and the user's mutex, and that the bound on references
is kept); and `DeathsAhead`, that while a dying session has not uploaded all that was
committed before it began to die, no handler that may end it is due. Each action has a lemma, over the frames
`ThreadStep`, `BecomeStep` and `PlainStep`. `TypeCorrect` follows from `IInv` and
`DeathsAreUploaded` from `DeathsAhead`: no handler of an earlier death ends a session, as
`advance_state` has made those handlers stale.

*SyncWaitersProofs.* `CallbacksKept` says where a completion callback is while it waits:
with one session or with one thread, never with two (`Apart`), and with one of them until
it was called (`Kept`), but for those that a client resync has lost; `MayHold` which threads can have some. Each action either leaves the callbacks
where they are, or moves those of a session that ends to the thread that ended it
(`BecomeMoves`), from there back after a client resync, or calls them. `CallbacksAreKept`
follows, and `DeadSessionsStayDead`: what nobody points to is never revived, as references
come from the registry, the user and other references alone. For `CallbacksAreRegistered`
sessions are made in the order of their numbers (`MadeInOrder`), and `Served` relates a
session's waits to the handler registered with the sync client.

*AppsProofs.* Every app runs as its own specification says, whatever the others do
(`QuizRunsAsSpecified` and its like). The invariant of the egg timer ties the queue to the
label: one closure exactly while the flag is up, and its argument is one less than the
seconds shown; from it follow `SingleCountdown`, `BarFollowsLabel` and `CountdownOrder`. For
the quiz the invariant adds to the types that the
question shown is the current one; `PointsBounded` needs the case of the last question,
where both the number and the score go back to 0 while closures are still posted. For the
title of Flash-Chat it is that what is shown, followed by what is left in reverse, is the
title with nothing lost, and each closure moves one character from one to the other
(`CharacterMoves`). In the story the screen lags by a path of choices as long as there are
closures posted (`Leads`), which a tap extends at one end and a closure shortens at the
other. For the ticker and the weather `Screening` says that the answers queued are the
latest ones in order, and the label the one just before them: answers are handed to the
main queue in the order in which they came, so that each closure shows the next
(`ScreensRefineLatestAnswer`). For the search field `EditsInv` is that of the edits that ended
all but the last have their request, and the last has it or a call of `searchTextEntered` due
(`EditsSearchOnce`).

*ChangeProofs.* The three properties of `ChangeBuilder`, for any number of rows,
instructions, runs of a query and transactions (`ChangesAlwaysRight`, `MovesAlwaysRight`,
`ModificationsAlwaysRight`). They assume only that the bounds are numbers
(`ChangesAssumption`). None of the properties is inductive: that the rows left after the deletions are
those left before the insertions says too little about one row. `Exact(c, x, y, T)` does:
the `k`-th row that stays is at `shift(deletions, k)` in `x` and at `shift(insertions, k)`
in `y`; each move is of one row, with a source of its own; and of the rows that stay or move,
the modifications are those in `T`. `ChangesInv` says that the accumulated changes are exact
from the rows seen to those before the transaction, the transaction's from there to the rows
now, that each row is there once, and that the rows of a list have keys already given. The
argument has four parts:

- `shift` and `unshift` are inverse to each other (`ShiftUnshift`), whence what the
  operations on index sets do to positions, and one lemma per instruction
  (`InsertIsExact`, `EraseIsExact`, `MoveIsExact`, `SwapIsExact`, `ClearIsExact`,
  `ModifyIsExact`);
- `MergeIsExact`: exact changes from `x` to `y` and from `y` to `z` merge into exact ones
  from `x` to `z`, among them moves that go on in another move, moves of rows deleted later,
  moves of rows that came in between, and moves that came to nothing (`CleanUpIsRight`);
- `CalculateIsRight`: any two runs of a query. The matches that `find_longest_matches`
  collects never cross and are of the same rows (`FoundAre`), so the rows no match has are
  the same in both runs, and the others in the same order (`SortedMoves`). Which matches are
  chosen, and so how modified rows are counted (too few, at times: `countFrom`), does not matter
  to the result.
  `LongestMatchIsAMatch` is what `find_longest_match` asserts of its best match;
- `ExactSays`: exact changes are as the properties say, after `finalize` too.

Induction over data is out of the prover's reach as a rule, and is avoided by least
counterexamples: of the positions, steps of a loop or windows where a claim fails there is
one with the least number (`LeastOne`), and it holds there as it holds before. A fold is its
loop (`FoldSteps`), and the recursive function in `find_longest_matches` exists since its
equation has a least solution (`FixpointExists`). For that the model writes its loops as
folds and the recursion as a function on records of window bounds, keeps the rows at given
places with `Picked` rather than `SelectSeq`, which is defined by recursion, and has the
result of `finalize` written as a record.

**Only model-checked.** Liveness and `ENABLED`, which the prover cannot handle: `CookingEnds`,
`TitleCompletes`, `EveryRowComesToRest`, `ChangeArrives`, `WaitEnds`.
And `StandsForTheSet` and `AnswersAreRight`: the loops of `RangeVector` are RECURSIVE
operators, about which the prover's arithmetic backend cannot reason.

## What the checks say about the code

Six runs end in a violation, and each is a finding:

- `notifiers_skips`: a token given to a write transaction *is* notified of it, if a run of
  the notifiers was under way when the transaction was committed. `skip_next` is used up by
  the hand-over of that run, which knows nothing of the transaction yet.
- `notifiers_late`: `m_have_callbacks` is read without the lock, and its comment says that a
  stale value costs nothing but work. When the first callback is added in between, the
  notifier's rows move on without a change set, and the callback is never told.
- `sessions_unregister`: a session that became inactive with nobody referring to it is
  taken out of the registry; who still points to it can resume it, and when it becomes
  inactive again `unregister_session` asserts that it is registered.
- `sync_resync`: a client resync puts the completion callbacks aside, makes the session
  inactive, which lets go of its mutex, and moves them back over what is there by then. A
  callback that another thread handed in between is destroyed and never called, though the
  resync is meant to be transparent to the user.
- `ranges_from`: `IndexSet::count` from a position within a chunk to one in the first range of
  the next chunk leaves that range out. `find_longest_match` asks such ranges for modified
  rows; as only the choice between matches of the same length depends on it, the changes are
  right all the same, whichever is chosen (`CalculateIsRight`).
- `ranges_count`: the builder in `add_shifted_by`, out of the chunks it made, adds one whose
  count is 1, however long the range put there. `verify()` of a debug build would stop.

One more failed assertion is reached by the model and is no run's question: `handle_error` asks
the state of the session in one lock section (`sync_session.cpp:448-454`) and makes the session
inactive in a later one (626, or 481 in a client resync); when it was logged out in between,
`advance_state` asserts that it is not inactive already (756), and `aborted` says so.

In the runs that pass, `NewOnesLeave` and `FirstIsLate` are off, so that the properties
show what else holds. Behaviour that a reader may not expect, and which nothing in the
repository speaks against, is stated in the properties as it is:

- a search in Todoey narrows the search before it, until the text is cleared
  (`ClearingRestores`);
- deleting a category leaves its items in the Realm, in no list (`OneHome`);
- the completion of a deletion resets a cell that may already be dragged again, so that a
  drag within 0.3 s can be cut short (`DragsEndByHand`);
- tapping an answer of the quiz twice scores twice and skips a question
  (`PointsAreQuestions`), and the score label is stale after the last one
  (`LabelStaleOnlyAfterReset`);
- the ticker and the weather show the latest answer, not the answer to the latest request
  (`LatestAnswer`);
- a second tap within 0.2 s in the story takes the second choice of a story not yet shown
  (`ScreenLagsByPosted`);
- a completion callback put back by a client resync may come too late for the handler of
  the new session (`WaitersRegistered`).

## Not modelled

*Coordinator*: `invalidate()` and Realms without a read transaction, autorefresh switched
off, closing Realms, `m_async_error`, the key-value observers of `BindingContext`, and the
change computation of single objects and of lists outside `ChangeBuilder`. *SyncSessions*:
connection states, progress notifiers, `override_server`, deferred commit notification,
management and permission sessions, admin users, metadata and file actions, the early return
when the server's URL is not known, `cancel_waits_on_nonfatal_error` and the explicit
`close()`; client errors that are fatal are modelled (`fatal`) and not in the instance
checked. *ChangeBuilder*: changes per column, the difference of unsorted rows compiled out by
`#if 0`. *RangeVector*: `set` and `clear`. *Results*: its modes and cached view. *SwipeTable*:
left actions, programmatic swipes, VoiceOver and collection views, which the app does not
use. *Todoey*: item times and the keyboard.

*Schema, migrations, keychain, thread-safe references* of the object store are sequential
comparisons and conversions. *Realm core* is in the repository as headers and a binary. The headers are most of the C++
here: what has state in them (the database file, its versions, transactions, tables) is only
declared, and what has a body is templates of query expressions, encodings of the
transaction log and accessors to mapped memory, whose counterparts are in the binary.
*RealmSwift* and the Objective-C bindings forward to the object store. So the models reach a
small share of the lines there are, and most of those of the object store that coordinate.
*Tipsy* and *BMI-Calculator* are one floating-point calculation each, which TLC does not do.
*Xylophone* posts a closure per press that concerns its own key alone. *Dicee* and *Magic 8
Ball* show a random image. *AutoLayout*, *Calculator-Layout* and *iar* have no behaviour.

## Plan

Done: LiveResults and Todoey; SwipeTable with its abstract specification; the six apps; the
object store's notifications, changes and sync sessions; their proofs as above, which state
every safety property of the runs but those of `RangeVector`. Left, in this order:

1. *Object store*: the modes of `Results` (`results.cpp`), shown to implement `LiveResults`;
   both lists of an observed object in `transact_log_handler.cpp`, the one hazard of it that
   no property covers yet.
2. *Composition*: Todoey over SwipeTable, so that gestures and searches interleave.
