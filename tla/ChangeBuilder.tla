---------------------------- MODULE ChangeBuilder -----------------------------
(***************************************************************************)
(* CollectionChangeBuilder: how the object store works out which rows of a  *)
(* collection went, came, moved and were modified.  The changes of a list   *)
(* are built from the instructions of a transaction's log, those of results *)
(* by comparing the rows of two runs; the changes a callback was not told   *)
(* of yet are merged.  Columns are not told apart, and rows are numbers.    *)
(***************************************************************************)
EXTENDS IndexSets, Sequences, SequencesExt, FiniteSetsExt

CONSTANTS MaxSize,                     \* ranges in a chunk of an index set
          MaxListRows, MaxResultRows,  \* bounds: rows of a list, of results
          MaxInstructions, MaxRuns     \* bounds: instructions for a list, runs of a query

ASSUME ChangesAssumption ==
  /\ MaxSize \in Nat \ {0}
  /\ {MaxListRows, MaxResultRows, MaxInstructions, MaxRuns} \subseteq Nat

VARIABLES
  kind,          \* what the notifier is for: "list" or "results"
  seen,          \* the rows when the callback was called last
  before,        \* the rows before this transaction
  rows,          \* the rows now
  changes,       \* the changes of this transaction
  accumulated,   \* Callback::accumulated_changes, those of earlier ones
  touched,       \* the rows modified in this transaction
  touchedBefore, \* and those modified before, since the callback was called
  keys,          \* how many rows were made
  steps          \* of the kind

vars == <<kind, seen, before, rows, changes, accumulated, touched, touchedBefore, keys, steps>>
------------------------------------------------------------------------------
(* The elements of seq at the places, in order.                             *)
Picked(seq, places) ==
  [k \in 1 .. Cardinality(places) |->
     seq[CHOOSE p \in places : Cardinality({q \in places : q < p}) = k - 1]]

NoChanges == [deletions |-> {}, insertions |-> {}, modifications |-> {}, moves |-> <<>>]
IsEmpty(c) == c = NoChanges

(* Mutated: the rows that moved before stay where they were.                *)
insertBeforeMoves(c, i) ==
  [c EXCEPT !.modifications = shift_for_insert_at(@, {i}), !.insertions = insert_at(@, {i})]

(* CollectionChangeBuilder::insert, at one position.                        *)
insert(c, i) ==
  LET shifted(m) == IF m.to >= i THEN [m EXCEPT !.to = @ + 1] ELSE m
  IN [c EXCEPT !.modifications = shift_for_insert_at(@, {i}),
               !.insertions = insert_at(@, {i}),
               !.moves = [k \in DOMAIN @ |-> shifted(@[k])]]

modify(c, i) == [c EXCEPT !.modifications = @ \cup {i}]

(* Mutated: the position is not the one before earlier deletions.           *)
eraseUnshifted(c, i) ==
  [c EXCEPT !.modifications = erase_at(@, {i}),
            !.insertions = erase_at(@, {i}),
            !.deletions = IF i \in c.insertions THEN @ ELSE @ \cup {unshift(c.insertions, i)},
            !.moves = LET others == Picked(@, {k \in DOMAIN @ : @[k].to # i})
                      IN [k \in DOMAIN others |->
                            IF others[k].to > i THEN [others[k] EXCEPT !.to = @ - 1] ELSE others[k]]]

erase(c, i) ==
  [c EXCEPT !.modifications = erase_at(@, {i}),
            !.insertions = erase_at(@, {i}),
            !.deletions = IF i \in c.insertions THEN @
                          ELSE add_shifted(@, unshift(c.insertions, i)),
            !.moves = LET others == Picked(@, {k \in DOMAIN @ : @[k].to # i})
                      IN [k \in DOMAIN others |->
                            IF others[k].to > i THEN [others[k] EXCEPT !.to = @ - 1] ELSE others[k]]]

clear(c, old_size) ==
  [NoChanges EXCEPT !.deletions =
     0 .. old_size + Cardinality(c.deletions) - Cardinality(c.insertions) - 1]

(* A row that came with these changes is not said to move.                  *)
move(c, from, to) ==
  LET shifted(m) ==
        IF m.to = from THEN [m EXCEPT !.to = to]
        ELSE IF m.to >= to /\ m.to < from THEN [m EXCEPT !.to = @ + 1]
        ELSE IF m.to <= to /\ m.to > from THEN [m EXCEPT !.to = @ - 1]
        ELSE m
      moves == [k \in DOMAIN c.moves |-> shifted(c.moves[k])]
      came == from \in c.insertions
      shifted_from == shift(c.deletions, unshift(c.insertions, from))
  IN [deletions |-> IF came THEN c.deletions ELSE c.deletions \cup {shifted_from},
      insertions |-> insert_at(erase_at(c.insertions, {from}), {to}),
      modifications |->
        LET others == erase_at(c.modifications, {from})
        IN IF from \in c.modifications THEN insert_at(others, {to})
           ELSE shift_for_insert_at(others, {to}),
      moves |-> IF came THEN moves ELSE Append(moves, [from |-> shifted_from, to |-> to])]

(* Moves that came to nothing, since the rows between are gone.             *)
clean_up_stale_moves(c) ==
  FoldLeft(LAMBDA acc, m :
             IF m.from - count(acc.deletions, m.from) = m.to - count(acc.insertions, m.to)
             THEN [acc EXCEPT !.deletions = @ \ {m.from}, !.insertions = @ \ {m.to}]
             ELSE [acc EXCEPT !.moves = Append(@, m)],
           [c EXCEPT !.moves = <<>>], c.moves)
------------------------------------------------------------------------------
(* The last takes the place of the one that goes.                           *)
without(seq, m) ==
  [k \in 1 .. Len(seq) - 1 |-> IF seq[k] = m THEN seq[Len(seq)] ELSE seq[k]]

(* The moves made before, brought up to date with the changes c: they may   *)
(* go on in a move of c, which is then left out of c.                       *)
updateMoves(moves, c) ==
  FoldLeft(LAMBDA acc, old :
             LET again == {m \in ToSet(acc.c.moves) : m.from = old.to}
                 next == CHOOSE m \in again : TRUE
             IN IF again # {}
                THEN [moves |-> Append(acc.moves, [old EXCEPT !.to = next.to]),
                      c |-> [acc.c EXCEPT !.moves = without(@, next)]]
                ELSE IF old.to \in c.deletions THEN acc
                ELSE [acc EXCEPT !.moves =
                        Append(@, [old EXCEPT !.to = shift(c.insertions, unshift(c.deletions, @))])],
           [moves |-> <<>>, c |-> c], moves)

merge(self, c) ==
  IF IsEmpty(c) THEN self
  ELSE IF IsEmpty(self) THEN c
  ELSE
    LET updated == updateMoves(self.moves, c)
        fresh == {k \in DOMAIN updated.c.moves : updated.c.moves[k].from \notin self.insertions}
        newMoves == Picked(updated.c.moves, fresh)
        compensated == [k \in DOMAIN newMoves |->
          [newMoves[k] EXCEPT !.from = shift(self.deletions, unshift(self.insertions, @))]]
        movedOn == {m \in ToSet(c.moves) : m.from \in self.modifications
                      /\ (m \in ToSet(newMoves) \/ m \notin ToSet(updated.c.moves))}
        cleaned == clean_up_stale_moves(
          [deletions |-> add_shifted_by(self.deletions, self.insertions, c.deletions),
           insertions |-> insert_at(erase_at(self.insertions, c.deletions), c.insertions),
           modifications |-> {},
           moves |-> updated.moves \o compensated])
    IN [cleaned EXCEPT !.modifications =
          shift_for_insert_at(erase_at(self.modifications, c.deletions), c.insertions)
            \cup c.modifications \cup {m.to : m \in movedOn}]

(* Mutated: the insertions are taken out after the deletions were put in.   *)
finalizeSwapped(c) ==
  [deletions |-> c.deletions, insertions |-> c.insertions, moves |-> c.moves,
   modifications |-> c.modifications \ c.insertions,
   modificationsInOld |-> erase_at(shift_for_insert_at(c.modifications, c.deletions), c.insertions)]

(* What a callback is given: the positions of modified rows among the old   *)
(* rows and among the new.                                                  *)
finalize(c) ==
  [deletions |-> c.deletions, insertions |-> c.insertions, moves |-> c.moves,
   modifications |-> c.modifications \ c.insertions,
   modificationsInOld |-> shift_for_insert_at(erase_at(c.modifications, c.insertions), c.deletions)]
------------------------------------------------------------------------------
(* LongestCommonSubsequenceCalculator.  a and b are the rows in both runs,  *)
(* by their old and by their new places; places count from 0.               *)
placeIn(b, key) == CHOOSE j \in 0 .. Len(b) - 1 : b[j + 1] = key

(* How many ranges of S end before i.                                       *)
rangesBefore(S, i) == Cardinality({e \in S : e < i /\ e + 1 \notin S})

(* count(from, to) of a set whose positions were added in order, so that    *)
(* all chunks but the last are full.  It starts with the rest of a chunk if *)
(* it starts within one, and if it ends in the first range of the next, it  *)
(* leaves that range out.                                                   *)
countFrom(S, from, to) ==
  LET within == {i \in S : from <= i /\ i < to}
      first == Min(within)
      last == rangesBefore(S, to - 1)
      cut == /\ to - 1 \in within
             /\ last = (rangesBefore(S, first) \div MaxSize + 1) * MaxSize
             /\ first - 1 \in S \/ rangesBefore(S, first) % MaxSize # 0
  IN Cardinality({i \in within : cut => rangesBefore(S, i) # last})

(* Of two matches of one length the one with fewer modified rows is taken;  *)
(* for the best so far the rows before its first are counted, and none when *)
(* that underflows.  The match is looked for in the window w.               *)
longest_so_far(a, b, mods, w, acc, i) ==
  LET mCount(from, to) == IF from < 0 THEN 0 ELSE countFrom(mods, from, to)
      j == placeIn(b, a[i + 1])
      size == IF acc.prev.j + 1 = j /\ acc.prev.len > 0 THEN acc.prev.len + 1 ELSE 1
      best == acc.best
      match == [i |-> i - size + 1, j |-> j - size + 1, size |-> size, modified |-> -1]
      bestModified == IF best.modified = -1 THEN mCount(best.j - size + 1, best.j + 1)
                      ELSE best.modified
      modified == mCount(j - size + 1, j + 1)
  IN IF j < w.begin2 \/ j >= w.end2 THEN [acc EXCEPT !.prev = [j |-> 0, len |-> 0]]
     ELSE [prev |-> [j |-> j, len |-> size],
           best |-> IF size > best.size THEN match
                    ELSE IF size < best.size THEN best
                    ELSE IF modified < bestModified THEN [match EXCEPT !.modified = modified]
                    ELSE [best EXCEPT !.modified = bestModified]]

find_longest_match(a, b, mods, w) ==
  FoldLeft(LAMBDA acc, i : longest_so_far(a, b, mods, w, acc, i),
           [prev |-> [j |-> 0, len |-> 0],
            best |-> [i |-> w.begin1, j |-> w.begin2, size |-> 0, modified |-> 0]],
           [k \in 1 .. w.end1 - w.begin1 |-> w.begin1 + k - 1]).best

(* The longest first, then those before it in both and those after it.      *)
find_longest_matches(a, b, mods, first) ==
  LET places == 0 .. Len(a)
      found[w \in [begin1 : places, end1 : places, begin2 : places, end2 : places]] ==
        LET m == find_longest_match(a, b, mods, w)
        IN IF m.size = 0 THEN {}
           ELSE {m}
             \cup (IF m.i > w.begin1 /\ m.j > w.begin2
                   THEN found[[w EXCEPT !.end1 = m.i, !.end2 = m.j]] ELSE {})
             \cup (IF m.i + m.size < w.end2 /\ m.j + m.size < w.end2
                   THEN found[[w EXCEPT !.begin1 = m.i + m.size, !.begin2 = m.j + m.size]] ELSE {})
  IN found[[begin1 |-> first, end1 |-> Len(a), begin2 |-> first, end2 |-> Len(b)]]

(* The places in the new run of the rows no match has, and in the old run.  *)
calculate_moves_sorted(a, b, mods) ==
  LET differ == {i \in 0 .. Len(a) - 1 : a[i + 1] # b[i + 1]}
      first == Min(differ)
      matches == find_longest_matches(a, b, mods, first)
  IN IF differ = {} THEN [a |-> {}, b |-> {}]
     ELSE [a |-> {i \in first .. Len(a) - 1 :
                    ~\E m \in matches : m.i <= i /\ i < m.i + m.size},
           b |-> {j \in first .. Len(b) - 1 :
                    ~\E m \in matches : m.j <= j /\ j < m.j + m.size}]

(* CollectionChangeBuilder::calculate.                                      *)
calculate(prev_rows, next_rows, changed, in_table_order) ==
  LET places(rs, kept) == {i \in 0 .. Len(rs) - 1 : rs[i + 1] \in kept}
      common == ToSet(prev_rows) \cap ToSet(next_rows)
      a == Picked(prev_rows, {k \in DOMAIN prev_rows : prev_rows[k] \in common})
      b == Picked(next_rows, {k \in DOMAIN next_rows : next_rows[k] \in common})
      modifications == places(next_rows, common \cap changed)
      moved == IF in_table_order THEN [a |-> {}, b |-> {}]
               ELSE calculate_moves_sorted(a, b, modifications)
  IN [NoChanges EXCEPT
        !.deletions = places(prev_rows, (ToSet(prev_rows) \ common) \cup {a[i + 1] : i \in moved.a}),
        !.insertions = places(next_rows, (ToSet(next_rows) \ common) \cup {b[j + 1] : j \in moved.b}),
        !.modifications = modifications]
------------------------------------------------------------------------------
Init ==
  /\ \/ kind = "list" /\ keys \in 0 .. MaxListRows
     \/ kind = "results" /\ keys \in 0 .. MaxResultRows
  /\ seen = [k \in 1 .. keys |-> k] /\ before = seen /\ rows = seen
  /\ changes = NoChanges /\ accumulated = NoChanges
  /\ touched = {} /\ touchedBefore = {} /\ steps = 0

InTableOrder(rs) == \A k \in 1 .. Len(rs) - 1 : rs[k] < rs[k + 1]

OneStep == steps' = steps + 1
Instruction == kind = "list" /\ steps < MaxInstructions /\ OneStep
BetweenCallbacks == <<kind, seen, before, accumulated, touchedBefore>>

(* TransactLogObserver: the instructions for a list.                        *)
list_set(i) ==
  /\ Instruction /\ i < Len(rows)
  /\ touched' = touched \cup {rows[i + 1]}
  /\ changes' = modify(changes, i)
  /\ UNCHANGED <<rows, keys, BetweenCallbacks>>

list_insert(i) ==
  /\ Instruction /\ Len(rows) < MaxListRows /\ i <= Len(rows)
  /\ keys' = keys + 1
  /\ rows' = InsertAt(rows, i + 1, keys')
  /\ changes' = insert(changes, i)
  /\ UNCHANGED <<touched, BetweenCallbacks>>

list_erase(i) ==
  /\ Instruction /\ i < Len(rows)
  /\ rows' = RemoveAt(rows, i + 1)
  /\ changes' = erase(changes, i)
  /\ UNCHANGED <<keys, touched, BetweenCallbacks>>

list_move(from, to) ==
  /\ Instruction /\ from < Len(rows) /\ to < Len(rows) /\ from # to
  /\ rows' = InsertAt(RemoveAt(rows, from + 1), to + 1, rows[from + 1])
  /\ changes' = move(changes, from, to)
  /\ UNCHANGED <<keys, touched, BetweenCallbacks>>

(* A swap is two moves.                                                     *)
list_swap(index1, index2) ==
  /\ Instruction /\ index1 < index2 /\ index2 < Len(rows)
  /\ rows' = [rows EXCEPT ![index1 + 1] = rows[index2 + 1], ![index2 + 1] = rows[index1 + 1]]
  /\ LET moved == move(changes, index1, index2)
     IN changes' = IF index1 + 1 = index2 THEN moved ELSE move(moved, index2 - 1, index1)
  /\ UNCHANGED <<keys, touched, BetweenCallbacks>>

list_clear ==
  /\ Instruction /\ rows # <<>>
  /\ rows' = <<>>
  /\ changes' = clear(changes, Len(rows))
  /\ UNCHANGED <<keys, touched, BetweenCallbacks>>

(* What the query may return: rows there are, and new ones, which are named *)
(* in the order they are returned.                                          *)
NewOnes(rs) == Picked(rs, {k \in DOMAIN rs : rs[k] > keys})
Runs == {rs \in SeqOf(1 .. keys + MaxResultRows, MaxResultRows) :
           IsInjective(rs) /\ NewOnes(rs) = [k \in DOMAIN NewOnes(rs) |-> keys + k]}

(* ResultsNotifier: the query ran, once in a transaction.                   *)
calculate_changes ==
  /\ kind = "results" /\ steps < MaxRuns /\ changes = NoChanges /\ touched = {} /\ OneStep
  /\ \E next_rows \in Runs, changed \in SUBSET ToSet(rows), in_table_order \in BOOLEAN :
       /\ in_table_order => InTableOrder(rows) /\ InTableOrder(next_rows)
       /\ keys' = keys + Len(NewOnes(next_rows))
       /\ rows' = next_rows /\ touched' = changed
       /\ changes' = calculate(rows, next_rows, changed, in_table_order)
  /\ UNCHANGED BetweenCallbacks

(* The end of the transaction: parse_complete for lists, add_changes.       *)
add_changes ==
  /\ changes # NoChanges \/ touched # {}
  /\ accumulated' = merge(accumulated, IF kind = "list" THEN clean_up_stale_moves(changes)
                                       ELSE changes)
  /\ before' = rows
  /\ touchedBefore' = touchedBefore \cup touched
  /\ changes' = NoChanges /\ touched' = {}
  /\ UNCHANGED <<kind, seen, rows, keys, steps>>

Positions == 0 .. MaxListRows

Next ==
  \/ \E i \in Positions : list_set(i) \/ list_insert(i) \/ list_erase(i)
  \/ \E i, j \in Positions : list_move(i, j) \/ list_swap(i, j)
  \/ list_clear \/ calculate_changes \/ add_changes

Spec == Init /\ [][Next]_vars
------------------------------------------------------------------------------
(* The rows of rs that are not at the positions S, in their order.          *)
Others(rs, S) == Picked(rs, {k \in DOMAIN rs : k - 1 \notin S})

TurnsInto(c, old, new) ==
  /\ c.deletions \subseteq 0 .. Len(old) - 1 /\ c.insertions \subseteq 0 .. Len(new) - 1
  /\ Others(old, c.deletions) = Others(new, c.insertions)

(* Taking away the deletions and putting in the insertions turns the rows   *)
(* the callback saw into those of the last transaction, and these into the  *)
(* rows now: a table animated by the changes shows what is in the database. *)
ChangesAreRight ==
  TurnsInto(accumulated, seen, before) /\ TurnsInto(changes, before, rows)

MovesOf(c, old, new) ==
  /\ \A m \in ToSet(c.moves) :
       m.from \in c.deletions /\ m.to \in c.insertions /\ old[m.from + 1] = new[m.to + 1]
  /\ IsInjective(c.moves)

(* A move is of one row, which the old rows have at its source and the new  *)
(* ones at its destination, and it is among the deletions and the           *)
(* insertions; so it is after rows moved twice, moved and were deleted, or  *)
(* moved in several transactions.                                           *)
MovesAreRight ==
  MovesOf(accumulated, seen, before) /\ MovesOf(changes, before, rows)

(* A callback is given every row that was modified and neither came nor     *)
(* moved, where it was and where it is, and no other row.                   *)
ModificationsOf(c, old, new, modifiedRows) ==
  LET f == finalize(c)
      kept == ToSet(Others(new, c.insertions))
  IN /\ {new[i + 1] : i \in f.modifications} = modifiedRows \cap kept
     /\ {old[i + 1] : i \in f.modificationsInOld} = modifiedRows \cap kept

ModificationsAreRight ==
  /\ ModificationsOf(accumulated, seen, before, touchedBefore)
  /\ ModificationsOf(changes, before, rows, touched)
==============================================================================
