----------------------------- MODULE RangeVector ------------------------------
(***************************************************************************)
(* How the object store's IndexSet keeps a set of positions: as ranges      *)
(* <<first, second>>, second not included, in chunks of at most MaxSize     *)
(* that remember where they begin and end and how many positions they hold. *)
(* One index set is operated on; the set it stands for is kept beside it,   *)
(* with the operations of IndexSets.                                        *)
(***************************************************************************)
EXTENDS Integers, Sequences, SequencesExt, FiniteSetsExt

CONSTANTS MaxSize,      \* ranges in a chunk
          MaxIndex,     \* bound: positions in the set
          MaxOther      \* bound: positions in the other set of an operation

RangesAssumption == MaxSize \in Nat \ {0} /\ MaxIndex \in Nat /\ MaxOther \in Nat

Set == INSTANCE IndexSets

VARIABLES v,      \* the chunks, m_data
          set,    \* the positions they stand for
          copied, \* the last operation was add_shifted_by
          right   \* it returned what it was to return

vars == <<v, set, copied, right>>
------------------------------------------------------------------------------
(* Iterators: the place of a chunk and of a range in it.                    *)
Start == <<1, 1>>
End(u) == <<Len(u) + 1, 1>>
AtEnd(u, p) == p = End(u)
At(u, p) == u[p[1]].data[p[2]]
Following(u, p) == IF p[2] < Len(u[p[1]].data) THEN <<p[1], p[2] + 1>> ELSE <<p[1] + 1, 1>>
Preceding(u, p) == IF p[2] > 1 THEN <<p[1], p[2] - 1>> ELSE <<p[1] - 1, Len(u[p[1] - 1].data)>>

SizeOf(range) == range[2] - range[1]
SizesOf(data) == FoldLeft(LAMBDA n, range : n + SizeOf(range), 0, data)
Chunk(data) == [data |-> data, begin |-> data[1][1], end |-> data[Len(data)][2],
                count |-> SizesOf(data)]

(* MutableChunkedRangeVectorIterator.                                       *)
adjust(u, p, front, back) ==
  [u EXCEPT ![p[1]] =
     [data |-> [@.data EXCEPT ![p[2]] = <<@[1] + front, @[2] + back>>],
      begin |-> IF p[2] = 1 THEN @.begin + front ELSE @.begin,
      end |-> IF p[2] = Len(@.data) THEN @.end + back ELSE @.end,
      count |-> @.count - front + back]]

setRange(u, p, front, back) ==
  [u EXCEPT ![p[1]] =
     [data |-> [@.data EXCEPT ![p[2]] = <<front, back>>],
      begin |-> IF p[2] = 1 THEN front ELSE @.begin,
      end |-> IF p[2] = Len(@.data) THEN back ELSE @.end,
      count |-> @.count - SizeOf(@.data[p[2]]) + back - front]]

RECURSIVE shiftFrom(_, _, _)
shiftFrom(u, p, distance) ==
  IF AtEnd(u, p) THEN u
  ELSE shiftFrom(adjust(u, p, distance, distance), Following(u, p), distance)

(* ChunkedRangeVector.  What returns an iterator too is a record of both.   *)
push_back(u, range) ==
  IF u # <<>> /\ Len(u[Len(u)].data) < MaxSize
  THEN [u EXCEPT ![Len(u)] = [@ EXCEPT !.data = Append(@, range), !.end = range[2],
                                       !.count = @ + SizeOf(range)]]
  ELSE Append(u, Chunk(<<range>>))

(* Mutated: the half that stays remembers the positions of the whole.       *)
ensureSpaceKeepingCount(u, p) ==
  LET full == u[p[1]]
      to_move == MaxSize \div 2
      stay == SubSeq(full.data, 1, Len(full.data) - to_move)
      moved == Chunk(SubSeq(full.data, Len(stay) + 1, Len(full.data)))
      prev == [full EXCEPT !.data = stay, !.end = stay[Len(stay)][2]]
  IN IF Len(full.data) + 1 <= MaxSize THEN [v |-> u, p |-> p]
     ELSE [v |-> InsertAt([u EXCEPT ![p[1]] = prev], p[1] + 1, moved),
           p |-> IF p[2] - 1 >= to_move THEN <<p[1] + 1, p[2] - to_move>> ELSE p]

(* A full chunk is split in half.                                           *)
ensure_space(u, p) ==
  LET full == u[p[1]]
      to_move == MaxSize \div 2
      stay == SubSeq(full.data, 1, Len(full.data) - to_move)
      moved == Chunk(SubSeq(full.data, Len(stay) + 1, Len(full.data)))
      prev == [full EXCEPT !.data = stay, !.end = stay[Len(stay)][2], !.count = @ - moved.count]
  IN IF Len(full.data) + 1 <= MaxSize THEN [v |-> u, p |-> p]
     ELSE [v |-> InsertAt([u EXCEPT ![p[1]] = prev], p[1] + 1, moved),
           p |-> IF p[2] - 1 >= to_move THEN <<p[1] + 1, p[2] - to_move>> ELSE p]

insert(u, p, range) ==
  LET s == ensure_space(u, p)
      inserted == [s.v EXCEPT ![s.p[1]] =
        [data |-> InsertAt(@.data, s.p[2], range), count |-> @.count + SizeOf(range),
         begin |-> Min({@.begin, range[1]}), end |-> Max({@.end, range[2]})]]
      pushed == push_back(u, range)
  IN IF AtEnd(u, p) THEN [v |-> pushed, p |-> Preceding(pushed, End(pushed))]
     ELSE [v |-> inserted, p |-> s.p]

erase(u, p) ==
  LET chunk == u[p[1]]
      data == RemoveAt(chunk.data, p[2])
  IN IF data = <<>> THEN [v |-> RemoveAt(u, p[1]), p |-> <<p[1], 1>>]
     ELSE [v |-> [u EXCEPT ![p[1]] =
             [data |-> data, begin |-> data[1][1], end |-> data[Len(data)][2],
              count |-> chunk.count - SizeOf(chunk.data[p[2]])]],
           p |-> IF p[2] <= Len(data) THEN p ELSE <<p[1] + 1, 1>>]
------------------------------------------------------------------------------
(* The range that holds the position, or the first after it.                *)
find(u, index, from) ==
  LET outers == {o \in from[1] .. Len(u) : u[o].end > index}
      o == Min(outers)
      inners == {k \in DOMAIN u[o].data : u[o].data[k][2] > index /\ (o = from[1] => k >= from[2])}
  IN IF outers = {} THEN End(u)
     ELSE IF index < u[o].begin THEN <<o, 1>> ELSE <<o, Min(inners)>>

do_add(u, p, index) ==
  LET before == p # Start
      prev == Preceding(u, p)
      valid == ~AtEnd(u, p)
      extended == adjust(u, prev, 0, 1)
      joined == erase(adjust(extended, prev, 0, SizeOf(At(u, p))), p)
  IN IF valid /\ At(u, p)[1] <= index /\ index < At(u, p)[2] THEN [v |-> u, p |-> p]
     ELSE IF before /\ At(u, prev)[2] = index
     THEN IF valid /\ index + 1 = At(u, p)[1]
          THEN [v |-> joined.v, p |-> Preceding(joined.v, joined.p)]
          ELSE [v |-> extended, p |-> prev]
     ELSE IF valid /\ At(u, p)[1] = index + 1 THEN [v |-> adjust(u, p, -1, 0), p |-> p]
     ELSE insert(u, p, <<index, index + 1>>)

add(u, index) == do_add(u, find(u, index, Start), index).v

do_erase(u, p, index) ==
  LET range == At(u, p)
      prev == Preceding(u, p)
      gone == IF range[1] <= index
              THEN IF range[1] + 1 = range[2] THEN erase(u, p)
                   ELSE [v |-> adjust(u, p, 0, -1), p |-> Following(u, p)]
              ELSE IF p # Start /\ At(u, prev)[2] + 1 = range[1]
              THEN erase(adjust(u, prev, 0, SizeOf(range)), p)
              ELSE [v |-> u, p |-> p]
  IN shiftFrom(gone.v, gone.p, -1)

RECURSIVE do_remove(_, _, _, _)
do_remove(u, from, begin, end) ==
  LET p == find(u, begin, from)
      range == At(u, p)
      b == Max({range[1], begin})
      split == insert(setRange(u, p, range[1], b), Following(u, p), <<end, range[2]>>)
  IN IF AtEnd(u, p) \/ range[1] >= end THEN [v |-> u, p |-> p]
     ELSE IF range[1] < b /\ range[2] > end
     THEN do_remove(split.v, Preceding(split.v, split.p), b, end)
     ELSE IF b = range[1] /\ end >= range[2]
     THEN LET e == erase(u, p) IN do_remove(e.v, e.p, b, end)
     ELSE IF b = range[1] THEN do_remove(setRange(u, p, end, range[2]), p, b, end)
     ELSE do_remove(setRange(u, p, range[1], b), p, b, end)
------------------------------------------------------------------------------
ranges(u) == FoldLeft(LAMBDA seq, chunk : seq \o chunk.data, <<>>, u)
singles(range) == [k \in 1 .. SizeOf(range) |-> range[1] + k - 1]
as_indexes(u) == FoldLeft(LAMBDA seq, range : seq \o singles(range), <<>>, ranges(u))

contains(u, index) == LET p == find(u, index, Start) IN ~AtEnd(u, p) /\ At(u, p)[1] <= index

(* shift: the ranges up to where the position has come.                     *)
shift(u, index) ==
  FoldLeft(LAMBDA i, range : IF range[1] > i THEN i ELSE i + SizeOf(range), index, ranges(u))

(* From the beginning of a chunk: complete chunks by what they remember,    *)
(* then complete ranges, then part of a range.                              *)
RECURSIVE countChunks(_, _, _), countRanges(_, _, _)
countChunks(u, o, to) ==
  IF o > Len(u) \/ u[o].end > to THEN countRanges(u, <<o, 1>>, to)
  ELSE u[o].count + countChunks(u, o + 1, to)
countRanges(u, p, to) ==
  IF AtEnd(u, p) \/ At(u, p)[1] >= to THEN 0
  ELSE IF At(u, p)[2] > to THEN to - At(u, p)[1]
  ELSE SizeOf(At(u, p)) + countRanges(u, Following(u, p), to)

(* From within a chunk: what is left of it, then as above; but where the    *)
(* first range of the next chunk reaches to, it is left out.                *)
count(u, from, to) ==
  LET p == find(u, from, Start)
      later == SubSeq(u[p[1]].data, p[2] + 1, Len(u[p[1]].data))
      whole == SelectSeq(later, LAMBDA range : range[2] < to)
      rest == At(u, p)[2] - Max({At(u, p)[1], from}) + SizesOf(whole)
  IN IF AtEnd(u, p) \/ At(u, p)[1] >= to THEN 0
     ELSE IF At(u, p)[2] >= to THEN to - Max({At(u, p)[1], from})
     ELSE IF p[2] = 1 /\ from <= At(u, p)[1] THEN countChunks(u, p[1], to)
     ELSE IF whole # later THEN rest + Max({0, to - later[Len(whole) + 1][1]})
     ELSE IF p[1] = Len(u) \/ u[p[1] + 1].data[1][2] >= to THEN rest
     ELSE rest + countChunks(u, p[1] + 1, to)

unshift(u, index) == index - count(u, 0, index)

(* Complete chunks before the position, then ranges.                        *)
RECURSIVE skipChunks(_, _, _), skipRanges(_, _, _)
skipChunks(u, o, index) ==
  IF o > Len(u) \/ u[o].end > index THEN skipRanges(u, <<o, 1>>, index)
  ELSE skipChunks(u, o + 1, index + u[o].count)
skipRanges(u, p, index) ==
  IF AtEnd(u, p) \/ At(u, p)[1] > index THEN [p |-> p, index |-> index]
  ELSE skipRanges(u, Following(u, p), index + SizeOf(At(u, p)))

add_shifted(u, index) ==
  LET to == skipChunks(u, 1, index)
  IN [v |-> do_add(u, to.p, to.index).v, index |-> to.index]

RECURSIVE passChunks(_, _, _, _), passRanges(_, _, _, _)
passChunks(u, o, index, shifted) ==
  IF o > Len(u) \/ u[o].end > index THEN passRanges(u, <<o, 1>>, index, shifted)
  ELSE passChunks(u, o + 1, index, shifted - u[o].count)
passRanges(u, p, index, shifted) ==
  IF AtEnd(u, p) \/ At(u, p)[2] > index THEN [p |-> p, shifted |-> shifted]
  ELSE passRanges(u, Following(u, p), index, shifted - SizeOf(At(u, p)))

npos == -1

erase_or_unshift(u, index) ==
  LET to == passChunks(u, 1, index, index)
  IN IF AtEnd(u, to.p) THEN [v |-> u, index |-> to.shifted]
     ELSE [v |-> do_erase(u, to.p, index),
           index |-> IF At(u, to.p)[1] <= index THEN npos ELSE to.shifted]

erase_at(u, index) ==
  LET p == find(u, index, Start) IN IF AtEnd(u, p) THEN u ELSE do_erase(u, p, index)

RECURSIVE addFrom(_, _, _, _)
addFrom(u, p, index, n) ==
  IF n = 0 THEN u
  ELSE LET a == do_add(u, p, index) IN addFrom(a.v, Following(a.v, a.p), index + 1, n - 1)

insert_at(u, index, n) ==
  LET p == find(u, index, Start)
  IN IF AtEnd(u, p) THEN addFrom(u, p, index, n)
     ELSE IF At(u, p)[1] <= index
     THEN shiftFrom(adjust(u, p, 0, n), Following(u, p), n)
     ELSE addFrom(shiftFrom(u, p, n), p, index, n)

(* Mutated: a range around the place is not split.                          *)
shiftWithoutSplit(u, index, n) ==
  LET p == find(u, index, Start) IN IF AtEnd(u, p) THEN u ELSE shiftFrom(u, p, n)

(* A range around the place is split.                                       *)
shift_for_insert_at(u, index, n) ==
  LET p == find(u, index, Start)
      shifted == shiftFrom(u, p, n)
      range == At(shifted, p)
      cut == setRange(shifted, p, range[1] - n, index)
  IN IF AtEnd(u, p) THEN u
     ELSE IF range[1] >= index + n THEN shifted
     ELSE insert(cut, Following(cut, p), <<index + n, range[2]>>).v
------------------------------------------------------------------------------
(* ChunkedRangeVectorBuilder: there is room for the ranges of expected and  *)
(* some more, and chunks are added when it is full; the end of a chunk is   *)
(* set when it is left.                                                     *)
builder(expected) == [m_data |-> <<>>, room |-> Len(ranges(expected)) \div MaxSize + 1]

push(b, range) ==
  LET pos == Len(b.m_data)
      data == b.m_data[pos].data
      back == data[Len(data)]
      closed == [b.m_data EXCEPT ![pos].end = back[2]]
      opened == [Chunk(<<range>>) EXCEPT !.end = 0]
      with(d) == [b EXCEPT !.m_data[pos].data = d, !.m_data[pos].count = @ + SizeOf(range)]
  IN IF pos = 0 THEN [b EXCEPT !.m_data = <<opened>>]
     ELSE IF range[1] = back[2] THEN with([data EXCEPT ![Len(data)] = <<back[1], range[2]>>])
     ELSE IF Len(data) < MaxSize THEN with(Append(data, range))
     ELSE IF pos >= b.room THEN [b EXCEPT !.m_data = Append(closed, [opened EXCEPT !.count = 1])]
     ELSE [b EXCEPT !.m_data = Append(closed, opened)]

built(b) ==
  LET data == b.m_data[Len(b.m_data)].data
  IN IF b.m_data = <<>> THEN <<>> ELSE [b.m_data EXCEPT ![Len(b.m_data)].end = data[Len(data)][2]]

pushAll(b, rs) == FoldLeft(push, b, rs)
single(i) == <<i, i + 1>>

RECURSIVE insertAll(_, _, _, _, _)
insertAll(b, these, others, n, keep) ==
  IF these = <<>> /\ (others = <<>> \/ ~keep) THEN b
  ELSE IF others = <<>> \/ (these # <<>> /\ these[1] + n < others[1])
  THEN insertAll(push(b, single(these[1] + n)), Tail(these), others, n, keep)
  ELSE insertAll(IF keep THEN push(b, single(others[1])) ELSE b, these, Tail(others), n + 1, keep)

insert_at_all(u, other) ==
  IF other = <<>> THEN u
  ELSE IF u = <<>> THEN other
  ELSE built(insertAll(builder(u), as_indexes(u), as_indexes(other), 0, TRUE))

shift_for_insert_at_all(u, other) ==
  IF u = <<>> \/ other = <<>> \/ other[1].begin >= u[Len(u)].end THEN u
  ELSE built(insertAll(builder(u), as_indexes(u), as_indexes(other), 0, FALSE))

RECURSIVE eraseAll(_, _, _, _)
eraseAll(b, these, others, n) ==
  IF these = <<>> THEN b
  ELSE IF others = <<>> \/ these[1] < others[1]
  THEN eraseAll(push(b, single(these[1] - n)), Tail(these), others, n)
  ELSE eraseAll(b, IF these[1] = others[1] THEN Tail(these) ELSE these, Tail(others), n + 1)

erase_at_all(u, other) ==
  IF u = <<>> \/ other = <<>> THEN u
  ELSE built(eraseAll(builder(u), as_indexes(u), as_indexes(other), 0))

(* For each value: the ranges of shifted_by up to it, those of u up to where*)
(* it comes, and the value itself; the ranges of u that are left in the end.*)
RECURSIVE addAll(_, _, _, _)
addAll(acc, old, by, values) ==
  IF values = <<>> THEN pushAll(acc.b, old)
  ELSE LET index == values[1]
           at == index - acc.new + acc.old
       IN IF by # <<>> /\ by[1][1] <= index
          THEN addAll([acc EXCEPT !.new = @ + SizeOf(by[1]), !.skip = by[1][2]], old, Tail(by), values)
          ELSE IF index < acc.skip THEN addAll(acc, old, by, Tail(values))
          ELSE IF old # <<>> /\ old[1][1] <= at
          THEN addAll([acc EXCEPT !.b = pushAll(@, [k \in DOMAIN singles(old[1]) |-> single(singles(old[1])[k])]),
                                  !.old = @ + SizeOf(old[1])], Tail(old), by, values)
          ELSE addAll([acc EXCEPT !.b = push(@, single(at))], old, by, Tail(values))

add_shifted_by(u, shifted_by, values) ==
  IF values = <<>> THEN u
  ELSE built(addAll([b |-> builder(u), new |-> 0, old |-> 0, skip |-> 0],
                    ranges(u), ranges(shifted_by), as_indexes(values)))

(* The other sets of an operation were made by adding their positions.      *)
Made(S) == FoldLeft(add, <<>>, SetToSortSeq(S, LAMBDA i, j : i < j))

RECURSIVE addEach(_, _, _)
addEach(u, p, values) ==
  IF values = <<>> THEN u
  ELSE LET a == do_add(u, find(u, values[1], p), values[1]) IN addEach(a.v, a.p, Tail(values))

RECURSIVE removeEach(_, _, _)
removeEach(u, p, rs) ==
  IF rs = <<>> THEN u
  ELSE LET r == do_remove(u, p, rs[1][1], rs[1][2])
       IN IF AtEnd(r.v, r.p) THEN r.v ELSE removeEach(r.v, r.p, Tail(rs))
------------------------------------------------------------------------------
(* What verify asserts in debug builds.                                     *)
chunksVerified(u) ==
  LET rs == ranges(u)
  IN /\ \A k \in DOMAIN rs : rs[k][1] < rs[k][2] /\ (k > 1 => rs[k - 1][2] < rs[k][1])
     /\ \A o \in DOMAIN u : u[o].data # <<>> /\ Len(u[o].data) <= MaxSize
                            /\ u[o].begin = u[o].data[1][1]
                            /\ u[o].end = u[o].data[Len(u[o].data)][2]
countsVerified(u) == \A o \in DOMAIN u : u[o].count = SizesOf(u[o].data)
verify(u) == chunksVerified(u) /\ countsVerified(u)

Init == v = <<>> /\ set = {} /\ copied = FALSE /\ right = TRUE

Becomes(u, S) == S \subseteq 0 .. MaxIndex /\ v' = u /\ set' = S

Indexes == 0 .. MaxIndex
Others == UNION {kSubset(n, Indexes) : n \in 0 .. MaxOther}
Block(index, n) == index .. index + n - 1

(* The one case in which count is too small.                                *)
endsInNextChunk(u, from, to) ==
  LET p == find(u, from, Start)
      next == u[p[1] + 1].data[1]
  IN /\ p[1] < Len(u) /\ (p[2] # 1 \/ from > At(u, p)[1])
     /\ next[1] < to /\ to <= next[2]

countIsRight(from, to) == count(v, from, to) = Cardinality({i \in set : from <= i /\ i < to})

ofAPosition(i) ==
  \/ Becomes(add(v, i), set \cup {i}) /\ right' = TRUE
  \/ LET a == add_shifted(v, i)
     IN Becomes(a.v, Set!add_shifted(set, i)) /\ right' = (a.index = Set!shift(set, i))
  \/ Becomes(erase_at(v, i), Set!erase_at(set, {i})) /\ right' = TRUE
  \/ LET e == erase_or_unshift(v, i)
     IN /\ Becomes(e.v, Set!erase_at(set, {i}))
        /\ right' = (e.index = IF i \in set THEN npos ELSE Set!unshift(set, i))
  \/ /\ UNCHANGED <<v, set>>
     /\ right' = /\ contains(v, i) = (i \in set)
                 /\ shift(v, i) = Set!shift(set, i)
                 /\ i \notin set => unshift(v, i) = Set!unshift(set, i)
                 /\ \A to \in i .. MaxIndex : ~endsInNextChunk(v, i, to) => countIsRight(i, to)

ofABlock(i, n) ==
  /\ \/ Becomes(insert_at(v, i, n), Set!insert_at(set, Block(i, n)))
     \/ Becomes(shift_for_insert_at(v, i, n), Set!shift_for_insert_at(set, Block(i, n)))
     \/ Becomes(do_remove(v, find(v, i, Start), i, i + n).v, set \ Block(i, n))
  /\ right' = TRUE

ofASet(S) ==
  /\ \/ Becomes(addEach(v, Start, as_indexes(Made(S))), set \cup S)
     \/ Becomes(insert_at_all(v, Made(S)), Set!insert_at(set, S))
     \/ Becomes(shift_for_insert_at_all(v, Made(S)), Set!shift_for_insert_at(set, S))
     \/ Becomes(erase_at_all(v, Made(S)), Set!erase_at(set, S))
     \/ Becomes(removeEach(v, Start, ranges(Made(S))), set \ S)
  /\ right' = TRUE

shiftedBy(S, values) ==
  Becomes(add_shifted_by(v, Made(S), Made(values)), Set!add_shifted_by(set, S, values)) /\ right' = TRUE

(* A debug build stops where verify fails.                                  *)
Next ==
  /\ verify(v)
  /\ \/ /\ \/ \E i \in Indexes : ofAPosition(i)
           \/ \E i \in Indexes, n \in 1 .. 2 : ofABlock(i, n)
           \/ \E S \in Others : ofASet(S)
        /\ copied' = FALSE
     \/ (\E S \in Others, values \in Others : shiftedBy(S, values)) /\ copied' = TRUE

Spec == Init /\ [][Next]_vars
------------------------------------------------------------------------------
(* The ranges hold the positions of the set, apart and in order, and chunks *)
(* know where they begin and end, after whatever was added, erased,         *)
(* inserted, removed or shifted: splitting a range, joining two, a chunk    *)
(* that is full and one that is emptied.                                    *)
StandsForTheSet == as_indexes(v) = SetToSortSeq(set, LAMBDA i, j : i < j) /\ chunksVerified(v)

(* What a set of positions answers is right, and what it remembers of its   *)
(* chunks; but for what the builder of add_shifted_by may have made, and    *)
(* for the positions between two when count starts within a chunk and ends  *)
(* in the first range of the next (CountsTheRange).                         *)
AnswersAreRight == right /\ (copied \/ countsVerified(v))

(* verify asserts that a chunk holds as many positions as it remembers.     *)
(* Where the builder adds a chunk there was no room for, it remembers one,  *)
(* and a range of several may be put there.                                 *)
CountsVerified == countsVerified(v)

(* index_set.hpp: count "counts the number of indices in the set in the     *)
(* given range", wherever it starts and ends and however the chunks lie.    *)
CountsTheRange == countsVerified(v) => \A to \in Indexes : \A from \in 0 .. to : countIsRight(from, to)
==============================================================================
