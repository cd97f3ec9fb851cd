# A verification development of the matcher

TLA+ models of the price-time matching book of this repository, of the engine
around it, and of its journals, snapshots and recovery; the TLC runs that check
them; and theorems about them with proofs checked by TLAPS. Every definition is
translated from the source under `include/matcher/` and `bench/`; the documents
under `spec/` are used for what they *claim*, which the models confirm or
contradict.

## 1. The system

The program is a header-only, single-writer limit order book. A client calls
`OrderBook::apply` (or `apply_batch`, or `Engine::submit` for many symbols) with
a command; the book answers, before the call returns, with events passed to a
sink, numbered by `seq_`. Nothing runs concurrently: the difficulty is in long
sequences of legal calls, in state that is read before a loop and used after it,
in arithmetic that wraps, in a sink that may throw, and in recovery after a
crash.

| Component | State | Operations | Interacts with |
|---|---|---|---|
| Order book (`book.hpp`) | `seq_`, and the four structures below | `new_order`, `cancel`, `replace`, `cross`, queries, `restore` | calls the structures and the sink |
| Order store (`Store`) | chunks of six slots in doubly linked lists, a free list, `live` | `push`, `unlink`, `front`, `drop_chunk`, `for_each` | holds what a `loc` names; levels point to chunks |
| Order map (`OrderMap`) | tags, entries, `len`, `removes` | `get`, `insert`, `remove` | maps an id to a `loc`; `replace` keeps a pointer into it |
| Ladder (`LadderIndex`) | levels, bitmap, summary bitmap, `count`, `best` | `level_insert`, `unlink_level`, `rescan`, `sum_range`, `depth` | finds the best level for `cross`, sums for `fillable` |
| Tree (`TreeIndex`) | `std::map<Price, Level>` | the same | the same |
| Engine (`engine.hpp`) | one book per symbol | `submit`, `submit_tagged`, `add_symbol`, `add_book`, `symbols` | makes a book on first use |
| Journal (`journal.hpp`) | command lines and event lines on disk | `record`, the event sink | written before the engine applies, before an event is delivered |
| Snapshot (`snapshot.hpp`) | lines on disk | `write_engine`, `parse`, `restore_engine` | taken of an engine; a restored one replays the rest of the journal |
| Line parser (`jsonflat.hpp`) | none | `parse_command`, `parse_header`, `get_*` | decides what a damaged line means |
| Tools (`matcherrecover`, `matcherrun`, `matchersnap`, `matcherfuzz`) | an engine or a book each | recover; run, dump or fuzz a file of commands | compose all of the above |
| Event encoding, sinks (`types.hpp`, `sink.hpp`) | none the book reads | lines of events | compared line by line across runs |
| Vector generator, benchmarks, tests | none the book reads | generation, timing, checking | drive the book |

What makes each part correct:

- **Book**: it is never crossed; price priority and time priority; a post-only
  order never takes; a fill-or-kill order is filled completely or leaves the
  book untouched, and is refused only when it must be; every command ends with
  its terminal event; rejects are chosen in the documented order and change
  nothing; at most `max_orders` rest; the map, the slots and the levels describe
  the same orders, even after a sink threw; a book restored from its own listing
  is the same book.
- **Store**: each level is the FIFO of its orders whatever dies in between; the
  vector of chunks never outgrows its reservation, since the book holds
  references into it.
- **Map**: it finds exactly the ids that were put and not removed, with their
  last location; a write through a kept pointer never hits another entry.
- **Index**: exactly the non-empty levels; the cursor is the best of them; range
  sums are sums of what is in range.
- **Engine, journal, snapshot, recovery**: whenever the engine serves, its books,
  its event journal and its numbers are those of a run without a crash; a
  snapshot is restored to what it was taken of; recovery ends.
- **Lines**: a command that was written is the command that is read; different
  events have different lines.
- **Tools**: they agree wherever the same file means the same to them.

The hard behaviours are listed one by one, each at its line and with the
properties that watch it, under `hazards` in `PROJECT.json`.

## 2. The modules

| Module | Models | Correspondence |
|---|---|---|
| `BookTypes` | `types.hpp` | sides, times in force, reasons, events |
| `OrderBook` | `book.hpp`, the tree index | one variable per structure (`queue`/`slot`/`live` for the store, `index`/`total` for the price indexes, `map`), and `taker`, the locals of the command in progress |
| `PriceTime` | (specification) | matching said in one piece, without a loop |
| `MatchingBook` | (specification) | the atomic book clients are promised |
| `OrderBookRefinement` | `resting_orders`, `depth`, the refinement mapping | runs both books on the same commands |
| `RestoredBook` | `OrderBook::restore` | a book listed, lost and rebuilt order by order, any number of times, beside the promise |
| `ThrowingSink` | a sink that throws at any of its calls | what each call site leaves half done |
| `Store` | `Store` in `detail/internals.hpp` | chunks, lists, cursors, free list |
| `OrderMap` | `OrderMap` in `detail/internals.hpp`, the pointer protocol of `replace` | entries, backward shift, `ploc` and `removes` |
| `LadderIndex` | `LadderIndex` in `detail/internals.hpp` | bitmap, summary, count, cursor; the masks, and the loops over words of `rescan` and `sum_range` as recursive functions |
| `Lines` | `jsonflat.hpp` | a line is the sequence of its fields; what a cut leaves of one |
| `CommandLine` | `journal.hpp`, `parse_command` | a command as a line and back |
| `EventLines` | the encoding of `types.hpp`, the sinks | the fields of an event's line, with and without symbol |
| `Engine` | `engine.hpp` | a book per symbol, each `[cfg, orders, seq]` with `PriceTime` for its commands |
| `Snapshot` | `snapshot.hpp`, `OrderBook::restore` on whole books | an engine as lines and back |
| `Recovery` | the loop of `tests/snapshot.cpp:95-101` and `bench/matcherrun.cpp`, `bench/matcherrecover.cpp` | journal, event journal, snapshot, engine; crashes |
| `DurableLog` | (specification) | a state machine that survives crashes |
| `StreamTools` | `matcherrun`, `matchersnap`, `matcherfuzz` | three readers of one file |
| `MCOrderBook`, `MCOrderMap`, `MCRecovery`, `MCStreamTools` | | symmetry, commands, headers and lines for TLC |
| `InductionLemmas` | | induction over numbers and finite sets, sums, cardinalities, sequences that lose or get an element: facts the proofs share |
| `OrderBookProofs`, `RefinementProofs`, `RestoreProofs`, `StoreProofs`, `OrderMapProofs`, `LadderIndexProofs` | | the proofs about the book and its structures |
| `JournalProofs` | | the proofs about commands, lines, engines, snapshots, recovery and tools: one module, since they are the same facts about engines |

**How they compose.** `OrderBook` is shown to implement `MatchingBook`, whose
operators are those of `PriceTime`. `Engine` is built on the same operators, so
that an engine of many books with its files stays small enough to check; what
the loop does inside a command is the business of the runs about `OrderBook`.
`Recovery` puts `Engine`, `Snapshot`, `CommandLine` and `EventLines` together
and is shown to implement `DurableLog`.

**Actions of the book.** A reject, a cancel, and a replace that keeps its place
are one action each: they make one event. A new order or a replace that crosses
starts with `StartNew` or `StartReplace` (for a replace: the order has left its
level, its map entry stays). Then every iteration of the inner loop of `cross()`
is a step, `FillMaker` or `FillTaker`, and one of the five `Finish` actions does
what follows the loop. The calls to the sink are in the step that makes them. The
steps in between are not visible to a client, but it is there that the
structures are in the states the code relies on, so every invariant is checked
there too. In `RestoredBook` the loop of `restore()` is a step per order. In
`ThrowingSink` a call that throws is a step that does what the code did before
that call, and nothing after it.

**Actions of recovery.** `Record` appends the line of a command, `Submit` applies
it, each `Deliver` is one call of the journaling sink, `TakeSnapshot` writes a
snapshot between commands; `Crash` may come between any two of these, and between
the steps of a recovery: `Restart` restores the snapshot, each `ReplayLine`
applies a line of the journal, `Refuse` is the exit at a line that is no command,
and `Resume` goes back to serving. `CrashWhileRecording` and `CrashWhileSaving`
leave a line or a snapshot cut short. Which command a snapshot covers and how the
event journal is cut back to it are not in either file: they are the operator's,
and the module says so.

**What is abstracted.** `OrderBook` keeps a level as the sequence of its live
locations, the map as a function and an index as a set of prices: that those
abstractions are what the structures really provide is what `Store`, `OrderMap`
and `LadderIndex` are about. Prices are integers within int64 (`PriceLimit` is
`INT64_MAX`), quantities are modulo `QtyMod` (2^64), sequence numbers modulo
`SeqModulus` (2^64). A location that a new order gets is any free one, so nothing
depends on the allocation order. `apply_batch` is `apply` in a row: its prefetches
write nothing. A line is its fields and a number its value; a number that is cut
short is one that its leading digits make, and a string that is cut short is not
there.

## 3. The runs

| Run | Question | Instance |
|---|---|---|
| `wrapped_totals` | are totals that wrap undone exactly, and is a fill-or-kill that was let in on a wrapped sum always filled? | ladder, 2 prices, 4 ids, room for 4 orders, quantities 1 and 2 modulo 3 |
| `restored` | is the loop the promised book, also after it was rebuilt from its listing? do store, map, levels and index agree at every step? is no maker met twice? never crossed, post-only, fill-or-kill, FIFO | tree, 3 orders at 3 prices, quantities 1 and 3 |
| `sink_survives` | is the loop the promised book with rejects and wrapping numbers, and what is left in order when a sink throws, at the first trade of a command or later? is `max_orders` kept? | ladder, 4 ids, room for 3 orders at 1 price, every reject reason, numbers modulo 2 |
| `order_map` | does the map hold what it was given, under every hash? | 4 ids, 3 entries, 8 slots, 2 locations |
| `ladder` | do bitmaps and cursor follow the levels, and do the masks and loops over words sum what is in the range? | 9 ticks, words of 2 bits, quantities modulo 2, both sides, every range |
| `store` | does each level stay a FIFO, and are chunks neither lost nor short? | 3 chunks of 2 slots, 2 levels |
| `recovery_crash` | is an engine that crashed the engine that did not? does it serve again? | 6 commands on 2 symbols, 3 of them sent, 2 crashes |
| `torn_files` | what do a cut line and a cut snapshot cost, and no more? | 3 commands, 3 of them sent, 2 crashes |
| `tools_agree` | do three programs read a file alike? | every file of up to 4 lines of 8, under 4 headers |
| `fok_wrap` | finding 1 | quantities modulo 3 |
| `fok_tree` | finding 2 | a tree whose int64 ends at 3 |
| `torn_line` | finding 3 | 4 commands, 2 of them sent, 1 crash |

**Why the bounds are enough.** For the book the interesting cases are a maker
larger than the taker, equal to it and smaller; two makers at a price (time
priority), makers at two prices (the loop goes on), a taker that crosses while
the book is full, and a third order that tests what is left. A full book refuses a
new order before anything else is looked at, so a taker meets at most one maker
less than there is room for. `restored` and `sink_survives` have room for three: two
makers before a taker, so that the loop goes round again; in `restored`, with its
three prices, it may also move to the next level, and in `sink_survives` be cut off by
a throw after an earlier trade of the same command, while a fourth id is refused by a
full book. `wrapped_totals` has room for four: a fill-or-kill order that is let in
on a sum that has wrapped, and is not done after its first fill, needs three makers.
1, 2 and 2 modulo 3 is 2, and an order for 2 takes 1 and then 1 more. With two prices
they may stand at one level, whose total wraps, or at two, whose sum does. That run has
a view without the events (`BookView`): no guard reads them, and of its properties
only `TypeOK` mentions them, which is checked of the events too in the states TLC
keeps and proved of all (`TypeCorrectness`).

In `ladder`, nine ticks of two-bit words make five
words under three summary words, so a rescan has to skip a whole summary word
that is zero, and a range can end in the word it begins in, in the next, or words
further on, at either bit, or beyond the ladder. In `store`, three live orders over time open three chunks in one
level, so the middle one can be dropped, and every order of the free list occurs.
In `order_map`, three entries in eight slots form clusters that wrap round the end
of the table, with entries that may and that may not be shifted; Init chooses
every function from ids to slots, so no property depends on `mix`.

In `recovery_crash` three commands are enough for an order to rest before a
snapshot and for it to be traded with, replaced or cancelled after it; the second
crash can hit the recovery from the first. One book of the two can be full. Two
symbols show whether numbers and books are kept apart, and `add_symbol` may come
before or after the first command of its symbol. In `torn_files` and `torn_line` the ids 2 and 21 are there so that a number cut
short is another one that matters, and in `torn_line` the quantity 12. Three
commands in `torn_files` are enough for a cut snapshot to lose an order that a later
command names. In `tools_agree` four lines let a malformed line come after a command
that rests and before one that trades.

Unbounded counters (`seq_`, `removes`) are taken modulo a small number;
`MaxCommands`, `MaxCrashes` and `MaxLines` bound the histories. All are set in the
`.cfg` files.

**Fairness.** `ServesAgain` is checked
under weak fairness of serving a recorded command (`Submit \/ Deliver`), of
starting the recovery (`Restarts`) and of its loop (`ReplayLine \/ Refuse \/
Resume`): these are straight-line programs that only a crash stops, and someone
starts `matcherrecover` after a crash. `Restarts` is `Restart` told by its effect
on `phase`, which is the whole of its guard; it spares TLC the parsing of a
snapshot to see that a step is enabled. Nothing obliges a client to send a
command, nor anyone to take a snapshot. `recovery_crash`, which checks it, uses no
symmetry.

The book needs no fairness. That a command ends is said by two safety properties: no
turn of the loop of `cross()` meets an order that an earlier turn of the same command
has traded with (`MakersMetOnce`), so it makes at most one turn for each order
opposite; and a command in progress is never stuck, since it is the only thing that
can step, so that TLC would report a deadlock.

**Deadlock** is checked wherever the system can always go on: a client can always
send a command, and the structures can always be called. It is off in
`sink_survives` (the model stops where a sink threw), `torn_files` and `torn_line` (recovery may refuse a journal and end) and `tools_agree` (files end). In
`recovery_crash` the engine may always take another snapshot.

### Refinement

`OrderBookRefinement` runs `MatchingBook` beside `OrderBook`. The atomic book
takes its whole step when the loop starts; `PromiseKept` says that at every step
the mapped book, where the command in progress is completed by
`PriceTime!Settled`, equals the atomic book, that the events emitted so far
followed by those still to come are the atomic book's events, and likewise for
the sequence number. This is the refinement mapping with a prophecy that is
computable (the future of a command is determined), checked as an invariant, since
enumerating every abstract command at every step takes TLC too long. It is
checked as `RestoredKeepsPromise` where the book is lost and restored between
commands and the atomic book is not, and as `PromiseUntilThrown` (`sink_survives`)
with rejects and wrapping numbers, until the sink throws. `RefinementProofs` proves `PromiseKept`
and `PromiseUntilThrown` for every book, `RestoreProofs` proves
`RestoredKeepsPromise`.

`ImplementsDurableLog` is a refinement in the usual form: `Recovery` implements
`DurableLog` with the engine for the state machine. `recovery_crash` checks it and
`RecoveryIsDurable` proves it. Events and the delivery of
them are a stutter there, and books that `add_symbol` made and no command has
used are left out of the state, because `add_symbol` is not journaled.

### Findings

1. `fillable()` sums quantities in a u64 and level totals are u64 as well. When the
   opposite side offers 2^64 or more within the limit the sum wraps and a
   fill-or-kill order that the book can fill is refused (`fok_wrap`); the
   specification says such an order matches (`spec/SPEC.md:109-111`).
   The opposite error, an order let in and then left short, does not occur
   (`FokNeverStarves`, which `wrapped_totals` checks where a wrapped sum lets an
   order in that needs more than one fill, and `FokFills` proves).
2. In tree mode the bid side is summed only up to `INT64_MAX / 2`, while prices up to
   `INT64_MAX` are valid and `cross()` trades at them: a selling fill-or-kill order
   is refused although bids above that bound would fill it (`fok_tree`). The
   specification calls the two index kinds semantically identical and the tree
   unbounded (`spec/SPEC.md:38`).
3. The last line of a journal, cut short by a crash, may still be a command to
   `parse_command`: a field that is missing is 0 and a number that is cut short is
   another number. `matcherrecover` replays it as such (`torn_line`): the cancel
   of order 21 becomes the cancel of order 2. `bench/matcherrecover.cpp:3` says it
   exits at a truncated tail, and `spec/JOURNAL.md:17-18` that a crash before the
   append "never happened". What does hold is `RefusesOnlyTheTail`: when recovery
   does exit, everything recorded whole was replayed. (It says so only where what
   is saved is what a run without a crash has, the engine *and* the events before
   it: when a cut snapshot lost an order, a later cancel of it is answered
   "rejected", after which the engines agree again and the event journals do not.)

Met while reading; no run refutes a claim there, or none could:

- `matchersnap` ignores what `parse_command` returns: a malformed line applies the
  command before it once more, and a malformed first line one that nothing was
  assigned to. `SnapshotsAgree` holds because `matcherrun` ends at such a file.
- A snapshot is written over the last one: a crash in the middle loses books and
  orders, and nothing notices. `TearOnlyLoses` bounds the harm.
- When a sink throws, the command it was called from is half applied, and an order
  that was being replaced or was taking is gone (`spec/JOURNAL.md:36-37` says a
  command either fully applied or not at all). `SurvivesThrow` and
  `TradesAreBooked` say what is left in order.
- `add_symbol` is not journaled and the header of a snapshot has one configuration
  for every book. A book with a configuration of its own comes back with the
  default (`spec/JOURNAL.md:52-54` leaves this to the operator), so the runs give
  `add_symbol` the header's.
- `get_i64` (`jsonflat.hpp:34`) collects the magnitude of a negative number in an
  `int64_t`, which overflows for `INT64_MIN`, although `append_i` takes care to
  write that number.
- A torn line has no newline, so what a reopened journal records next would be
  glued to it; the operator of `Recovery` ends the line.

## 4. The theorems

Each holds for every value of the constants that the named ASSUMEs of the module
allow.

| Module | Theorem | Says |
|---|---|---|
| `OrderBookProofs` | `TypeCorrectness` | `Spec => []TypeOK` |
| | `NeverCrossed` | `Spec => []NotCrossed` |
| | `LocationsAgree` | `Spec => []LocsAgree` |
| | `IndexIsExact` | `Spec => []IndexExact` |
| | `RoomToRest` | `Spec => [](LiveExact /\ (taker # NIL => FreeLocs # {}))` |
| | `MeetsMakersOnce` | `Spec => []MakersMetOnce` |
| | `TimePriority` | `Spec => FifoPreserved` |
| | `PostOnlyPosts` | `Spec => []PostOnlyNeverTakes` |
| | `TotalsAreExact` | `Spec => []TotalsMatch` |
| | `FokFills` | `Spec => []FokNeverStarves` |
| | `FokIsFair` | `Spec => [](NothingWraps => FokRefusedOnlyWhenShort)`, if the prices are within the bounds of `fillable()` |
| | `SmallBookNeverWraps` | `Spec => []NothingWraps`, if `max_orders` orders of the largest quantity a command asks for fit a quantity (`QtysFit`) |
| `RefinementProofs` | `BookKeepsPromise` | `JointSpec /\ []NothingWraps => []PromiseKept`, if the prices are within the bounds of `fillable()` |
| | `SmallBookKeepsPromise` | `JointSpec => []PromiseKept`, if besides `QtysFit` |
| | `PromiseHoldsUntilThrown` | `ThrowSpec /\ []NothingWraps => []PromiseUntilThrown`, under the same condition |
| | `BookSurvivesThrow` | `ThrowSpec => []SurvivesThrow` |
| | `TradesStayBooked` | `ThrowSpec => []TradesAreBooked` |
| `RestoreProofs` | `RestoredBookKeepsPromise` | `RestoredSpec /\ []NothingWraps => []RestoredKeepsPromise`, if the prices are within the bounds of `fillable()` |
| | `SmallRestoredBookKeepsPromise` | `RestoredSpec => []RestoredKeepsPromise`, if besides `QtysFit` |
| | `RestoreNeedsNoMatching` | `RestoredSpec => []RestoresWithoutMatching` |
| | `RestoredStaysConsistent` | `RestoredSpec => [](NotCrossed /\ LocsAgree /\ IndexExact /\ TotalsMatch)` |
| `StoreProofs` | `StoreIsSound` | `Spec => []StoreInv` |
| | `StoreTypes` | `Spec => []TypeOK` |
| | `OldestFirst` | `Spec => []FrontIsOldest` |
| | `StaysLinked` | `Spec => []ListsAreLinked` |
| | `NeverOutOfChunks` | `Spec => []ChunksAreBounded` |
| | `ListsInOrder` | `Spec => []ListsWhatWasPushed` |
| `OrderMapProofs` | `MapIsSound` | `Spec => []MapInv` |
| | `TypesHold` | `Spec => []TypeOK` |
| | `FindsWhatWasPut` | `Spec => []GetsWhatWasPut` |
| | `CountsEntries` | `Spec => []EntriesAreCounted` |
| `LadderIndexProofs` | `IndexTypeCorrect` | `Spec => []TypeOK` |
| | `BitmapsStayExact` | `Spec => []BitmapsExact` |
| | `CursorStaysBest` | `Spec => []BestIsBest` |
| | `SumsAreInReach` | `Spec => []SumsWhatIsInReach` |
| `JournalProofs` | `RecoveryIsExact` | `Log!Spec => []Log!Exact`, of `DurableLog` |
| | `PastIsKept` | `Log!Spec => [](Log!SavedIsPast /\ Log!ReplayIsPast)` |
| | `ParseInvertsWrite` | the parse of a written command is that command |
| | `LinesTellEvents`, `TaggedLinesTellEvents` | equal lines are of equal events |
| | `SnapshotRestores` | `RestoreEngine(Parse(EngineLines(e))) = e`, of an engine whose books have its configuration |
| | `RecoveryHolds` | `Spec => []RecoveryInv` (`Recovery`), if no write is cut short |
| | `RecoveryTypeOK` | `Spec => []TypeOK` |
| | `RecoversTheRun` | `Spec => []RecoversUninterrupted` |
| | `RecoversTheEvents` | `Spec => []EventsAreRepeated` |
| | `RecoveryKeepsNumbers` | `Spec => []NumbersAreDense` |
| | `ServingRoundTrips` | `Spec => []RoundTrips` |
| | `ServingKeepsBooks` | `Spec => BooksAreKept` |
| | `RecoveryIsDurable` | `Spec => ImplementsDurableLog` |
| | `TornIsRestored` | of the first lines of a snapshot a part of the engine is restored, each side of a book cut at its end |
| | `TearsOnlyLose` | `Spec => []TearOnlyLoses`, whatever is cut short |
| | `RefusesOnlyTornLines` | `Spec => []RefusesOnlyTheTail`, whatever is cut short |
| | `SnapshotsAreTheSame` | `ToolsSpec => []SnapshotsAgree` |
| | `StreamsAreTheSame` | `ToolsSpec => []StreamsAgree`, if numbers are read as numbers |

**The book.** For every set of ids, locations, prices and quantities, every width,
either index kind. Assumed: quantities are of the width (`QtyWidth`), prices are
integers within int64 (`PricesAreTicks`, `PricesFit`), there are at least
`max_orders` locations, finitely many (`StoreIsBigEnough`;
`NeverOutOfChunks` of `StoreProofs` is that the store keeps this promise), and `NIL` is
none of the values it stands apart from.

`NotCrossed` is not inductive by itself: an order rests at a price because
`cross()` found nothing in reach, but `cross()` only looks at the best price, stops
on an empty level, and trusts the index. So `BookInv` adds that the index is exact
and that queues, slots and map agree (`StoreInv`, `MapInv`), and `NothingInReach`
shows that when the loop ends with quantity left *no* opposite level is within the
limit: there is a best one since prices are bounded (`BestExists`, from the
least-element principle of the library), and it is not within. The agreement of
map and slots in turn needs the command in progress: the entry of a replace names
a dead location, so no live order has the taker's id (`TakerIsNotLive`), and
neither filling makers nor resting the remainder can disturb another entry. The
room for the remainder (`RoomLeft`) holds because a new order was checked against
`max_orders` and a replace gave up a place. `PostOnlyPosts` adds that a post-only
taker has nothing in reach while it is in progress: it was checked against the best
level, which speaks for the others (`BestSpeaksForAll`).

The steps share two store lemmas: `LeavesStore` for an order that leaves its level
(cancel, replace, fill of a maker) and `RestStore` for one that joins; `ResizeStore`
covers partial fills and shrinks. `TimePriority` needs, beside `BookInv`, only that
a step does one of three things to a level (`LevelStep`). `MeetsMakersOnce` uses that the
order at the head is still mapped, while all those traded with no longer are.

`TotalsMatch` and the fill-or-kill theorems are about sums over sets of locations.
`InductionLemmas` supplies what the library cannot be asked for: induction over a
finite set, stated for a *set* of good subsets instead of a predicate
(`SetInductive`), and from it the existence, uniqueness and algebra of the sums of
`FiniteSetsExt` (`SumIsRecursion`, `SumRemove`, `SumOfGroups`). `TotalsExact` is
inductive beside `BookInv`: each action adds to a total, modulo `QtyMod`, what it
adds to the queue. `FokFills` follows because a wrapped total, and a wrapped sum of
totals, is never more than the true one, and because each fill takes from the offer
what it takes from the taker. `FokIsFair` is the converse, and needs two conditions
the code does not enforce, so it is stated with them: the prices lie within the
bounds `fillable()` sums up (`LadderReachesAll` proves it of a ladder; of a tree it
is false, finding 2), and what a side offers fits a quantity (`NothingWraps`;
without it, finding 1).

**The book implements the promise.** `MatchingBook` matches a command in one piece:
`PriceTime` sorts the whole opposite side, takes from the front of that list and
says the events. The loop never sees a list; it looks at one level's first order.
The proof goes from one to the other in five parts.

- *Lists.* A store that is `Lined` (every live order is at a place of a queue) has
  one listing per side, best price first and oldest first at a price; the first of
  it is the front of the best level.
- *One fill.* What `PriceTime` says of a taker and a list is what it says of the
  first maker, followed by what it says of the remainder and the rest of the list
  (`AheadTail`, `FillTail`, `AfterTail`, `SaidTail`). So the atomic book's future
  after a step of the loop is the same as before it (`SettledAll`, `SettledPart`),
  and when the loop is done there is nothing left to say (`SettledNothing`).
- *Stores.* An order that leaves, shrinks or joins changes the listing of its side by
  that order and nothing else (`LeavesBook`, `ResizeBook`, `RestBook`; an order that
  joins goes behind all that are as good, `RestingIs`).
- *Commands.* For each action, the state it leads to keeps the promise
  (`FillPromise`, `FinishPromise`, `NewPromise`, `CancelPromise`, and the three of
  `replace`). A fill-or-kill order is decided by `fillable()` on one side and by the
  listing on the other; that these agree is where the two conditions come in.
- *Together.* `PromiseInv` is `BookInv`, `TotalsExact`, `Lined` and `PromiseKept`, and
  is inductive.

The two conditions are those of `FokIsFair`, and neither can be dropped: without them
the code refuses orders the promise fills (findings 1 and 2). The one on sums can be
had from numbers an operator knows: when no command asks for more than K and
K * `max_orders` is less than 2^64, no order ever has more than K left (`UpTo`, which
every action keeps: no step makes an order larger than its command), there are at
most `max_orders` of them, and a sum is at most its number of terms times the largest
(`SumAtMost`).

**Restoring.** The listing of a book at rest is `Restorable`: each side is sorted,
the sides do not cross, no id is there twice. After n turns of the loop of
`restore()` the book has, on each side, the first orders of the listed book, and the
list has the others (`HalfRestored`). The next order goes to the end of its side,
because the list is sorted and an order that rests goes behind all that are as good
(`JoinsLast`); it is out of reach of what rests opposite and its id is free
(`RestOfListIsFree`, which is `RestoreNeedsNoMatching`). When the list is done the
sides are those of the listed book, and since what a book does next depends on
nothing else (`PromiseInv` speaks of listings), the promise goes on as if nothing had
happened.

**The store.** For every number and size of chunks, set of levels and set of positive
quantities. `StoreInv` has two parts. `CellsInv` is about each chunk alone: its count
is the number of its live slots, which lie between its cursor and its tail, and
`live` is the number of all. The second part says that there *are* a sequence of
chunks for every level and one of chunks to be reused, of which the links are the
neighbours (`LinksInv`): every chunk that was handed out is in exactly one of them,
at one place. Against these sequences the level's history is easily put: its orders
are what the live slots of its chunks hold, earlier chunks and lower slots first
(`QueueInv`). The history alone would not be inductive, since which slot a push takes
and which chunk goes when an order leaves depends on the links.

Each call changes one sequence at one place: a chunk is put behind the last
(`LinksPut`), is taken out and becomes the first spare one (`LinksDrop`), or all stay
where they are (`LinksKeep`); and the level's history gets an order at its end
(`QueueTakes`), loses one anywhere (`QueueDies`) or has one whose quantity changes
(`QueueResizes`). The cases are `push` into the last chunk or a new one
(`PushBehind`, `PushAnew`) and an order that dies with others in its chunk or as the
last (`DiesAmongOthers`, `DiesLast`). `push` finds a chunk because a chunk in use has
a live slot, so there are at most as many as live orders (`FewInUse`,
`RoomForChunk`): this is what lets the vector of chunks never grow.

The walks of `Store` (`Visits`) are recursive functions. What they compute is proved
along the sequences: a walk from place k of a linked sequence says what is said of
the chunks from k on (`WalkTells`, by the induction on numbers that is stated of
sets). For `for_each` one needs besides that the orders of a level fall into one
interval per chunk (`GroupsAreIntervals`) and that the k-th live slot of a chunk
holds the k-th of its interval (`NthIs`).

**The book after a throw.** `BookSurvivesThrow` needs neither. Until the sink throws
the book is the book (`WholeUntilThrown`). When it throws, the turn is cut short at
that call: at a trade nothing of the fill is done (`CutAtTrade`); at an `OrderClosed`
the maker has left its level and the map, but a level it leaves empty is still in
the index (`CutAtClosed`). `LeavesLevels` and `LevelIsQueue` are therefore stated
without the index, and used both by the whole steps and by the cut ones. What is
left of the index is a conjunct of its own (`IndexKeepsLevels`): no level that holds
an order is missing from it, and the level just emptied, the best one opposite the
order that took, is the only empty one it can have.
`TradesStayBooked` is about two sums, of what the resting orders of an id have left
and of what the events say it traded, so it says something of both: one order at
most has the id, and it is where the map says (`QtyLeft`, from the listing of the
book, which is proved `Listable` also of a book with an empty level in the index),
and each turn adds to the second sum what it takes from the first (`TurnSells`,
`MakerGives`). The invariant, `BookedSoFar`, says so between the turns, of every id
but the taker's: a replace has its old order taken out before the first turn.

**The order map.** For every hash, capacity, set of ids and width of the count of
removes. Assumed: the table has an empty slot (`SomeSlotIsEmpty`, from the
constructor), a count of removes cannot go round during one replace
(`RemovesOutlastReplace`: 2^64 removes against at most `live_max` entries), and `NIL`
is no value. A table is `Sound` when no key is in it twice and no slot between the
home of an entry and the entry is empty. Removal leaves a hole that breaks the
second part for the entries beyond; the invariant of the scan (`ScanStep`) is that
the hole is the *only* slot that does, and that no entry already scanned needs it,
so when the scan meets an empty slot the hole can stay (`ScanDone`). A probe in a
sound table ends, at the key if it is there (`ProbeEnds`, `ProbeFinds`,
`ProbeMisses`). For the pointer of a replace, `MapInv` counts the removes since it
was taken: as many as entries are gone, so if the count is back where it was, none
was (`ValidPointer`), and then nothing has shifted the entry.

**The ladder.** For every number of ticks and every width of word. `IndexInv` says of
every bit what it stands for, also of the bits of the last word that are no ticks,
and of every flag which word it is of; the cursor is the best occupied tick. A tick
is a word and a bit in it, ordered by word first (`AtSplit`, `AtJoin`, `AtOrder`),
which makes `rescan` miss nothing: a bit in the cursor's own word, or else the
nearest flagged word, found through the summary (`RescanAskFinds`,
`RescanBidFinds`). That no flag is of anything but a word (`NoFlagElse`) is part of
the invariant, because the loops take whatever flag they meet. The three loops are
recursive functions, each defined as some solution of the equation of one turn. The
proof of what one computes is the same each time: the first or the last flagged
word, or the sum over what is in reach, solves that equation (`FirstFromTurns`,
`LastUpToTurns`, `SumTurns`), and two solutions agree beyond the last word and,
turn by turn, everywhere (`LoopEnds`, `LoopEndsBelow`), so `WordUpFinds`,
`WordDownFinds` and `LoopSums` follow. For the sums a turn is right because the
masks leave of a word just what is in reach of it, whether the range ends in that
word or in a later one (`ClippedAre`), and because adding in a Qty word by word is
adding all and reducing once.

**The durable log.** For any state machine and any number of crashes: a snapshot and
a replay in progress are the states after the commands they cover, so a replay
that has reached the end of the log is exact. `RecoveryIsDurable` says that recovery
is such a log.

**The lines.** `ParseInvertsWrite` goes through the commands: each writes the fields
its reader asks for, under keys that differ. `LinesTellEvents` compares the fields
of two lines, kind first; it is what makes the comparison of event journals, by
which `spec/JOURNAL.md:30-32` judges a recovery, a comparison of events.

**Snapshots.** `write_engine()` is a concatenation, `parse()` and `restore_engine()`
are loops. The library writes all three as folds whose step is a parameter;
`FoldRuns` says that a fold is the last member of a *run*, a sequence of values each
made of the one before, so that an induction over the lines is an induction over the
places of a run. Reading the lines of books one after the other leads from any
snapshot in memory to that snapshot with these books behind it (`Leads`); of a book
first its own line, then its bids, then its asks. Restoring a book goes through its
list as in `RestoreProofs`: each order goes to the end of its side. For that the
books must be sorted, small enough and without an id twice, which is what `BooksOf`
says and what commands keep (`SubmittedIs`, from `PriceTime`). `LiveSymbols` is the
ascending sequence of the symbols, so restoring goes through each of them once.

**Recovery.** For every set of commands the constructors of `Command` can make, every
bound on commands and crashes, and every configuration. Assumed besides (`Sane`): a
book that `add_symbol` makes has the configuration of the engine; with another one
recovery is not exact, as said under the findings. And no write is cut short
(`Setup`): with a cut line exactness is false (finding 3).

None of the properties is inductive, and the files are what relates them.
`RecoveryInv` says of the journal, line by line, that it is the run without a crash:
the n-th line is what is written of the n-th command, and `ideal` goes by that command
from its n-th place to the next (`Chronicle`, `IsTurn`). The snapshot, the engine in
memory and the event journal are then each at a place of that run, and the phase tells
which: the snapshot where it was taken (`IsSaved`), a replay at `pos`, the engine that
serves at the end, and in between either one command behind or ahead by the events
still to be delivered (`Serving`, `Recovering`). Each step takes one of these to the
next place; `Restart` is `SnapshotRestores`, `ReplayLine` is `ParseInvertsWrite`. That
an added book makes no difference until it is used is `Alike`, and the numbers of the
events are those of the run (`Numbered`). The properties are then read off.

*What a crash cuts short.* `TearsOnlyLose` and `RefusesOnlyTornLines` hold for any
`Tears`, and for books with configurations of their own; assumed is only that
configurations are configurations and commands are commands (`Fit`). The engine may
then be of no run at all: a snapshot lost orders, a torn line was replayed as another
command, and snapshots were taken of the result. `LossInv` says what is left: books
are books, each with some configuration (`IsMixed`), the snapshot has the first lines
of what was to be saved (`IsCutShort`), every line of the journal reads as no command
or as one that an engine takes (`AllReadWell`), and a replay that has not begun has
what the snapshot has (`BeginsWith`). Three facts carry it:

- Commands keep books books whatever they say (`SubmittedIsMixed`, from `PriceTime`).
- A torn line has typed numbers: the leading digits of a number are a number
  (`CutsAreNumbers`, which first needs that the recursive function `Cuts` exists), and
  of a missing field nothing is read (`TornIsTyped`, `TypedIsRead`).
- From the first lines of a snapshot are read the first books, the last one with its
  first orders (`CutIsRead`); a beginning of bids and then asks is a beginning of
  each (`CutFacts`), and since restoring lets orders rest in the order of the list, what
  rests is a beginning of each side, cut where the list ends or where the header's
  `max_orders` does (`PartIsRestored`). A book that was saved with a configuration of
  its own may meet a smaller one in the header: it is cut the same way.

`TornInv` follows the torn line. At first there is none (`NoneIsTorn`); after one the
journal is that of a run and one line more (`TailIsTorn`), and if the snapshot has what
a run has (`NothingIsLost`), a replay has it too, line by line. Recovery refuses the
extra line or takes it for a command, and then every line is one and none is refused
again (`AllAreCommands`). After two the property claims nothing (`ManyAreTorn`).

**The tools.** `SnapshotsAreTheSame` needs no hypothesis: as long as `matcherrun` goes
on, the engines are equal (`SameEngines`); a line on which the tools differ ends it.
`StreamsAreTheSame` compares an engine with a single book, so it needs the engine to
have one: the symbols of the lines so far are one symbol (`NameOnly`), and a book at a
symbol does what the book does. It assumes that `get_u64` and `get_i64` return numbers
(`NumbersAreRead`), which any text makes them do, and `Snapshot` that a string that
is absent is none of the two it looks for (`NilIsNoRecord`).

**Only model-checked**: `ServesAgain`, which is liveness under fairness, and that a
command is never stuck (the deadlock check). No module declares a RECURSIVE operator.

## 5. Not modelled

- Characters: how `append_u`, `append_i` and `get_*` turn numbers into digits and
  back, and JSON escapes (the format has none). A cut inside an order's line of a
  snapshot is left out, since a quantity of 0 at rest has no defined behaviour.
- `fold()` and `NullSink`: a hash of the events for benchmarks.
- `prefetch()`, `prefault()`: they commit memory and change nothing that is read.
- Blank lines, format lines in the tail of a journal, usage errors and buffered
  output of the tools.
- The vector generator (`tools/vectorgen`), which keeps no state the matcher reads;
  the benchmarks, whose loops only time the public interface; the tests, read as
  documentation of what is promised.
- Allocation failure, and reads or writes of files that fail rather than stop
  short: the code has no path for them.
