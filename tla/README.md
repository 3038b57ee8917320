# whenever: a TLA+ model

`whenever` is a date and time library for Python. It exists twice, with one API
and one test suite: as a Rust extension (`src/src/`) and in pure Python
(`src/pysrc/whenever/`). This directory holds TLA+ models of its logic, TLC
configurations that check them on small instances, and TLAPS proofs of the
properties that matter most, for every value of the constants.

Contents: [the system](#the-system), [the modules](#the-modules),
[the runs](#the-runs), [conditions](#conditions-in-the-properties),
[bounds](#bounds), [fairness](#fairness), [what is proved](#what-is-proved),
[what is only model-checked](#only-model-checked),
[disagreements](#disagreements-between-the-code-and-what-is-said-of-it),
[not modelled](#not-modelled), [plan](#plan).

To run a configuration: `tlc -config MCTzCache.cfg MCTzCache`. To check the proofs
of a module: `tlapm TzStoreProofs.tla`.

## The system

Values (`Date`, `Time`, `Instant`, `ZonedDateTime`, the deltas) are immutable. What
the program *keeps* is little: the timezones that were loaded, how to find them, a
few lazily imported Python objects, and a patch of the current time. That state is
shared by all threads, in a build that may or may not have a GIL. Everything else is
computation. The hard part of it is the relation between instants and local times,
which is not a function in either direction once a zone skips or repeats part of a
day; then the calendar, whose months have different lengths; then text, which must
be read back as what was written.

| part | source | state | operations | what is hard, and what makes it correct |
|---|---|---|---|---|
| timezone cache (Rust) | `tz/store.rs`, `Cache` | weak lookup table, LRU of 8 strong references | `get_or_insert_with`, `clear_all`, `clear_only` | The file is read outside the lock; weak references expire between any two steps. Two live `TimeZone` objects for one TZ ID must not arise. |
| timezone store (Rust) | `tz/store.rs`, `TzStore` | cache, search path cell, system timezone cell | `get`, `set_paths`, `get_system_tz`, `reset_system_tz`, `clear_*` | First-use initialisation races the setters; a clear races loads that are under way. |
| cells | `common/sync.rs`, `py/misc.rs` | one slot, or one pointer with a hand-kept reference count | `get`, `set`, drop | Initialisers run Python code, so other threads run meanwhile, also with a GIL. |
| timezone store (Python) | `_tz/store.py` | two dicts, two globals | `get_tz`, `_clear_tz_cache*` | Every operation on a shared object is a step; there is a real lock only in some builds. |
| TZif tables | `tz/tzif.rs` | two tables and a POSIX string, immutable once loaded | `parse`, `offset_for_instant`, `mapping_for_local`, `next_transition`, `prev_transition` | Two tables built and searched apart from each other must be inverse to each other, to the second. |
| POSIX TZ strings | `tz/posix.rs` | a rule | parsing, the same lookups | Rules of two hemispheres, negative DST, times of day beyond the day; the string takes over where the table ends. |
| local time resolution | `domain/local.rs`, `domain/offset_datetime.rs` | none | `resolve` under five policies | Times in gaps move; offsets and range ends interact. |
| ZonedDateTime | `classes/zoned_datetime.rs`, `domain/zoned_datetime.rs` | local time, offset, zone | constructors, conversion, `add`, `since`, `start_of`, `end_of`, `replace`, `round`, transitions, pickling | The offset is stored and trusted by every later method: one method that stores a wrong one spoils all that follow. |
| calendar dates | `domain/date.rs`, `domain/scalar.rs`, `classes/date.rs` | none | day numbers, weeks, nth weekdays, shifts, replace | Division tricks at the ends of cycles; clamped days. |
| differences | `domain/difference.rs`, `since`/`until` of every class, `TimeDelta.in_units`, `total` | none | sets of units, increments, rounding | An overshoot is corrected once; the parts must lead back when they are added. |
| deltas, shifts | `domain/*_delta.rs`, `domain/shift.rs` | none | arithmetic, text, pickles | One sign over three numbers, floors of negative seconds. |
| rounding | `domain/round.rs`, `common/round_args.rs` | none | nine modes | Ties, negative values, sub-second increments. |
| other datetimes | `classes/{time,instant,plain_datetime,offset_datetime}.rs` | none | construction, shifts, units, conversions | Carries and the ends of the range. |
| text | `common/{parse,fmt,format_args,rfc2822,pattern}.rs` | none | ISO 8601, RFC 2822, patterns | Fields that vanish when zero, twelve-hour clocks, lengths computed before writing. |
| time patching | `pymodule/patch.rs`, `_utils.py` | how `now()` is answered | `patch_current_time`, `shift`, `now` | Blocks nest, time goes on, the clock is set, `time_machine` travels. |
| Python C API layer, module definition | `py/*.rs`, `pymodule/def.rs` | module state | wrappers, registration | Reference counts. |
| pure-Python classes and zones | `_pywhenever.py`, `_tz/*.py` | none but the store | the same API | Agreement with the Rust twin. |

How they interact: a class method that needs a zone calls the store (`get` or
`get_system_tz`); the store asks the cache; a miss reads the search path cell (filling
it on first use), reads and parses a file outside the lock, and inserts the zone. The
object keeps a strong reference to its zone, which is what keeps a weak entry of the
cache alive. Lookups on a zone run `bisect` over one of its tables, or ask its POSIX
string after the last recorded transition, and hand the result to `resolve`.
`reset_tzpath`, `clear_tzcache` and `reset_system_tz` change the store under all of
this; `unpickle` looks a zone up again, perhaps in newer tz data. `since` of the
zoned class combines the difference of dates with `resolve`; `round` and `since` of
every class share the thresholds of `Rounding`.

## The modules

State machines:

| module | models | state and actions |
|---|---|---|
| `InternTable` | what the cache promises: a weak interning table | `canon[k]`, `held`; resolve, adopt, release, clear |
| `TzCache` | `Cache` | `lookup`, `lru` as in `CacheInner`; per thread `pc`, `want`, `loaded` are the locals of `get_or_insert_with`. One action per lock section: `LookupHit`/`LookupMiss`, then `Load` without the lock, then `UseTheirs`/`InsertOurs`. `Drop` is a caller letting go of its `Arc`. |
| `TzStore` | `TzStore` around `TzCache` | adds the search path cell `paths`, `systemTz`, and where a loading thread is (`phase`, `snapshot`). `freeThreaded` says which build runs: `AfterInit` is the second look of the free-threaded path cell, or the unconditional assignment of the GIL build. Every step that touches the cache is a step of `TzCache` conjoined with what the rest of the store does. |
| `OnceCell` | `OncePyCell`, both builds | `freeThreaded` says which build runs; `GilStore` is the unconditional assignment of the GIL build, `Store` the second look under the write lock |
| `OncePyObj` | `OncePyObj` over `SwapPtr` | pointer, reference counts, compare-and-swap |
| `TimePatch` | `Patch` of the module state under `patch_current_time` | `patch` (unset, frozen, ticking), `blocks` (the nested context managers with their pins), `clock`, and what `time_machine` adds; enter, the two halves of a shift (`shifting`: a ticking one reads the clock twice), leave |
| `PyTzStore` | `_tz/store.py` | one action per dict or global operation; `locked` says whether `_Lock` is a lock in this build |
| `Bisect` | the loop of `bisect` | `left`, `right`, `size`, one action per iteration |
| `ZonedDateTime` | the class | one object `zdt` that every call replaces by its result; `db` is what the store answers; `pickled` outlives changes of `db`; an error leaves the object and is recorded in `outcome` |
| `Dates` | the `Date` class | `obj`, a second date `other`; one action per method; `err` is the last call's error |
| `Values` | `TimeDelta`, `DateDelta`, `DateTimeDelta`, `Time`, `Instant`, `PlainDateTime`, `OffsetDateTime` | `obj` of any of the classes, an operand `other`; one action per method, which returns, raises or panics |
| `Text` | text in and out of the classes | a `value` is formatted by a `spec`, the `text` may be changed by one symbol or cut, and is parsed (`out`) |

Operators they are built from: `TimeZone` (tables, lookups, `resolve`), `PosixTz`
(strings, and the lookups of a zone that has one), `ZonedDifference`, `Calendar`,
`Rounding`, `Difference`, `Deltas`, `DateTimes`, `IsoText`, `Pattern`.

`TzStore` extends `TzCache`; `Bisect`, `ZonedDateTime` and `PosixTz` extend `TimeZone`;
`PosixTz` puts a rule with DST where `TimeZone` has the constant offset of a string
without; `Dates`, `Deltas`, `DateTimes` and `Values` build on `Difference`, which extends
`Calendar` and `Rounding`. `ModuleState` composes the three parts of the module state
that share nothing with the store: `OnceCell`, `OncePyObj` and `TimePatch`, interleaved. `TimeZone` defines `bisect` by what it returns (the
first entry after the time looked up); `Bisect` models the loop and is proved to
return just that.

Conventions. An `Arc` is an object identity; its count is not stored, an object is
alive while some strong reference exists. `None` is the absent option, `<<>>` and
`<<v>>` are options of records. A result is `Ok(...)` or `Err(e)`; the error `"panic"`
stands for an `unwrap()` of `None`. In the calendar modules `NoDate`, `NoPlain`,
`NoInstant` and their like are the `None` of the code. A definition marked `mutant` is a
plausible bug: it is not used by any specification and shows, when put in the place of
the definition that follows it, that the property concerned notices.

Abstractions. Paths, file contents, TZ IDs are model values: `Provides[p]` says which
TZ IDs can be read under a setting of the search path. In `TimeZone` and `ZonedDateTime`
time is counted in whole seconds with `Ticks` parts, in a small range that is treated at
its ends like the years 1 and 9999. `Calendar` and `Dates` have the real calendar with its
real range. `PosixTz` counts hours on that calendar. `Deltas` and what follows have the
real calendar and a scaled clock (so many hours per day, down to the nanosecond), so that
the whole range fits into TLC's 32 bits; the code's own limits are computed from the same
constants. In text, digits are symbols and a name of a month, of a weekday or of a zone
is one symbol. Lookups that are one lock section in the code are one action.

## The runs

| run | question | answer |
|---|---|---|
| `tzcache` | Can threads that look up, drop and clear zones end up with two live objects for one TZ ID, or an LRU that pins what no lookup finds? | No: `SharedIdentity`, `LruCoherent`. The LRU holds the most recently used zones in order (`LruIsMostRecentlyUsed`), and every behaviour is one of `InternTable` (`ImplementsInternTable`). |
| `tzstore` | What can `reset_tzpath`, `clear_tzcache` and `reset_system_tz` lose to lookups that are under way? | Without the GIL the path override is never undone; with it, only by a call that was reading the path from the environment when it was set (`TzPathOverrideWins`). After a clear, a zone of the old path can come back only from a load that had begun before it, or where the override itself was undone (`OnlyRacingLoadsSurviveClear`). The cached system timezone is alive and interned (`SystemTzIsInterned`). |
| `module_state` | Do all users of a lazily initialised cell see one value, are references counted right when initialisers race, and does patched time add up? | Free-threaded: yes, and `set()` is final (`FreeThreadedAgrees`, `StableOnceInitialised`). With the GIL a `set()` can be lost, only to a `get()` that was running its initialiser (`SetLostOnlyToRunningInit`). Borrowed pointers are owned, and at rest there is exactly one reference (`ReferencesBalance`). `now()` is the start of the block plus its shifts plus the time since, less what passes inside a shift (`PatchedTimeAddsUp`), within the limits given [below](#conditions-in-the-properties). |
| `pystore` | Does the Python store keep its dicts consistent without a lock? | Both dicts file every zone under its own TZ ID, and agree as long as calls do not overlap (`TablesAgree`); the LRU is within its limit once the threads are done, with the lock at every step but one (`LruWithinLimit`). Calls that do not overlap return the zone asked for (`AloneReturnsZoneOfKey`). |
| `timezone` | Are the two tables of a zone inverse to each other at every second of every gap and fold, and is the binary search right on every sorted table? | Yes (`MappingInvertsOffset`, `ReturnsFirstAfter`, `Terminates`), and the DST saving leads back to a standard offset (`SavingLeadsToStandard`). |
| `zoned` | Can a sequence of calls produce an object whose offset its zone does not have, or a panic? Do units and differences fit together? | No (`OffsetIsValid`, `NothingPanics`). Units contain the object and line up (`UnitsContainObject`, `BoundariesLineUp`). A difference leads back when it is added, and `TimeDelta.in_units` and `total` relative to an object agree with `since`, although signs are put together in two different ways (`ZonedDifferenceAddsBack`). |
| `zoned_pickle` | What if a pickle outlives a change of the tz data? | The stale offset is kept by `unpickle`, and gone after the first call that computes a new object (`OffsetIsValid`). |
| `calendar` | Does the calendar count? Do POSIX rules mean what their text says? | Day numbers, weekdays, ISO weeks and nth weekdays agree with counting on every day of a 400-year cycle and at both ends (`CalendarCountsDays`, `WeekdaysCount`). Differences of dates add back and are maximal (`DifferenceAddsBack`) and round by their mode (`DifferenceRoundsByMode`). Offsets follow a reference written from the text (`OffsetFollowsRules`), local times invert them (`FooterMappingInverts`) and no transition is lost or invented (`FooterFindsEveryChange`), also where the table hands over to the string. |
| `values` | Is the arithmetic of deltas and datetimes exact, up to the ends of their ranges? | Text and pickles of deltas read back (`DeltaTextRoundTrip`); units of a TimeDelta add up, rounded by their mode, with and without `relative_to`, and division with remainder is Python's (`ExactUnitsAddUp`); differences of datetimes and totals lead back (`DateTimeDifferenceAddsBack`); units tile the time line (`DateTimeUnitsTile`); instants add exactly (`InstantsAddExactly`). |
| `text` | Is what was written read back? | By a pattern that separates its fields, if it can express the value (`PatternRoundTrip`); whatever such a pattern accepts, even after an edit, is stable under format and parse (`ParsedReadsBack`); ISO 8601 in every precision and RFC 2822 read back, and texts have the length that was allocated for them (`StandardTextsReadBack`). |

`pystore_fastpath` and `text_offset` show a disagreement; see
[below](#disagreements-between-the-code-and-what-is-said-of-it).

## Conditions in the properties

- `UnitsContainObject` leaves out calendar units whose first or next midnight lies
  strictly inside a gap or fold (`Regular`): there it does not hold, see below.
- `BoundariesLineUp` leaves out hours and shorter units in zones with a fold that takes
  longer than the unit and is no whole number of them (90 minutes and hours): the code
  promises it only for calendar units.
- `ZonedDifferenceAddsBack` claims signs and fractions only in zones where the date never
  steps back (`DatesInOrder`), and a fraction below one only where the next day is not
  skipped. That a difference leads back is claimed everywhere.
- `PatchedTimeAddsUp` says nothing of a block after a nested one has ended or after a shift
  through another block; of a frozen time that is shifted again after a shift that led
  before 1970 and raised (`now()` after the one that raised is covered: it is as before);
  and of times before 1970, which only `time_machine` brings, only at whole seconds. A shift
  of a ticking time reads the clock in `Instant.now()` (`_utils.py:53`) and again when it
  sets the patch (`pymodule/patch.rs:27`): what the clock moves between the two is lost, and
  the property counts it out (`DueAfterShift`).
- `TzPathOverrideWins` allows one loss, in the GIL build (`OverrideLost`): an initialiser of
  the path cell that was running at `reset_tzpath` and has stored its result since. Then the
  path is that of the environment, and `OnlyRacingLoadsSurviveClear` allows zones of it.
- `DateTimeDifferenceAddsBack` and `InstantsAddExactly` leave out the first second of the
  range, where `Instant::shift` may refuse a result that is in range.
- `ExactUnitsAddUp` takes evenness for `half_even` within the second where the increment
  divides the second, as the code does.
- `FooterMappingInverts` and `FooterFindsEveryChange` leave out the first and last two days
  of the range; `OffsetFollowsRules` begins with the first transition of the range.
- `PatternRoundTrip` and `ParsedReadsBack` ask that no field can swallow the beginning of
  the next (`Separated`), as no pattern without separators can be read back.

## Bounds

- `tzcache`: two threads are enough for every race of `get_or_insert_with` with itself
  (its two lock sections each see the table once). Three keys and an LRU of two make
  eviction, promotion from the middle and promotion of the last entry happen; four
  objects allow a freed one to be replaced while an expired weak reference remains.
- `tzstore`: both builds, two TZ IDs, one in both settings of the path and one only in the second
  and in the `tzdata` package, and one malformed. `MaxCalls = 2` bounds the calls of
  `reset_tzpath` and `clear_*`: a change and a clear, in either order.
- `module_state`: three threads (two that initialise and one that does not), five
  values, so that each may compute a value of its own around two calls of `set`; three
  objects, initialisers may return the same one; two nested blocks, a clock of four
  ticks that can move in the middle of a shift, two ticks to the second, times before 1970,
  shifts in both directions.
- `pystore`: two threads, two keys, an LRU of one: the eviction happens on every
  second zone. `MaxKeys = 1` bounds the arguments of a clear by keys.
- `timezone`: files of up to three transitions at the seconds 4, 8, 9, 13, with types of
  offsets -2, 0, 1, in a range of 24 seconds. Transitions one second apart, changes of
  one, two and three seconds, and no transitions at all are among them. Tables of up to
  six entries over four times with repeats for the binary search, and targets between,
  on and outside them.
- `zoned`: four days of eight seconds of two ticks. Nine zones have a gap and a fold
  within a day, over midnight, at midnight, of a whole day, a fold longer than an hour
  (two seconds), and a fold of half an hour. Every instant that has a local time in range
  is an initial object, and every object at a whole second the other side of a
  difference. One TZ ID: conversion between zones is covered by the theorem.
- `zoned_pickle`: two days, two zones, one of which lacks an offset that the other has.
- `calendar`: every day of a cycle of 400 years (146,097 days), 120 days at either end of
  the range; calls from seven dates (29 February, month ends, the ends of the range) to
  each other; eight TZ strings of every kind of rule over 460 days from one start
  and 120 days at either end of the range, alone and behind two or three recorded transitions. `MaxCalls = 1`: each method once,
  and the properties look at all pairs.
- `values`: a day of 4 hours of 3 minutes of 2 seconds of 12 nanoseconds, so that tenths of
  a unit are still several nanoseconds. `MaxCalls = 2`: a call on the result of a call, from
  objects at the ends of the ranges, around zero and on awkward dates.
- `text`: six values with vanishing fields, a time on either side of noon and midnight, and
  offsets of both signs down to the second; 34 patterns of the six classes, some of them
  wrong; ISO in every precision, the text of a ZonedDateTime read as an OffsetDateTime.
  `MaxEdits = 1` symbol is changed or cut. The one zone of the texts has the offsets of the
  six values, and a text with another TZ ID or offset is refused.

`CHECK_DEADLOCK FALSE` stands where the system may stop: an object near the end of time
may have no call left that succeeds (`zoned`, `zoned_pickle`), a cell that was dropped is
never used again (`module_state`), a file is loaded once and a search ends (`timezone`), and
where the number of calls is bounded (`calendar`, `values`, `text`).

## Fairness

Only the loop of `bisect` has fairness: weak fairness of its next step. It is a loop of
one thread that waits for nothing, so it is run to its end (`Terminates`). The store's
calls end or not with the file system and the Python code they call, so no liveness is
claimed of them: what a thread may find when it goes on is covered by the safety
properties, which hold however long a thread stays where it is.

## What is proved

All theorems hold for every value of the constants that satisfies the named
assumptions, which are part of the modules that declare the constants and evaluated by
the runs.

**`TzStoreProofs`**, the cache (any threads, keys, objects, any capacity above zero). The
inductive invariant is `IndInv`: `TypeOK`, `LruCoherent`, `SharedIdentity`,
`LoadedIsPrivate` and `ThreadsOK` together. None is inductive alone. `SharedIdentity` (a
zone in use that was not cleared is what its TZ ID resolves to) survives `InsertOurs` only
because the loaded object was private, and `LruCoherent` survives the overwriting of an
expired weak entry only because nothing in the LRU is expired. Lemmas about
`new_to_lru` and `promote_lru` say which elements they keep. Theorems: `TypeCorrect`,
`LruCoherence`, `IdentityIsShared`, `LoadedZonesArePrivate`, and `CacheInterns`: `Spec`
implements `InternTable`, with `canon` the function that upgrades each weak entry.
`LruKeepsMostRecentlyUsed`: the history keeps for each key the keys used since its own last
use (`since`); a key stands in the LRU before another exactly if it was used later, and
`promote_lru` and `new_to_lru` move one key in front of all and leave the others in order.

The store around it: `StoreOwns` says that the store owns a reference to the system
timezone, cached or on its way to the cell. From it every step of the store is a step of
the cache or leaves the cache alone, so `StoreSpec => Spec` (`StoreImplementsCache`) and the
cache's theorems hold of the store (`StoreSharesIdentity`, `SystemTzInterned`).
`TzPathOverrideIsFinal`, in either build, by `OverrideInv`: once the path was set, the cell
is never empty, so that nobody begins to initialise it and whoever is still at it was so when
it was set; the free-threaded cell then stays, the one of the GIL build stays or is lost to
the environment's path.

A second invariant says what survives `clear_all`. `SettledInv`: since the last clear, as long as
`reset_tzpath` is not called, the search path is the one it had then or the one the override
was lost to (`CurrentOrigins`), every thread that was not looking up during the clear
has a snapshot and a loaded zone of these, and every table entry is of it or was left by
one of the early threads, *whether its zone is alive or not*: the property speaks of live
zones, but an expired entry is upgraded by nobody and still must not come back. Theorems:
`StoreTypeCorrect`, `OnlyRacingLoadsAreStale`.

**`ModuleStateProofs`** (any finite set of threads, any values, objects, clock, shifts and
nesting). One invariant per part of `ModuleState`, since they share no variable. `CellInv`
relates the slot of the `OncePyCell`, the last `set()`, and the threads that were
initialising then: `CellTypeCorrect`, `FreeThreadedBuildAgrees`, `FreeThreadedIsStable` (an
action property), `SetLostOnlyToRace` (either build). `ObjInv` counts: the references of an
object are the threads between their initialiser and their compare-and-swap that own it,
and one more if the pointer is it; results are the pointer; a dropped cell has no thread
inside. The steps change a set of owners by one element (`FiniteSetTheorems`):
`ReferencesAlwaysBalance`. `PatchInv`: the patch is the one of the innermost block as long as
nothing came between, and every outer block has had something come between; in the middle of
a ticking shift, its pin is what `now()` was at the first reading of the clock plus the shift
(`ShiftInv`): `PatchedTimeIsExact`.

**`PyTzStoreProofs`** (any finite set of threads, any keys, objects, LRU size, with and
without a lock). `FiledInv`: both dicts file zones under their own key and the LRU has a key
once, and the locals of a thread at each step fit the step. `AloneInv` is about calls that do
not overlap: what is true of `_last_tz_key` and `_last_tz_val` and of both dicts at each step
of the one thread in the store. To be inductive it has to say that the key is `None` while a
clear has reset it and not yet the value. `LimitInv`: the LRU exceeds its limit by at most the
threads that have inserted and not yet evicted; with the lock, there is one of those and the
entry it pops exists. Theorems: `PyTablesAgree`, `PyAloneReturnsZone`, `PyLruWithinLimit`.

**`TimeZoneProofs`** (any zone that is `WellFormed`). `WellFormed` says what a sane TZif
file gives: transitions in order, inside the supported range, no closer to each other
than the change of offset they make, and a POSIX string that continues the last offset.
The instants of a zone fall into spans of constant offset; `mapping_for_local` is shown to
name exactly the spans a local time falls into (`MappingPromise`), by cases on the entry
that `bisect` returns. `ResolveSound`: under every policy `resolve` gives an offset in force
at the resulting instant or an error that is not a panic. `ToOffsetSound`: so does the
conversion of an instant. `MappingIsInverse`: the offsets that lead from a local time to an
instant that has them are exactly those the mapping names: one, both sides of a fold, or
none in a gap.

**`ZonedDateTimeProofs`** (any well-formed zones, any day length, units, increments).
`IndInv`: `TypeOK`, `OffsetIsValid`, `PickleIsValid` (a pickle holds a valid offset of the
zone it was made with) and `NothingPanics`. One lemma per method rests on `ResolveSound` and
`ToOffsetSound`; the one on `end_of` shows that the step back from the next unit cannot
leave the range, since no offset is as long as a day. Theorems: `TypeCorrect`,
`OffsetAlwaysValid`, `NeverPanics`.

From that invariant alone follow two facts about units that compare two instants of one
zone. A boundary of a unit resolves through one entry of the local table, the object lies in
one span of constant offset, and the entry decides whether the boundary comes first in time
(`SpanCompares`, `CompatibleBefore`, `CompatibleAfter`): local order and order of instants
differ only across a fold, and there the two sides are whole spans.
`UnitsAlwaysContainObject`: a unit contains its object. `BoundariesAlwaysLineUp`: the tick
after a unit is a start of a unit; where the next boundary is skipped, the end of the gap is
the start of the same unit (`StartAfterGap`, `GapEndKeeps`), and a fold of whole units repeats
whole units. The length of a day is positive only in zones whose gaps of a day or more skip
whole dates (`SkipsWholeDates`, as Samoa did): a gap of a day and a half that begins at noon
would contain a midnight whose resolution is after that of the next one.

The same module proves the loop of `bisect` for any sorted table. `LoopInv`: everything
left of `left` is at or before the target, everything from `right` on is after it, `size` is
their difference. Theorems: `BisectReadsInBounds`, `BisectCorrect`. On the files of
`MCTimeZone`, with any number of transitions, `ZoneInv` says that the loaded zone is what
`parse_content` makes of a file that gives a well-formed zone: `LoadedMappingInverts` follows
from `MappingIsInverse`, and `SavingIsFromStandard` from what `LastStd` and the first standard
type are.

**`DateProofs`** (every date from 0001-01-01 to 9999-12-31, every argument): what the proofs
about dates, POSIX strings and datetimes share. The conversion of a day number to a date is
Neri and Schneider's: two divisions by multiplication whose error must not show anywhere in
the range. Both directions are put in terms of a century, a year of it that begins in March,
and a day of that year (`MarchDays`). The year and the day of the year come out of the two
halves of one product because 2939745 * 1461 = 2^32 + 149 and a century has too few days for
the excess to carry (`YearByProduct`); the month and its day come out by cases over the
twelve months (`MonthOfDay`, `MonthBack`). So `UnixDaysDateInverts` (date to number to
date), `UnixDaysDateSound` (every number has a date), then `TomorrowIsNext`,
`ShiftDaysAdds`, and `DateOrder`: dates compare as their numbers do. `RoundsByMode`:
`RoundMultiple` meets the definition of its mode (`RoundsTo`) for every value and every
increment in nanoseconds that is even or 1, which every whole number of microseconds or of a
larger unit is. For other odd numbers of nanoseconds it does not hold: half of them is
rounded down (see below).

What differences of dates and of datetimes share is here as well. Dates compare as their
numbers do, and so do months and years, even where a date on the way has a day its month lacks
and is cut only later (`IsInterim`). `Reaches` says that a date on the way has not passed the
target. From it each unit lands: the target is between the date its number leads to and the
one an increment more leads to (`YearsLand`, `MonthsLand`, `WeeksLand`, `DaysLand`). The point
of these is the correction by one increment: the truncated quotient of years or months can
overshoot only where nothing was truncated, so one step back is enough, and it never changes
the sign. For several units, `AfterYears`, `AfterMonths`, `AfterWeeks` and `AfterDays` say after
each one that the fields so far, added to the other date, lead to the date on the way, although
the code adds years without cutting the day, then months, and `shift_by` adds them together
(`MonthsLead`, `MoreMonthsLead`); at the end the smallest unit has one more step that leads
past (`DifferenceLeads`).

**`CalendarProofs`** (the same dates, through any calls). `DatesInv` says that both objects
of `Dates` are dates that exist; every call keeps it (one lemma per method that returns a date
or `None`), so what holds of every date is an invariant of the run: `CalendarAlwaysCounts` and
`WeekdaysAlwaysCount`. The latter counts the days of a name in an interval by a bijection with
the numbers of weeks (`WeekdaysCounted`). `MinusAddsBack`: the difference `a - b` of dates,
added to `b`, gives `a`, and its parts have one sign; by the three cases of the code, the
months on either side of a year's end apart.

The same module proves that the lookups of POSIX strings fit together, for every string that
is `Settled`: its rules stay four days clear of New Year in every year, and DST begins and
ends in the same order, twice the change of offset apart, in every year. The lookup by
instant asks the rules of the year at the standard offset, the lookup by local time those of
the local year: near New Year the rules of either year answer alike (`RulesOfNearYear`), so
`StringMappingInverts`. Where a file has transitions of its own (`HandsOver`: the last one
is one of the string's, of some year), the table ends at one time by instant and at another
by local time; below that the mapping is the one of the table (`TableInverts`), above it the
one of the string (`BeyondTableInverts`), and together they are `FooterAlwaysInverts`. The
searches for transitions go through the rules of this and a neighbouring year, and cross
from the table to the string and back: `StringNext`, `StringPrev` and `TableFinds` say that
each finds the nearest change, `StringFindsEveryChange` and `FooterAlwaysFindsChanges` that
next and previous agree with the offsets on either side of it.

That offsets are those the text describes is `OffsetAlwaysFollowsRules`. A rule stands for the
hour that its text says (`RuleReads`): the code counts weeks from the first or back from the
last day of the month, the reference ranks the days of that name in the month
(`WeekdayRuleReads`; such days are seven apart, `RankOfDays`); and both ways of counting days
from New Year agree with theirs (`JulianRuleReads`, `NumberRuleReads`). The code then asks the
rules of one year, the reference takes the last transition of that year and its two
neighbours: `LastTransition`. At both ends of time the local time is out of range and clamped,
and a neighbouring year does not exist: `RulesOfYear`.

Differences in calendar units round by their mode and add back, for all sets of units, modes
and increments, on the lemmas of `DateProofs`: `NeighbourByMode` rounds between the two
neighbours of a quotient, which with one unit is `DifferencesRound`; `LeadsToTarget` puts
several units together: `DifferencesAddBack`.

**`ValuesProofs`** (any scale of the clock, any arguments, any number of calls). Days,
seconds and nanoseconds are quotients and remainders of one number, by any positive factors
(`ClockFacts`, `SecsSplit`, `QuotientIn`). `ShiftInstantAdds` is the carry of the sub-seconds
under two range checks, `MillisRoundDown` the timestamp before 1970, `PlainIsInstant` and
`OffsetComesBack` the way to an instant and back. `EveryUnitTiles` is about the boundaries of
units, in parts: for units of the clock the start cuts down to a multiple of a divisor of the
day (`CutTo`), and the next start computed field by field with its carries is the multiple
above (`NextStartCarries`), so that midnight is one of them; for units of the calendar the
start, the end and the next start of the month, the week or the year are put in terms of day
numbers (`DateTiles`, `WeekTiles`, `MonthTiles`).

The invariant is `ObjectsInRange`: both objects are in the range of their class (`InRange`: a
time within the day, an instant within the range, a date that exists, an offset below a day, and
the deltas in their ranges). The range of a `TimeDelta` is not that of its arithmetic: rounding
checks the whole seconds of the result only and negation nothing, so that an object may lie less
than a second beyond `TimeDelta::MAX`, and that is as far as it gets (`SecondsFit`, `NegateType`,
`DivisionType`). The months and days of a delta are in range and have one sign, whichever
operation made them (`DeltasFit`); the time of a `DateTimeDelta` may have the other sign.
One lemma per operation says what it returns for any argument of its type, an error among it
(`DeltasFit`, `IntoPlainType`, `BoundaryType`, `ShiftedInstantType` and so on). Some of them are
folds over keyword arguments and the parts of a text, which the prover cannot do by induction:
that a fold is defined on every number of arguments follows from the smallest number on which it
would not be (`FoldExists`), and what each step keeps, the fold has, in the same way
(`FoldKeeps`). `ValuesStayInRange`, and from it `InstantsAlwaysAdd` and
`DateTimeUnitsAlwaysTile`.

`InRange` says nothing of the instant of an `OffsetDateTime`, because `OffsetDateTime.round` may
lead past the end of the range. `OnlyRoundLosesInstants` is the rest of it: every other call that
makes an `OffsetDateTime` makes one that has an instant. `assume_offset` checks the local seconds
less the offset, which are the seconds of the instant (`SecondsOfPlain`, `AssumedInstant`);
`to_offset` checks the local time only, but starts from an instant, which comes back
(`ToOffsetInstant`).

`ExactUnitsAlwaysAddUp` is about `TimeDelta.in_units`, `total`, `//` and `%`. The sum is first
rounded to a multiple of the smallest unit, then each unit takes its whole number from the
largest down. That nothing is left is the invariant of that walk (`Going`): what has been taken
and what is left add up to the rounded sum, they have its sign, and what is left is a multiple
of the smallest unit; each unit is a multiple of the next smaller one (`CoarserUnits`), so the
smallest takes it all (`ExactUnits`). The code rounds seconds and nanoseconds apart: with an
increment below the second it rounds within the second (`RoundsTimeDelta`). Every increment is
even or a single nanosecond, so that its half is whole (`ExactSteps`); an error is the only
other result (`RoundsOrFails`). With `relative_to` the sum is put as a difference of datetimes
(`RelativeUnits`), and `FloorDivides` says that division rounds down and leaves a remainder of
the divisor's sign.

`DateTimeDifferencesAddBack` is about `since` and `until` of datetimes. A date is chosen
so that the time of day never has to borrow from it: the dates that with the other
time of day have not passed the object are those that have not passed the target
(`TargetDate`), so that the calendar units of the dates up to it never go too far
(`CalendarStart`). The exact units take the rest, which is less than one more of the smallest
calendar unit leads over, and is rounded towards zero (`ExactLeads`). `LeadsToInstant` turns
this into what `shift` returns for the parts, months before days before nanoseconds, with its
range checks. `TotalsAdd` divides the rest by the distance of the two neighbouring dates, which
is never zero here. The theorem, like the run, is about truncated units.

Assumptions. The constants that stand for sets of threads are finite where references or
entries are counted (`ThreadsAssumption`, `ThreadAssumption`); the marker `None` is no key,
object or value; sizes are positive; zones are `WellFormed` (`ZonesAssumption`), the range of
time is an interval (`RangeAssumption`), a second has ticks and shifts are whole numbers
(`TimeAssumption`); the initial dates exist and the arguments of calls are integers
(`DatesAssumption`), the walk at the end of the range begins inside it (`EdgeAssumption`),
and increments are within the range of `CalendarIncrement` (`IncrementsAssumption`); the
factors of the clock are positive and a microsecond is an even number of nanoseconds
(`ClockAssumption`), and the calls on values get objects in range, units, fields and numbers
(`ArgumentsAssumption`). The code grants these: they say what its types say. Three are about
tz data and not about the code: strings are `Settled` and files hand over to them as zic
writes them (`TextsAssumption`), no transition leaves the offset as it is
(`ChangesAssumption`), and rules are read as they stand (`RulesAssumption`: no time beyond
the limit and no day 365). Strings that are not like this exist and are listed
[below](#disagreements-between-the-code-and-what-is-said-of-it).

## Only model-checked

- `ZonedDifferenceAddsBack`: it quantifies over pairs of objects, and a difference is a fold
  over units whose dates on the way resolve in gaps and folds.
- `DeltaTextRoundTrip` of `values` and the properties of `text`: a text is a sequence of any
  length that a parser folds over, which would need an induction.
- Termination of `bisect`: liveness under fairness is out of the prover's reach.

## Disagreements between the code and what is said of it

Shown by runs:

- `pystore_fastpath`: `get_tz` compares `_last_tz_key` and then reads `_last_tz_val`
  (`_tz/store.py:91`). Another thread can have stored another zone in between, or `None`
  when it clears, and `get_tz` returns that. The comment at line 53 says the worst case is
  a missed hit.
- `text_offset`: an offset that a pattern reads is put together from its parts without a
  limit on the hours (`common/pattern.rs:1201`), although the comment at line 1492 says
  that the parts were validated and the seconds are within the bounds of `Offset`.

Met while modelling; these follow from the modelled definitions and are not kept as
runs.

Zones:

- A TZif file of version 1 without transitions passes the check for data, since the table
  by instant always has its sentinel; its local table is empty and the first local lookup
  unwraps `None` (`tz/tzif.rs:113`), although the comment above says that parsing has
  ensured an entry.
- A transition after the last supported second is clamped onto that second
  (`tz/tzif.rs:252`), which then has the wrong offset.
- POSIX strings: only the transitions of one year are looked at, so a rule whose time of
  day reaches into another year is missed; strings for permanent DST give a gap at the
  new year; a rule time of more than 167 hours and a bare `/` become 2 AM; the previous
  transition can be one of the string's that lies before the last recorded one; the
  handover is right if the last recorded transition is one between the string's own
  offsets, as zic writes it.

ZonedDateTime:

- `end_of` a day goes one nanosecond back from the resolution of the next midnight
  (`classes/zoned_datetime.rs:540`). Where the clocks jump over midnight from within the
  day before (Toronto, 1919-03-30), that is a time on the next day, and where a fold
  contains midnight it can be before the object.
- `since(total="days")` divides by the length of the next day
  (`classes/zoned_datetime.rs:1154`), which is zero where the zone skips it (Apia,
  2011-12-30): the result is infinite or not a number.
- Across a fold that contains midnight (St. John's until 2011) an earlier instant can have
  a later date, and `since` mixes signs (+1 day, -23 hours), against "all fields must have
  the same sign" (`docstrings.rs:212`).
- `round` with mode floor can move an object forward, when the rounded local time falls
  into a gap (`classes/zoned_datetime.rs:1082`; `docs/guide/rounding.md`).
- In `replace`, a `tz` argument that comes after `disambiguate` in the call overrides it
  (`classes/zoned_datetime.rs:687`).
- `prev_transition` drops the sub-second part of the object, and so does not find the
  transition at the second it is in (`classes/zoned_datetime.rs:942`).
- A `ZonedDateTime` made of a `datetime` takes its second from a float
  (`classes/zoned_datetime.rs:807`). From 2^34 seconds before or after 1970 on (1425, 2514) the
  float has no digit left for the last microsecond of a second and rounds up: 9998-01-01
  00:00:00.999999 becomes 00:00:01.999999, against "This 100% guarantees we preserve the same
  moment in time" at line 805. `FloatSeconds` allows the carry.

Shared state:

- A zone that began loading before `clear_tzcache` is inserted after it
  (`tz/store.rs:57`). `OnlyRacingLoadsSurviveClear` states exactly how far this goes.
- In the GIL build an initialiser that is running when `set()` is called overwrites it
  (`common/sync.rs:119`). `SetLostOnlyToRunningInit` states the limit for the cell alone,
  `TzPathOverrideWins` for the search path, where a first lookup undoes `reset_tzpath`.
- Leaving a nested `patch_current_time` unpatches entirely, although the docstring promises
  "similar semantics to `unittest.mock.patch`"; `shift` assigns its pin before the patch is
  set, which may raise (`_utils.py:60`), and a frozen time is then shifted on from a pin that
  `now()` never showed; a shift of a ticking time loses what passes between its two readings
  of the clock (`_utils.py:53`, `pymodule/patch.rs:27`); a ticking patch panics if the system clock is set
  back far enough (`pymodule/patch.rs:117`); nanoseconds before 1970 are divided towards
  zero (`pymodule/patch.rs:95`).

Arithmetic and text:

- `OffsetDateTime.round` does not check the range of its result
  (`classes/offset_datetime.rs:887`), against the invariant at
  `domain/offset_datetime.rs:13`: a later method that needs the instant panics.
- The sign of a DateTimeDelta is judged by whole seconds (`domain/datetime_delta.rs:23`):
  -1 day and +0.5 s pass and are written "-P1DT1.5S".
- `TimeDelta::round` by large increments checks only the seconds of its result
  (`domain/time_delta.rs:141`): at the very end of the range a later rounding below the
  second panics.
- Half of an odd increment is rounded down, so that a value just below the middle can
  round up; with sub-second increments `half_even` judges evenness within the second.
- `Instant::shift` checks the range before the carry of the sub-seconds
  (`domain/instant.rs:63`) and so refuses results in the first second of the range.
- `Instant.parse` with a pattern does not check the weekday; RFC 2822 drops the seconds of
  an offset.

## Not modelled

- Reading directories, files and environment variables: I/O. Its results are inputs. The
  byte layout of TZif files and pickles: data that no property tells apart.
- Reading Python arguments, building docstrings, registering types, the wrappers of C API
  calls, hashes and comparisons: no state of their own. `docstrings.rs` and `pymodule/def.rs`
  are tables of text and slots.
- `SyncCell`'s locks themselves: they are what makes a lock section one step.
- Floating-point numbers: TLA+ has none; totals are a whole part and a fraction, and of the
  timestamp of a `datetime` only the rounding to the next second is there.
- Conversions to and from `datetime` objects of the standard library, except where they
  pick an offset (`from_py_datetime`): they copy fields.
- The system timezone and the search path of the pure-Python store: the Rust store has
  them in `TzStore`.
- The pure-Python classes and zones: a second implementation of what is modelled from the
  Rust code, tested against the same suite.
- Months and years in shifts and differences of `ZonedDateTime`: its module has a calendar
  of days and weeks, since the interplay with gaps and folds does not depend on how many
  days a calendar unit has. `Difference` and `DateTimes` have them on the real calendar.

## Plan

The model is complete in the sense of the list above. What could be proved next:

1. `ZonedDateTime`: `ZonedDifferenceAddsBack`, along the argument of `DateTimeDifferencesAddBack`:
   a target date, calendar units up to it, exact units for the rest, with `SpanCompares` where
   dates on the way resolve in gaps and folds.
2. `Values`: `DeltaTextRoundTrip`, field by field.
