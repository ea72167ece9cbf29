# TLA+ model of the crustydb slotted heap page

This directory holds TLA+ models of `src/src/storage/heapstore`: the slotted heap
page in `page.rs` and `heap_page.rs`, its consuming iterator, its byte diff, its Debug output, and
the unit tests and stress test that exercise it. TLC checks all of them.

## Inventory

| Component | Source | Operations | Status, module |
|---|---|---|---|
| Slotted heap page | `heap_page.rs` 1-315, `page.rs` 7-31 | `Page::new`, `add_value` (with `find_lowest_free_slot_id`, `get_free_space`, `compact`, `shift_body_for_new_slot`, `set_num_slots`, `write_slot`, `set_free_start`), `get_value`, `delete_value`, `get_header_size` | modelled: `HeapPage`, contract `HeapPageContract` |
| Consuming iterator | `heap_page.rs` 318-353 | `into_iter`, `next` | modelled: `HeapPageIter` |
| Unit tests (`mod tests`) | `heap_page.rs` 355-893 | every `#[test]` except the stress test | modelled: `HeapPageUnitTests` |
| Stress test | `heap_page.rs` 896-961 | load loop, check through a clone's iterator, retry loop with random deletes | modelled: `HeapPageStressTest` |
| Serialization | `page.rs` 38-47, 76-80 | `to_bytes`, `from_bytes`, `clone` | modelled: `HeapPageUnitTests`, `HeapPageStressTest` |
| `compare_page` | `page.rs` 49-73 | the diff loop | modelled: `PageCompare` |
| Debug formatting | `page.rs` 82-152 | `fmt::Debug` | modelled: `PageDebug` |
| minigrep | `minigrep/src/main.rs` | argument parsing, file read, printing | not modelled: an unrelated tool; the `minigrep` library with `search` is not in the repository |

### How the parts interact

Every page operation is a synchronous call on one buffer. The spec (section 5)
leaves exclusive access to an external owner. The page has no threads,
callbacks or I/O.

What makes the page hard is the **sequence** of calls:
- Deletes leave holes.
- Reusing slot ids puts slot order out of offset order.
- One insert can compact the body, shift it right to grow the directory, and
  then write.

These steps share `free_start` and the offsets, and all of them must stay
consistent.

The iterator takes the page by value and walks its directory. The tests are
clients: sequential programs that call the page and assert on the results.

## Modules

- **`HeapPageContract.tla`** is the abstract specification.
  - `records` maps live slot ids to payloads; `dirSize` is the directory size.
  - `CInsert` puts a payload at the lowest id that is not live, provided
    `8 + 6·dirSize' + Σ|payload| ≤ PAGE_SIZE`.
  - `CDelete` removes one id.
- **`HeapPage.tla`** models `heap_page.rs` byte by byte.
  - `page` is the decoded buffer: `numSlots`, `freeStart` (the stored header
    value), `slot` (the decoded entries) and `data` (one abstract byte per
    position).
  - A byte is `ZERO`, `META` (a directory byte that `write_slot` wrote), or
    `<<s, i>>`: byte *i* of a payload inserted into slot *s*.
  - Each helper of the code is an operator from page to page:
    - `GetFreeStart`, with its lift and cap;
    - `SetFreeStart`, `SetNumSlots`, `WriteSlot` and `FindLowestFreeSlotId`;
    - `GetFreeSpace`, which saturates;
    - `Compact`: a `FoldLeft` of `copy_within` moves over `CompactOrder`, the
      live slots sorted by offset;
    - `ShiftBodyForNewSlot`: a memmove cut at the page end, a zero fill and the
      offset patch.
  - `AddValueCall(p, len)` is the whole of `add_value`, in the code's order:
    1. the two checks;
    2. `MakeRoom` (compact when the tail is short);
    3. `GrowDirectory`;
    4. the final bound check;
    5. the write.

    It returns the new page and the `Option` result.
  - `AddValuePanics(p, len)` holds when that call would panic. This happens when
    it compacts a page on which `CompactPanics` holds: some `copy_within`
    range runs past the buffer.
  - Actions: `AddValue` (only when it does not panic), `AddValueRejected` (a
    stutter), `DeleteValue` and `DeleteValueRejected`.
  - Ghost variables: `stored` (what each live slot was given) and `peak` (the
    most records ever live at once).
- **`MC_HeapPage.tla`** sets HeapPage up for TLC. It defines the view
  `Observable` and the refinement mapping to the contract:
  - `records <- [s ∈ Live |-> ReadBack(s)]`, where a live slot that `get_value`
    cannot read maps to `<<UNREADABLE>>`;
  - `dirSize <- numSlots`.
- **`HeapPageIter.tla`** extends HeapPage with the iterator.
  - `iter` is `None`, or `Some([page, currentSlot, numSlots])`, the struct that
    `into_iter` builds.
  - `IterNextCall` is one call of `next`. It covers the whole `while` loop, which
    skips every slot `get_value` cannot read.
  - `PageStep` runs page calls while the caller still owns the page. After
    `StartIter`, only `IterNext` steps happen.
  - `yielded` records what `next` returned.
- **`HeapPageStressTest.tla`** is `hs_page_stress_test` as a program over the
  page and iterator models.
  - `pc` is the next statement.
  - `queue` holds the lengths of the `original_vals` not yet stored.
  - `slots` and `vals` are `stored_slots` and `stored_vals`.
  - Each failure mode of the test is a `pc` value where the test stops:
    `ran_out` (the `expect` on `pop_front`), `assert_failed`, `empty_range`
    (`gen_range(0..0)`), `delete_failed` and `panicked`.
- **`HeapPageUnitTests.tla`** replays the other 18 tests of `mod tests`.
  - Each test is a sequence of statement records. A statement is one page call
    and the assert the test makes on its result, for example
    `AddSome(len, sid)` for `assert_eq!(Some(sid), p.add_value(..))`.
  - One action per kind of statement executes it on the page model and steps
    on, or stops with `verdict = "failed"`.
  - `to_bytes` copies the page into `saved`. `from_bytes` restores it.
  - The iterator statements use `Drain`, a RECURSIVE operator that calls
    `IterNextCall` until it returns `None`.
  - The bytes a test expects from slot *s* are the vector it inserted there,
    which is the ghost `stored[s]`.
- **`PageCompare.tla`** is the `for` loop of `compare_page`, one turn per step.
  - The state is `in_diff`, `diff_start`, `diff_vec` and `res`.
  - The two buffers are any pair of byte arrays of length `N`.
  - `DiffRuns` is a reference definition: the maximal runs of differing
    positions, in order.
- **`PageDebug.tla`** is the `while` loop of `fmt::Debug for Page`, one row
  per step.
  - The state is `pos`, `empty_lines_count`, and the string buffer as a
    sequence of lines: the PID line, a "hidden" line with its count, or a row
    with its offset and one cell per byte.
  - A cell is what the `match` prints: `.` for 0, `##` for 0xff, otherwise the
    two hex digits of `{:02x}` (`b \div 16`, `b % 16`).
  - `Chunk` reads a line back as the bytes it stands for. A hidden count of *n*
    stands for *n* rows of zeros.

### The view

`Observable` replaces hole bytes, tail bytes, and the offset and length of free
entries with zeros. The code never reads these bytes before it overwrites them:
- `get_value` and `compact` read live ranges only;
- the body shift carries holes along as holes;
- a new write lands on bytes it writes itself.

So two pages that differ only in these bytes behave the same. The view cuts the
32-byte page from millions of states to 3,132. `IterView` and `TestView` apply
`Observable` to every page the iterator or the test holds.

## Runs

| Run | Config | Result | What it shows |
|---|---|---|---|
| `page_ops` | `MC_HeapPage.cfg`: PAGE_SIZE 32, lengths {1,2,3,4,99} | pass, 3,132 states | For every sequence of calls, these hold: `TypeOK`, `LayoutSound`, `ValueRoundTrip`, `FailedInsertUnchanged`, `DirectoryTight`, `AddOutcomeExact`, `NoPanic`, and the refinement `ContractSpec` |
| `empty_payload` | `MC_HeapPage_empty.cfg`: lengths {0,1,2,12} | violation of `ValueRoundTrip` | Finding 1 |
| `compact_panic` | `MC_HeapPage_panic.cfg`: lengths {0,1,2,12} | violation of `NoPanic` | Finding 2 |
| `iter_exact` | `MC_HeapPageIter.cfg`: PAGE_SIZE 32, lengths {1,2,3,4,99} | pass, 12,892 states | `IterationExact` (P7), checked after any sequence of page calls and at every point of the iteration |
| `iter_empty_payload` | `MC_HeapPageIter_empty.cfg` | violation of `IterationExact` | Finding 3 |
| `stress_test` | `MC_HeapPageStressTest.cfg`: PAGE_SIZE 32, payload lengths {1,3,5}, 5 payloads | pass, 10,419 states | The stress test never fails (`StressTestPasses`): no `expect`, `assert`, empty `gen_range` or page panic, and every check iterates exactly the stored payloads |
| `unit_tests` | `HeapPageUnitTests.cfg`: PAGE_SIZE 4096, serialized tuple 24 bytes | pass, 469 states, about 2 min | All 18 unit tests pass on the model at the real page size |
| `compare_sound` | `PageCompare.cfg`: N 4, bytes {0,1} | pass, 1,536 states | Each run `compare_page` reports is a true maximal difference, in order |
| `compare_trailing_diff` | `PageCompare_complete.cfg` | violation of `ComparePageComplete` | Finding 4 |
| `page_ops_large` | `MC_HeapPage_big.cfg`: PAGE_SIZE 40, lengths {1,3,4,99} | pass, 46,078 states, about 1.5 min | The properties of `page_ops` with four live records, and compactions that move three of them |
| `debug_lossless` | `PageDebug.cfg`: sizes {8, 9}, 3 bytes per row, bytes {0, 0x1a, 0xff} | pass, 131,220 states | The Debug output reads back into exactly the page bytes, with each row at its offset (`DebugLossless`). At size 8 the last row is partial, as at 4096 / 40. At size 9 trailing empty rows are reported after the loop |
| `debug_trailing_zero_row` | `PageDebug_hidden.cfg` | violation of `DebugHidesEmptyLines` | Finding 5 |

### Why these bounds are enough

- **A 32-byte page.** It holds up to 3 live records (a record costs its
  payload plus a 6-byte entry) and a body of up to 18 bytes. That is enough
  for:
  - slot ids to be reused out of offset order and then compacted, with two live
    records moving (the slot-id-order mutant of `compact` is caught);
  - inserts that need the whole page;
  - directory growth at every size;
  - rejects from both checks.

  Length 99 exercises the oversize check. A 24-byte page cannot produce a
  compaction that moves two records.
- **A 40-byte page** (`page_ops_large`). Four records can be live, so a
  compaction moves up to three payloads past two holes. Length 2 is dropped
  to keep the run under 5 minutes: with it, TLC needs 4.5 minutes and 109,123
  states.
- **The stress test.** The test's own 300 payloads of 20 to 100 bytes are scaled
  down to 5 payloads of 1, 3 or 5 bytes:
  - three records fill the 32-byte page, so loading always ends on a full
    page;
  - the retry loop must delete one or two records and compact;
  - a 5-byte payload still fits an empty page that carries a 3-entry
    directory, so the loop can always finish.
- **The unit tests.** They run at PAGE_SIZE 4096 because their lengths (800,
  1024, 255 inserts of 10 bytes) are chosen for it.
  - `TUPLE_LEN` stands for the length of the CBOR encoding of a three-integer
    `Tuple`, produced by `common`, outside this repository. The asserts made
    on those tuples hold for any length that leaves room for five of them.
- **Debug output.** Rows of 3 bytes over buffers of 8 and 9 bytes cover:
  - a partial last row (8 = 2·3 + 2, as 4096 = 102·40 + 16);
  - a full last row (9 = 3·3);
  - runs of hidden rows at the start, in the middle and at the end;
  - all three kinds of cell.
- **`compare_page`.** Buffers of 4 bytes over 2 values contain every pattern of
  runs: a run at the start, in the middle, at the end, and two runs with a
  gap.

### Fairness and liveness

No run assumes fairness, and no run checks a liveness property.
- The page and the iterator are passive. Only their caller drives them, so
  their properties are all safety. The refinement is checked as the safety
  part of the contract's specification.
- The only loops are the stress test's, and every behaviour of that model is
  finite. Each failed retry removes a stored record, and an empty list is the
  `empty_range` failure. So the test either returns or stops in a failure
  state, and "it terminates and passes" says no more than `StressTestPasses`,
  which the deadlock check completes.

## Mutants

Each property of a passing run is broken by one plausible bug, and TLC finds the
violation under the run's own config:

| Run | Property | Mutant |
|---|---|---|
| `page_ops` | `TypeOK` | `GrowDirectory` forgets `set_num_slots` |
| `page_ops` | `LayoutSound` | `get_free_start` drops the lift to body_start |
| `page_ops` | `ValueRoundTrip` | compaction in slot-id order |
| `page_ops` | `FailedInsertUnchanged` | contiguity test without the header delta |
| `page_ops` | `DirectoryTight` | free-slot scan one entry short |
| `page_ops` | `AddOutcomeExact` | free space charging freed slots |
| `page_ops` | `ContractSpec` | body shift without the offset patch |
| `page_ops` | `NoPanic` | compaction only when the tail is two bytes short |
| `iter_exact` | `IterTypeOK` | `next` bumping `current_slot` once more |
| `iter_exact` | `IterationExact` | `into_iter` capturing one slot fewer |
| `stress_test` | `StressTestPasses` | compaction in slot-id order |
| `unit_tests` | `UnitTestsPass` | free space charging freed slots |
| `compare_sound` | `ComparePageSound` | a closed run not clearing `diff_vec` |
| `page_ops_large` | each property | the same mutant as under `page_ops` |
| `debug_lossless` | `DebugLossless` | a printed row not resetting `empty_lines_count` |
| `debug_lossless` | `DebugLossless` | the loop ending without the final hidden-lines report |

## Findings

1. **An empty payload loses a live record** (`empty_payload`).
   - `add_value` (heap_page.rs:79) computes the contiguous tail as
     `PAGE_SIZE.saturating_sub(free_start + extra_header)`. When `free_start`
     is within 6 bytes of the page end and a new entry is needed, this is 0.
   - For an empty payload the test `0 < 0` is false, so the page is not
     compacted.
   - `shift_body_for_new_slot` then copies only `PAGE_SIZE - new_body_start`
     bytes (line 288). This cuts the last payload short, but its offset is still
     bumped by 6.
   - After that, `get_value` returns None for a slot that was never deleted.
     The spec (4.3, P3) permits empty payloads and requires them to read back.
   - A trace: insert 1 byte, delete slot 0, insert 12 bytes, insert 0 bytes.
   - A positive length always triggers compaction in this case, which is why
     the passing runs use lengths ≥ 1.
2. **The next compaction then panics** (`compact_panic`).
   - The truncated slot has `offset + length > PAGE_SIZE`.
   - When the next compacting insert reaches it, `copy_within` at line 269
     panics. The spec (section 7) says failures are negative results, never
     panics.
3. **Iteration silently skips that record** (`iter_empty_payload`). `next`
   (line 332) skips every slot `get_value` cannot read. So a record that was
   never deleted is left out, contrary to P7.
4. **`compare_page` misses a difference at the end of the buffer**
   (`compare_trailing_diff`).
   - A run is pushed only when an equal byte follows it (page.rs:65-71).
   - When the loop ends inside a run, that run is dropped. Two pages that
     differ only in their last byte compare as equal.

5. **Debug output prints a zero tail instead of hiding it**
   (`debug_trailing_zero_row`).
   - For the last, partial row, page.rs:121 compares a slice of the remaining
     bytes with `comp`, an array of `BYTES_PER_LINE` zeros.
   - Slices of different lengths are never equal. So an unused page end is
     always printed as a row of dots, at offset 4080 with the real sizes,
     though the loop's comment says empty lines are hidden.
   - A consequence: at 4096 / 40, the report after the loop (line 146) can
     never run. `debug_lossless` reaches it with a 9-byte buffer.

## Not modelled, and why

- **Page id.** `Page::new` writes it and `get_page_id` reads it; nothing else
  touches it. The id is not in the page model, and the tests' `get_page_id`
  asserts are left out.
- **`clone` in the unit tests.** Each test goes on with the clone alone, so
  cloning does not change the model's page. The stress test does use both
  copies, and there `clone` is `CloneAndIterate`.
- **`from_bytes` of a foreign buffer.** In this repository the only buffers
  passed to `from_bytes` come from `to_bytes`, and that round trip is exact
  (`hs_page_serialization_is_deterministic` checks it). `LayoutSound` shows
  that every page the code can reach stores `free_start` within
  [body_start, PAGE_SIZE], so such buffers never need the clamp in
  `get_free_start`. The stale value it corrects exists only inside the first
  `add_value`, between `set_num_slots` and the write. A page written by
  another layout, the case the spec's clamp on `free_start` is meant for, is
  never built.
- **minigrep**, for the reason in the inventory.
- **Integer widths.** Offsets and lengths are u16. PAGE_SIZE is 4096 in the
  build, and no offset can exceed 4096 + 6, so nothing wraps.
- **Payload generations.** A payload's bytes carry the id of its slot. A bug
  that returned the stale bytes of an earlier payload of the same slot and the
  same length would therefore go unseen. Tagging payloads with a generation
  would close this gap, at a cost in states.
