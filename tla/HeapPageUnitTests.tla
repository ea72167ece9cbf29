-------------------------- MODULE HeapPageUnitTests --------------------------
(***************************************************************************)
(* The unit tests of heap_page.rs (mod tests), replayed on the page model  *)
(* at the real page size.  A test is a sequence of statements, each one    *)
(* call of the page (add_value, get_value, delete_value, get_free_space,   *)
(* get_header_size, to_bytes, from_bytes, into_iter) together with the     *)
(* assert the test makes about its result.  A run picks a test and         *)
(* executes its statements in order; an assert that does not hold, or a    *)
(* call that panics, stops the test as failed.                             *)
(*                                                                         *)
(* Every test names the bytes it expects get_value or next to return by    *)
(* the vector it inserted into that slot, so "the bytes the test expects   *)
(* at slot s" is the ghost stored[s].  The test's random and ascending     *)
(* byte vectors only matter through their lengths, which the tests fix.    *)
(* clone() and Page::new's page id are left out: every test goes on with   *)
(* the clone alone, and no statement reads the id except get_page_id.      *)
(***************************************************************************)
EXTENDS HeapPageIter

CONSTANT TUPLE_LEN  \* bytes of a serialized three-integer Tuple (CBOR or to_bytes)

VARIABLES
  test,     \* the test being run
  step,     \* index of its next statement
  saved,    \* page_bytes: the last to_bytes copy, with the ghost it stands for
  verdict   \* "running", "passed", or "failed"

testVars == <<page, stored, peak, iter, yielded, test, step, saved, verdict>>

-----------------------------------------------------------------------------
(* Statements.  `checked` is FALSE for a call whose result the test drops. *)

Stmt(op, arg, checked, want) ==
  [op |-> op, arg |-> arg, checked |-> checked, want |-> want]

AddSome(len, sid) == Stmt("add", len, TRUE, Some(sid))
AddNone(len) == Stmt("add", len, TRUE, None)
AddUnchecked(len) == Stmt("add", len, FALSE, None)
Get(sid) == Stmt("get", sid, TRUE, TRUE)          \* the bytes put in slot sid
GetNone(sid) == Stmt("get", sid, TRUE, FALSE)
Delete(sid) == Stmt("delete", sid, TRUE, TRUE)     \* Some(()) expected
DeleteUnchecked(sid) == Stmt("delete", sid, FALSE, TRUE)
(* PAGE_SIZE - get_header_size() - used = get_free_space()                 *)
FreeSpaceIs(used) == Stmt("free", used, TRUE, TRUE)
(* get_free_space() >= PAGE_SIZE - charged                                 *)
FreeSpaceAtLeast(charged) == Stmt("freeAtLeast", charged, TRUE, TRUE)
HeaderAtMost(n) == Stmt("header", n, TRUE, TRUE)
(* page_bytes = p.to_bytes(); `checked`: its length is asserted as well.   *)
ToBytes(checked) == Stmt("toBytes", 0, checked, TRUE)
FromBytes == Stmt("fromBytes", 0, FALSE, TRUE)
(* assert_eq!(page_bytes, p.to_bytes())                                    *)
SameBytes == Stmt("sameBytes", 0, TRUE, TRUE)
(* iter.next() asserted to give (bytes of slot ids[i], ids[i]), then None. *)
IterPairs(ids) == Stmt("iterPairs", ids, TRUE, TRUE)
(* for (i, x) in p.into_iter().enumerate(): tup_vec[i] == x.0             *)
IterPayloads(ids) == Stmt("iterPayloads", ids, TRUE, TRUE)
(* for _ in p { count += 1 }; count == n                                   *)
IterCount(n) == Stmt("iterCount", n, TRUE, TRUE)

AddRun(len, from, to) == [i \in 1..(to - from + 1) |-> AddSome(len, from + i - 1)]
GetRun(from, to) == [i \in 1..(to - from + 1) |-> Get(from + i - 1)]

-----------------------------------------------------------------------------
(* The tests.                                                              *)

T == TUPLE_LEN
Quarter == PAGE_SIZE \div 4
NumVals == (PAGE_SIZE - 8) \div (10 + 6)

HsPageSizesHeaderFreeSpace == << FreeSpaceIs(0) >>

HsPageDebugInsert == [i \in 1..20 |-> AddUnchecked(20)] \o << FreeSpaceIs(20 * 20) >>

HsPageSimpleInsert ==
  << AddSome(T, 0), FreeSpaceIs(T), AddSome(T, 1), FreeSpaceIs(2 * T) >>

HsPageSpace ==
  << AddSome(10, 0), FreeSpaceIs(10), AddSome(10, 1), FreeSpaceIs(20),
     AddSome(10, 2), FreeSpaceIs(30) >>

HsPageGetValue ==
  << AddSome(T, 0), Get(0), AddSome(T, 1), Get(1), Get(1), Get(0), GetNone(2) >>

HsPageHeaderSizeSmall ==
  << HeaderAtMost(8), AddSome(10, 0), HeaderAtMost(8 + 6) >>
  \o AddRun(10, 1, 3) \o << HeaderAtMost(8 + 6 * 4) >>

HsPageHeaderSizeFull ==
  << HeaderAtMost(8) >> \o [i \in 1..NumVals |-> AddUnchecked(10)]
  \o << HeaderAtMost(8 + NumVals * 6),
        FreeSpaceAtLeast(10 * NumVals + 8 + NumVals * 6) >>

HsPageNoSpace ==
  << AddSome(Quarter, 0), FreeSpaceIs(Quarter),
     AddSome(Quarter, 1), FreeSpaceIs(2 * Quarter),
     AddSome(Quarter, 2), FreeSpaceIs(3 * Quarter),
     AddNone(Quarter), FreeSpaceIs(3 * Quarter),
     AddSome(Quarter \div 4, 3), FreeSpaceIs(3 * Quarter + Quarter \div 4) >>

HsPageSimpleDelete ==
  << AddSome(T, 0), Get(0), AddSome(T, 1), Get(1), Delete(0), Get(1),
     GetNone(0), GetNone(2), Delete(1), GetNone(1) >>

HsPageDeleteInsert ==
  << AddSome(20, 0), Get(0), AddSome(20, 1), Get(1), AddSome(20, 2), Get(2),
     Delete(1), GetNone(1), Get(0), Get(2), AddSome(20, 1), Get(1),
     Delete(0), AddSome(40, 0), AddSome(5, 3), AddSome(5, 4) >>

HsPageSize == << AddSome(T, 0), ToBytes(TRUE) >>

HsPageSimpleByteSerialize ==
  << AddSome(T, 0), AddSome(T, 1), Get(1), Get(0),
     AddSome(T, 2), Get(2), Get(1), Get(0) >>

HsPageSerializationIsDeterministic ==
  << AddUnchecked(100), AddUnchecked(100), AddUnchecked(100),
     ToBytes(FALSE), FromBytes, SameBytes >>

HsPageIter ==
  AddRun(T, 0, 3)
  \o << ToBytes(FALSE), IterPairs(<<0, 1, 2, 3>>),
        FromBytes, Get(0), IterPayloads(<<0, 1, 2, 3>>),
        FromBytes, IterCount(4),
        FromBytes, AddSome(T, 4), ToBytes(FALSE), IterCount(5),
        FromBytes, DeleteUnchecked(2), IterPairs(<<0, 1, 3, 4>>) >>

HsPageTestDeleteReclaimSameSize ==
  AddRun(800, 0, 4)
  \o << Get(0), AddNone(800), Delete(1), GetNone(1), AddSome(800, 1), Get(1) >>

HsPageTestDeleteReclaimLargerSize ==
  AddRun(500, 0, 7)
  \o << Get(5), AddNone(500), Delete(1), GetNone(1), Delete(6), GetNone(6),
        AddSome(500 * 2 - 20, 1), Get(1) >>

HsPageTestDeleteReclaimSmallerSize ==
  AddRun(800, 0, 4)
  \o << Get(0), AddNone(800), Delete(1), GetNone(1), AddSome(800 \div 4, 1), Get(1) >>

HsPageTestMultiSer ==
  AddRun(500, 0, 2) \o GetRun(0, 2) \o AddRun(500, 3, 4)
  \o GetRun(0, 4) \o AddRun(500, 5, 7)
  \o << AddNone(500), Get(0), Get(1), Get(2), Get(7) >>

Tests ==
  [hs_page_sizes_header_free_space |-> HsPageSizesHeaderFreeSpace,
   hs_page_debug_insert |-> HsPageDebugInsert,
   hs_page_simple_insert |-> HsPageSimpleInsert,
   hs_page_space |-> HsPageSpace,
   hs_page_get_value |-> HsPageGetValue,
   hs_page_header_size_small |-> HsPageHeaderSizeSmall,
   hs_page_header_size_full |-> HsPageHeaderSizeFull,
   hs_page_no_space |-> HsPageNoSpace,
   hs_page_simple_delete |-> HsPageSimpleDelete,
   hs_page_delete_insert |-> HsPageDeleteInsert,
   hs_page_size |-> HsPageSize,
   hs_page_simple_byte_serialize |-> HsPageSimpleByteSerialize,
   hs_page_serialization_is_deterministic |-> HsPageSerializationIsDeterministic,
   hs_page_iter |-> HsPageIter,
   hs_page_test_delete_reclaim_same_size |-> HsPageTestDeleteReclaimSameSize,
   hs_page_test_delete_reclaim_larger_size |-> HsPageTestDeleteReclaimLargerSize,
   hs_page_test_delete_reclaim_smaller_size |-> HsPageTestDeleteReclaimSmallerSize,
   hs_page_test_multi_ser |-> HsPageTestMultiSer]

-----------------------------------------------------------------------------
(* Running a test.                                                         *)

(* Every payload the iterator over page p returns, calling next until it   *)
(* gives None, as the for loops and the chains of iter.next() do.          *)
RECURSIVE Drain(_)
Drain(it) ==
  LET c == IterNextCall(it)
  IN IF c.item = None THEN <<>> ELSE c.item \o Drain(c.it)

UnitInit ==
  /\ IterInit
  /\ test \in DOMAIN Tests
  /\ step = 1
  /\ saved = [page |-> page, stored |-> stored]
  /\ verdict = "running"

Cur == Tests[test][step]

Running(op) ==
  /\ verdict = "running"
  /\ step <= Len(Tests[test])
  /\ Cur.op = op

(* The assert of the statement: the test goes on, or stops as failed.      *)
Asserted(ok) ==
  IF ok THEN step' = step + 1 /\ UNCHANGED verdict
        ELSE verdict' = "failed" /\ UNCHANGED step

(* What the test expects get_value(sid) to return.                         *)
ReadsBack(sid) ==
  IF Cur.want THEN sid \in DOMAIN stored /\ GetValue(page, sid) = Some(stored[sid])
  ELSE GetValue(page, sid) = None

RunAdd ==
  /\ Running("add")
  /\ LET call == AddValueCall(page, Cur.arg)
     IN IF AddValuePanics(page, Cur.arg)
        THEN verdict' = "failed" /\ UNCHANGED <<page, stored, peak, step>>
        ELSE /\ ApplyAdd(call, Cur.arg)
             /\ Asserted(~Cur.checked \/ call.result = Cur.want)
  /\ UNCHANGED <<iter, yielded, test, saved>>

RunGet ==
  /\ Running("get")
  /\ Asserted(ReadsBack(Cur.arg))
  /\ UNCHANGED <<page, stored, peak, iter, yielded, test, saved>>

RunDelete ==
  /\ Running("delete")
  /\ IF SlotLive(page, Cur.arg) THEN DeleteValue(Cur.arg)
                                ELSE DeleteValueRejected(Cur.arg)
  /\ Asserted(~Cur.checked \/ SlotLive(page, Cur.arg))
  /\ UNCHANGED <<iter, yielded, test, saved>>

RunFreeSpace ==
  /\ Running("free")
  /\ Asserted(/\ HeaderSize(page) + Cur.arg <= PAGE_SIZE
              /\ GetFreeSpace(page) = PAGE_SIZE - HeaderSize(page) - Cur.arg)
  /\ UNCHANGED <<page, stored, peak, iter, yielded, test, saved>>

RunFreeSpaceAtLeast ==
  /\ Running("freeAtLeast")
  /\ Asserted(Cur.arg <= PAGE_SIZE /\ GetFreeSpace(page) >= PAGE_SIZE - Cur.arg)
  /\ UNCHANGED <<page, stored, peak, iter, yielded, test, saved>>

RunHeader ==
  /\ Running("header")
  /\ Asserted(HeaderSize(page) <= Cur.arg)
  /\ UNCHANGED <<page, stored, peak, iter, yielded, test, saved>>

(* to_bytes: the buffer, copied out whole.                                 *)
RunToBytes ==
  /\ Running("toBytes")
  /\ saved' = [page |-> page, stored |-> stored]
  /\ Asserted(~Cur.checked \/ Cardinality(DOMAIN page.data) = PAGE_SIZE)
  /\ UNCHANGED <<page, stored, peak, iter, yielded, test>>

(* from_bytes: a page over a copy of the saved buffer, taken verbatim.     *)
RunFromBytes ==
  /\ Running("fromBytes")
  /\ page' = saved.page
  /\ stored' = saved.stored
  /\ Asserted(TRUE)
  /\ UNCHANGED <<peak, iter, yielded, test, saved>>

RunSameBytes ==
  /\ Running("sameBytes")
  /\ Asserted(page.data = saved.page.data)
  /\ UNCHANGED <<page, stored, peak, iter, yielded, test, saved>>

(* The three ways the tests consume the page with into_iter; yielded      *)
(* records what the iterator returned.                                     *)
RunIter ==
  /\ verdict = "running"
  /\ step <= Len(Tests[test])
  /\ LET ys == Drain(IntoIter(page))
         ids == Cur.arg
     IN /\ yielded' = ys
        /\ \/ /\ Cur.op = "iterPairs"
              /\ Asserted(/\ \A i \in DOMAIN ids : ids[i] \in DOMAIN stored
                          /\ ys = [i \in DOMAIN ids |-> <<stored[ids[i]], ids[i]>>])
           \/ /\ Cur.op = "iterPayloads"
              /\ Asserted(/\ Len(ys) <= Len(ids)
                          /\ \A i \in DOMAIN ys : /\ ids[i] \in DOMAIN stored
                                                  /\ ys[i][1] = stored[ids[i]])
           \/ /\ Cur.op = "iterCount"
              /\ Asserted(Len(ys) = ids)
  /\ UNCHANGED <<page, stored, peak, iter, test, saved>>

(* The test function returns.                                              *)
Finish ==
  /\ verdict = "running"
  /\ step > Len(Tests[test])
  /\ verdict' = "passed"
  /\ UNCHANGED <<page, stored, peak, iter, yielded, test, step, saved>>

(* The test has returned or panicked: nothing happens any more.           *)
Returned ==
  /\ verdict # "running"
  /\ UNCHANGED testVars

UnitNext ==
  \/ RunAdd \/ RunGet \/ RunDelete \/ RunFreeSpace \/ RunFreeSpaceAtLeast
  \/ RunHeader \/ RunToBytes \/ RunFromBytes \/ RunSameBytes \/ RunIter
  \/ Finish \/ Returned

UnitSpec == UnitInit /\ [][UnitNext]_testVars

-----------------------------------------------------------------------------
(* Every unit test of heap_page.rs passes on the model at the real page    *)
(* size: each add_value returns the slot id or None the test asserts,      *)
(* each get_value, free-space, header-size and iteration assert holds, no  *)
(* call panics, and to_bytes after from_bytes gives back the same bytes.   *)
UnitTestsPass == verdict # "failed"

=============================================================================
