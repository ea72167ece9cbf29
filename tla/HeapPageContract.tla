-------------------------- MODULE HeapPageContract --------------------------
(***************************************************************************)
(* What a slotted heap page promises its caller, stated without bytes:     *)
(* the page is a partial map from slot ids to payloads plus the size of    *)
(* its slot directory.  An insert puts a payload at the lowest slot id     *)
(* that is not live, growing the directory by one entry when every         *)
(* existing entry is live, and is only allowed when the fixed header, the  *)
(* directory and every live payload still fit in PAGE_SIZE bytes.  A       *)
(* delete removes one live slot id and never shrinks the directory.        *)
(*                                                                         *)
(* HeapPage refines this module: its byte-level page, read back through    *)
(* get_value, is mapped onto records and its num_slots onto dirSize.       *)
(***************************************************************************)
EXTENDS Integers, Sequences, FiniteSetsExt

CONSTANT PAGE_SIZE

VARIABLES
  records,  \* live slot id -> payload (a sequence of bytes)
  dirSize   \* number of directory entries ever allocated

cvars == <<records, dirSize>>

HeaderBytes(n) == 8 + 6 * n

(* The lowest slot id that is free or past the end of the directory.       *)
LowestFreeId == Min({s \in 0..dirSize : s \notin DOMAIN records})

DirSizeAfter(id) == IF id >= dirSize THEN id + 1 ELSE dirSize

UsedBytes(r) == MapThenSumSet(LAMBDA s : Len(r[s]), DOMAIN r)

(* A payload of len bytes can be stored on the page as it is now.          *)
CanInsert(len) ==
  HeaderBytes(DirSizeAfter(LowestFreeId)) + UsedBytes(records) + len <= PAGE_SIZE

CInit ==
  /\ records = [s \in {} |-> <<>>]
  /\ dirSize = 0

CInsert ==
  LET id == LowestFreeId IN
  /\ DOMAIN records' = DOMAIN records \cup {id}
  /\ \A s \in DOMAIN records : records'[s] = records[s]
  /\ CanInsert(Len(records'[id]))
  /\ dirSize' = DirSizeAfter(id)

CDelete ==
  \E id \in DOMAIN records :
    /\ records' = [s \in DOMAIN records \ {id} |-> records[s]]
    /\ UNCHANGED dirSize

CSpec == CInit /\ [][CInsert \/ CDelete]_cvars

=============================================================================
