----------------------------- MODULE MemoryTable -----------------------------
(***************************************************************************)
(* The table that leads from the addresses in a file, which were those of  *)
(* memory when it was saved, to the bodies of its blocks.                  *)
(*                                                                         *)
(* A span of memory is named by the block whose body it points into, the   *)
(* offset in that body and its size.  A span that points nowhere has no    *)
(* block; it may have a size.                                              *)
(***************************************************************************)
EXTENDS Reflection

NoBlock == 0

Span       == [block : Nat, offset : Nat, size : Nat]
Null(size) == [block |-> NoBlock, offset |-> 0, size |-> size]
IsNull(s)  == s.block = NoBlock

(* Pointer arithmetic: a part of a span, or what lies behind it.           *)
Part(s, offset, size) ==
  [block |-> s.block, offset |-> IF IsNull(s) THEN 0 ELSE s.offset + offset, size |-> size]

(* A u64 and a std::size_t have the same width: sums of both wrap alike.   *)
Overflows(m, n) == m + n > MaxUsize

-----------------------------------------------------------------------------
MemoryRange(blocks, i) ==
  [head |-> blocks[i].address, tail |-> Wrap(blocks[i].address + blocks[i].length), block |-> i]

(* CreateMemoryTable: the ranges of the blocks that are not empty, sorted  *)
(* by a sort that leaves ranges of equal heads in any order.               *)
CreateMemoryTable(blocks) ==
  {ranges \in SetToSeqs({MemoryRange(blocks, i) : i \in {j \in DOMAIN blocks : blocks[j].length # 0}}) :
     IsSorted(ranges, LAMBDA r, s : r.head <= s.head)}

-----------------------------------------------------------------------------
Covers(range, head, tail) == range.head <= head /\ range.tail >= tail

(* GetMemory: in the first range that contains the memory.                 *)
\* Mutant: the offset is taken from the wrong end.
GetMemoryBackwards(ranges, address, size) ==
  LET tail  == Wrap(address + size)
      found == SelectInSeq(ranges, LAMBDA r : Covers(r, address, tail))
  IN  IF found = 0 THEN Null(0)
      ELSE [block |-> ranges[found].block, offset |-> ranges[found].head - address, size |-> size]

GetMemory(ranges, address, size) ==
  LET tail  == Wrap(address + size)
      found == SelectInSeq(ranges, LAMBDA r : Covers(r, address, tail))
  IN  IF found = 0 THEN Null(0)
      ELSE [block |-> ranges[found].block, offset |-> address - ranges[found].head, size |-> size]
=============================================================================
