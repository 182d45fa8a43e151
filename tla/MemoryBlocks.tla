---------------------------- MODULE MemoryBlocks -----------------------------
(***************************************************************************)
(* The allocators of memory.cpp, and those of ceres that give one item at a*)
(* time.  A program uses one.                                              *)
(*                                                                         *)
(* Memory::StaticAllocation has a stretch of memory whose free blocks are  *)
(* linked through their own first words.  Sizes are unsigned, so that no   *)
(* block is ever found too small: allocate takes the first of the list, fit*)
(* or not; and the rest of it begins as many records, not bytes, behind it *)
(* as were asked for.                                                      *)
(*                                                                         *)
(* LargeBlockAllocator gives the front of its largest free block, and the  *)
(* Factory makes objects and arrays in what it gives.  It takes an         *)
(* alignment and does not look at it.                                      *)
(*                                                                         *)
(* static_item and fixed_item have a buffer of items, the free ones linked *)
(* by the index each holds.  The index of static_item is of the smallest   *)
(* type that holds N-1, that of fixed_item has 32 bits; and fixed_item     *)
(* takes its memory with the first allocation.                             *)
(***************************************************************************)
EXTENDS Naturals, Sequences, SequencesExt, FiniteSets, FiniteSetsExt, TLC

CONSTANTS Overhead,     \* of a record that is in use: guard and size
          Pointer,      \* next, which only a free record has
          MaxBytes, Requests, Alignments,
          Bases,        \* where the memory may begin: allocate of a parent aligns nothing
          Word,         \* 2^w, what a size is taken modulo
          LargeBytes, LargeRequests,
          MaxBlocks,    \* bound on the large blocks in use
          Sizes,        \* how many items a buffer may have
          ItemWord      \* what the index of static_item wraps at

RecordSize == Overhead + Pointer
Minus(a, b) == (a + Word - b) % Word

VARIABLES
  allocator,   \* "static", "large", "static_item" or "fixed_item"
  free_bytes_,
  base,        \* the address of the memory
  free_list,   \* addresses of the free records, as they are linked
  size,        \* of each record: function from addresses
  allocated,   \* addresses of the records in use
  misfit,      \* a block was taken that was too small
  outside,     \* a record was written behind the memory
  free_list_,  \* records of free memory; a heap, of which one of the largest is the first
  used,        \* what has been given and not taken back
  filled,      \* createArray has filled what it took for memory
  N, mem_,     \* of items: how many there are, whether they have memory
  head_, index,  \* N, the end, when the list is empty
  given, failed  \* the items in use; an assertion has failed

staticVars == <<base, free_list, size, allocated, misfit, outside>>
largeVars == <<free_list_, used, filled>>
itemVars == <<N, mem_, head_, index, given, failed>>
vars == <<allocator, free_bytes_, staticVars, largeVars, itemVars>>

Record(memory, bytes) == [memory |-> memory, size |-> bytes]

(* The constructors of items, with the assertion that N is less than 2^w for  *)
(* as many bytes as N takes, which any N is; a copy gets its own memory.     *)
Items == 0 .. N - 1
StaticLinks == [i \in Items |-> (i + 1) % ItemWord]
FixedLinks == [i \in Items |-> i + 1]
ItemInit ==
  /\ N \in IF allocator \in {"static_item", "fixed_item"} THEN Sizes ELSE {0}
  /\ mem_ = (allocator = "static_item") /\ given = {} /\ failed = FALSE
  /\ index = IF mem_ THEN StaticLinks ELSE [i \in Items |-> 0]
  /\ head_ = 0

LargeInit == free_list_ = {Record(0, LargeBytes)} /\ used = {} /\ filled = FALSE

(* base_allocate_: memory of the system, or what allocate of a parent gives.  *)
base_allocate == IF allocator = "static" THEN Bases ELSE {0}

Init ==
  /\ allocator \in {"static", "large", "static_item", "fixed_item"}
  /\ free_bytes_ = IF allocator = "static" THEN MaxBytes - Overhead ELSE LargeBytes
  /\ base \in base_allocate
  /\ free_list = <<base>> /\ size = [a \in {base} |-> MaxBytes - Overhead] /\ allocated = {}
  /\ misfit = FALSE /\ outside = FALSE
  /\ LargeInit /\ ItemInit

-----------------------------------------------------------------------------
get_memory(record) == record + Overhead
alignment_offset(p, alignment) == (alignment - (p % alignment)) % alignment
check_free_record(record, bytes, alignment) ==
  Minus(size[record], bytes + alignment_offset(get_memory(record), alignment))

Sound == allocator = "static" /\ ~outside /\ ~misfit   \* what follows is undefined

(* write_free_record_, write_alloc_record_ *)
Write(record, bytes, sizes) ==
  [a \in DOMAIN sizes \cup {record} |-> IF a = record THEN bytes ELSE sizes[a]]

(* allocate: the offset is added to the size, never to the address.          *)
Allocate(requested, alignment) ==
  LET free == Head(free_list)
      bytes == IF requested < Pointer THEN Pointer ELSE requested
      diff == check_free_record(free, bytes, alignment)
      fragment == diff > RecordSize
      taken == ((IF fragment THEN bytes ELSE bytes + diff)
                  + alignment_offset(get_memory(free), alignment)) % Word
      rest == free + RecordSize * taken
  IN  /\ Sound /\ free_list # <<>>
      /\ allocated' = allocated \cup {free}
      /\ misfit' = (misfit \/ size[free] < bytes + alignment_offset(get_memory(free), alignment))
      /\ outside' = (fragment /\ rest + RecordSize > base + MaxBytes)
      /\ IF fragment
         THEN /\ free_list' = <<rest>> \o Tail(free_list)
              /\ size' = Write(rest, diff - Overhead, Write(free, taken, size))
              /\ free_bytes_' = Minus(free_bytes_, taken + Overhead)
         ELSE /\ free_list' = Tail(free_list)
              /\ size' = Write(free, taken, size) /\ free_bytes_' = Minus(free_bytes_, taken)

check_alloc_record(record) == record \in allocated
Deallocate(record) ==
  /\ Sound /\ check_alloc_record(record)
  /\ free_list' = <<record>> \o free_list
  /\ allocated' = allocated \ {record}
  /\ free_bytes_' = (free_bytes_ + size[record]) % Word
  /\ UNCHANGED <<size, misfit, outside>>

(* defragment: sorts, lets every block swallow those that follow it without  *)
(* a gap, links and counts again.  (The first of an empty list is undefined.)*)
Sorted == SortSeq(free_list, <)
contiguous_block(a, bytes, b) == a + bytes + Overhead = b
Run(sorted, i, sizes) ==   \* <<what follows the run of i, the bytes of the run>>
  LET bytes[n \in i .. Len(sorted)] ==
        IF n = i THEN sizes[sorted[i]] ELSE bytes[n - 1] + sizes[sorted[n]] + Overhead
      end == Min({n \in i + 1 .. Len(sorted) + 1 :
                   n <= Len(sorted) => ~contiguous_block(sorted[i], bytes[n - 1], sorted[n])})
  IN  <<end, bytes[end - 1]>>
Coalesce(sorted) ==   \* no block is looked at behind one whose run is the rest of the list
  LET done[i \in 0 .. Len(sorted)] ==
        IF i = 0 THEN [sizes |-> size, links |-> <<>>]
        ELSE LET last == done[i - 1]
                 run == Run(sorted, i, last.sizes)
             IN  IF i > 1 /\ last.links[Len(last.links)] > Len(sorted) THEN last
                 ELSE [sizes |-> [last.sizes EXCEPT ![sorted[i]] = run[2]],
                       links |-> Append(last.links, run[1])]
  IN  done[Len(sorted)]
Linked(sorted, links) ==
  LET next[i \in 1 .. Len(sorted)] ==
        IF i = 1 THEN 1 ELSE IF next[i - 1] > Len(sorted) THEN next[i - 1] ELSE links[next[i - 1]]
      there == SelectSeq([i \in DOMAIN sorted |-> next[i]], LAMBDA n : n <= Len(sorted))
  IN  [i \in DOMAIN there |-> sorted[there[i]]]
Defragment ==
  LET done == Coalesce(Sorted)
      list == Linked(Sorted, done.links)
  IN  /\ Sound /\ free_list # <<>>
      /\ free_list' = list
      /\ size' = [a \in ToSet(list) \cup allocated |-> done.sizes[a]]
      /\ free_bytes_' = FoldSet(LAMBDA a, n : (n + done.sizes[a]) % Word, 0, ToSet(list))
      /\ UNCHANGED <<allocated, misfit, outside>>

-----------------------------------------------------------------------------
Runs == allocator = "large" /\ ~filled
Push(list, rec) == list \cup {rec}
Pop(rec) == free_list_ \ {rec}
Tops == {r \in free_list_ : \A q \in free_list_ : q.size <= r.size}

(* allocate takes the largest block, or nothing if that is too small or there*)
(* is none; what it does not need goes back.                                 *)
Taken(bytes) ==
  \E rec \in Tops :
    /\ rec.size >= bytes
    /\ free_list_' = IF rec.size > bytes
                     THEN Push(Pop(rec), Record(rec.memory + bytes, rec.size - bytes)) ELSE Pop(rec)
    /\ free_bytes_' = free_bytes_ - rec.size + (rec.size - bytes)
    /\ used' = used \cup {Record(rec.memory, bytes)}

(* Factory::create, for any arguments, throws bad_alloc for null; what        *)
(* createShared makes is destroyed with the last pointer.                    *)
Create(bytes) ==
  /\ Runs /\ Cardinality(used) < MaxBlocks
  /\ Taken(bytes) /\ UNCHANGED filled

(* createArray takes its bytes, if they are there, casts what stands behind a*)
(* comma, the alignment, to a pointer and fills that.                        *)
CreateArray(bytes) ==
  /\ Runs /\ filled' = TRUE
  /\ \/ Taken(bytes)
     \/ (\A rec \in Tops : rec.size < bytes) /\ UNCHANGED <<free_list_, free_bytes_, used>>

(* deallocate, as destroy, destroyArray and the deleter of createShared call *)
(* it when the destructors have run                                          *)
GivenBackUncounted(block) ==  \* mutant: what comes back is not counted
  free_list_' = Push(free_list_, block) /\ UNCHANGED free_bytes_
GivenBack(block) ==
  free_list_' = Push(free_list_, block) /\ free_bytes_' = free_bytes_ + block.size
Destroy(block) ==
  /\ Runs /\ used' = used \ {block}
  /\ GivenBack(block) /\ UNCHANGED filled

(* defragment: every block takes over those that follow it without a gap,    *)
(* which are removed as they have no bytes left.                             *)
End(r) == r.memory + r.size
Starts == {r.memory : r \in free_list_}
Ends == {End(r) : r \in free_list_}
Merged == {Record(b, Min({e \in Ends \ Starts : e > b}) - b) : b \in Starts \ Ends}
DefragmentHeap ==
  /\ Runs /\ free_list_' = Merged
  /\ UNCHANGED <<free_bytes_, used, filled>>

-----------------------------------------------------------------------------
(* allocate(1) of items; the list may lead to an item that is in use, whose  *)
(* index is then whatever the program has written.                           *)
Take(links) ==
  IF head_ \notin Items THEN failed' = TRUE /\ UNCHANGED <<mem_, head_, index, given>>
  ELSE /\ mem_' = TRUE /\ UNCHANGED failed
       /\ given' = given \cup {head_}
       /\ index' = links
       /\ IF head_ \in given THEN head_' \in 0 .. N ELSE head_' = links[head_]
AllocateStatic == allocator = "static_item" /\ ~failed /\ Take(index)
AllocateFixed ==
  allocator = "fixed_item" /\ ~failed /\ Take(IF mem_ THEN index ELSE FixedLinks)

(* deallocate: what the program was given                                    *)
Return(item, link) ==
  /\ given' = given \ {item} /\ index' = [index EXCEPT ![item] = link]
  /\ head_' = item /\ UNCHANGED <<mem_, failed>>
DeallocateStatic(item) ==
  allocator = "static_item" /\ ~failed /\ Return(item, head_ % ItemWord)
DeallocateFixedUnlinked(item) ==  \* mutant: the rest of the free list is forgotten
  allocator = "fixed_item" /\ ~failed /\ Return(item, index[item])
DeallocateFixed(item) ==
  allocator = "fixed_item" /\ ~failed /\ Return(item, head_)

-----------------------------------------------------------------------------
StaticNext ==
  /\ \/ Defragment
     \/ \E bytes \in Requests, alignment \in Alignments : Allocate(bytes, alignment)
     \/ \E record \in allocated : Deallocate(record)
  /\ UNCHANGED base

LargeNext ==
  \/ DefragmentHeap
  \/ \E bytes \in LargeRequests : Create(bytes) \/ CreateArray(bytes)
  \/ \E block \in used : Destroy(block)

ItemNext ==
  \/ AllocateStatic \/ AllocateFixed
  \/ \E item \in given : DeallocateStatic(item) \/ DeallocateFixed(item)

Next ==
  /\ UNCHANGED allocator
  /\ \/ StaticNext /\ UNCHANGED <<largeVars, itemVars>>
     \/ LargeNext /\ UNCHANGED <<staticVars, itemVars>>
     \/ ItemNext /\ UNCHANGED <<N, free_bytes_, staticVars, largeVars>>

Spec == Init /\ [][Next]_vars

-----------------------------------------------------------------------------
(* As long as no block was taken for more than it holds, no two blocks       *)
(* overlap, with their records, every block is in use or listed once, and    *)
(* what is said to be free is what is listed: the rest of a block that is    *)
(* split lies too far behind it to touch it.  It lies behind the memory as   *)
(* well, at least with its end, so that nothing can be said of where they    *)
(* are.                                                                      *)
Blocks == allocated \cup ToSet(free_list)
BlocksAreApart ==
  allocator = "static" /\ ~misfit =>
    /\ \A a, b \in Blocks : a # b => a + Overhead + size[a] <= b \/ b + Overhead + size[b] <= a
    /\ allocated \cap ToSet(free_list) = {} /\ IsInjective(free_list)
    /\ free_bytes_ = FoldSet(LAMBDA a, n : (n + size[a]) % Word, 0, ToSet(free_list))

(* What is free and what is used are the whole memory without an overlap,    *)
(* and what is counted as free is what is listed, however blocks were split  *)
(* and merged: none that is in use is taken over by its free neighbours.     *)
Apart(r, s) == End(r) <= s.memory \/ End(s) <= r.memory
Bytes(records) == FoldSet(LAMBDA r, n : n + r.size, 0, records)
NothingIsLost ==
  allocator = "large" =>
    /\ Bytes(free_list_) = free_bytes_ /\ Bytes(used) + free_bytes_ = LargeBytes
    /\ free_list_ \cap used = {}
    /\ \A r \in free_list_ \cup used : \A s \in (free_list_ \cup used) \ {r} : Apart(r, s)

(* The free list has exactly the items that are not in use and ends behind   *)
(* the last, so that none is given twice and the assertion fails only if all *)
(* are in use: unless there are as many items as the index has values, whose *)
(* last one then leads back to the first, which is given again.              *)
FreeItems ==
  LET path[i \in 0 .. N + 1] ==
        IF i = 0 THEN head_ ELSE IF path[i - 1] \in Items THEN index[path[i - 1]] ELSE path[i - 1]
  IN  {path[i] : i \in 0 .. N + 1}
ItemsAreGivenOnce ==
  (mem_ /\ (allocator = "static_item" => N < ItemWord)) =>
    /\ FreeItems = (Items \ given) \cup {N}
    /\ failed => given = Items
=============================================================================
