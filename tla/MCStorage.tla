----------------------------- MODULE MCStorage ------------------------------
(***************************************************************************)
(* The component of SharedMemory and, side by side with it, the            *)
(* repository's allocators, pointers, containers, graphs and machines.     *)
(* They share no state: see MCClipServer.  Their programs may end, or stop  *)
(* at what is undefined; the test threads may not.                         *)
(***************************************************************************)
EXTENDS SharedMemory, TLC

CONSTANTS
  ItemSizes, ItemWord,                          \* of the allocators of items
  PointerNames, PointedObjects,                 \* of the pointers
  VectorNames, Elements, MaxElements,           \* of the vectors
  RingPlaces, MaxPushed,                        \* of the rings, which have the same elements
  CacheKeys, CacheValues, CachePlaces, MaxUsed, \* of the caches
  ErrorPlaces, ErrorTexts, MaxErrors, ErrorConditions,   \* of the errors
  MachineStates, MachineEvents, Transitions     \* of a state machine

ASSUME StorageAssumption ==
  /\ ItemSizes \subseteq Nat /\ ItemWord \in Nat \ {0}
  /\ IsFiniteSet(PointerNames) /\ PointedObjects \subseteq Nat \ {0}
  /\ MaxElements \in Nat /\ RingPlaces \in Nat \ {0} /\ CachePlaces \in Nat \ {0}
  /\ ErrorPlaces \in Nat \ {0}
  /\ MachineStates \in Nat \ {0}
  /\ Transitions \in [0..MachineStates - 1 -> [MachineEvents -> 0..MachineStates]]

VARIABLES
  part,
  mb_allocator, mb_free_bytes_, mb_base, mb_free_list, mb_size, mb_allocated, mb_misfit, mb_outside,
  mb_free_list_, mb_used, mb_filled,
  mb_N, mb_mem_, mb_head_, mb_index, mb_given, mb_failed,
  sp_mutexes, sp_ptr_, sp_ctrl_, sp_held, sp_count, sp_there, sp_deleted, sp_released, sp_at,
  sp_class, sp_s,
  bu_what, bu_ring, bu_total_, bu_next, bu_kept, bu_memory, bu_offset_, bu_stored, bu_loaded,
  bu_stream, bu_pos_bit_, bu_field,
  bu_trivial, bu_data_, bu_size_, bu_destroyed, bu_list, bu_at,
  lc_keys_, lc_values_, lc_use_count_, lc_stored, lc_entry, lc_value, lc_used_order_,
  lc_put, lc_taken,
  tg_kind, tg_head_, tg_left, tg_right, tg_size_, tg_members, tg_lost, tg_looped,
  tg_adjacent_, tg_nedges_, tg_fringe, tg_start, tg_order, tg_parent, tg_visited,
  tg_processed, tg_time,
  sm_curr_active, sm_next_active, sm_buffer, sm_event, sm_i, sm_from, sm_thrown, sm_twice,
  sm_at,
  di_incidents_, di_next_incident_, di_raised, di_errors, di_conditions, di_thrown,
  di_kind, di_loggers, di_node_level, di_level_, di_parent_, di_msgcontext_, di_open, di_late,
  di_leaked, di_asserted

Symmetry == Permutations(Threads) \cup Permutations(Fields)

(* Three states, of which the last two go back to the first.                 *)
Round == [s \in 0..2 |-> [e \in {"go", "back"} |->
            CASE e = "go" -> (s + 1) % 3
              [] s = 1    -> 0
              [] OTHER    -> 3]]

(* Numbers of conditions that are in the table of win32, or not.             *)
TwoEach == [posix |-> {0, 35}, win32 |-> {35, 36}]

mbVars ==
  <<mb_allocator, mb_free_bytes_, mb_base, mb_free_list, mb_size, mb_allocated, mb_misfit,
    mb_outside, mb_free_list_, mb_used, mb_filled, mb_N, mb_mem_, mb_head_, mb_index,
    mb_given, mb_failed>>
spVars ==
  <<sp_mutexes, sp_ptr_, sp_ctrl_, sp_held, sp_count, sp_there, sp_deleted, sp_released, sp_at,
    sp_class, sp_s>>
buVars ==
  <<bu_what, bu_ring, bu_total_, bu_next, bu_kept, bu_memory, bu_offset_, bu_stored, bu_loaded,
    bu_stream, bu_pos_bit_, bu_field,
    bu_trivial, bu_data_, bu_size_, bu_destroyed, bu_list, bu_at>>
stVars ==
  <<tg_kind, tg_head_, tg_left, tg_right, tg_size_, tg_members, tg_lost, tg_looped,
    tg_adjacent_, tg_nedges_, tg_fringe, tg_start, tg_order, tg_parent, tg_visited,
    tg_processed, tg_time, lc_keys_, lc_values_, lc_use_count_, lc_stored, lc_entry, lc_value,
    lc_used_order_, lc_put, lc_taken>>
smVars ==
  <<sm_curr_active, sm_next_active, sm_buffer, sm_event, sm_i, sm_from, sm_thrown, sm_twice,
    sm_at>>
diVars ==
  <<di_incidents_, di_next_incident_, di_raised, di_errors, di_conditions, di_thrown,
    di_kind, di_loggers, di_node_level, di_level_, di_parent_, di_msgcontext_, di_open, di_late,
    di_leaked, di_asserted>>

Blocks == INSTANCE MemoryBlocks WITH
  Overhead <- 4, Pointer <- 2, MaxBytes <- 72, Requests <- {1, 3, 10}, Alignments <- {1, 2},
  Bases <- {0, 1}, Word <- 512, LargeBytes <- 8, LargeRequests <- {1, 2, 3}, MaxBlocks <- 4,
  Sizes <- ItemSizes,
  allocator <- mb_allocator, free_bytes_ <- mb_free_bytes_, base <- mb_base,
  free_list <- mb_free_list, size <- mb_size, allocated <- mb_allocated,
  misfit <- mb_misfit, outside <- mb_outside,
  free_list_ <- mb_free_list_, used <- mb_used, filled <- mb_filled,
  N <- mb_N, mem_ <- mb_mem_, head_ <- mb_head_, index <- mb_index, given <- mb_given,
  failed <- mb_failed

Pointer == INSTANCE SmartPointers WITH
  Pointers <- PointerNames, Objects <- PointedObjects, mutexes <- sp_mutexes, ptr_ <- sp_ptr_,
  ctrl_ <- sp_ctrl_, held <- sp_held, count <- sp_count, there <- sp_there,
  deleted <- sp_deleted, released <- sp_released, at <- sp_at, class <- sp_class, s <- sp_s

Buffer == INSTANCE Buffers WITH
  Names <- VectorNames, Values <- Elements, Default <- "0", MaxSize <- MaxElements,
  N <- RingPlaces, MaxTotal <- MaxPushed, WordBits <- 4, Limit <- 12, OffsetWrap <- 8, MaxStored <- 3,
  ByteBits <- 4, Streams <- {<<>>} \cup ((0..15) \X (0..15)), FieldWidths <- {1, 3, 5},
  what <- bu_what, ring <- bu_ring, total_ <- bu_total_, next <- bu_next, kept <- bu_kept,
  memory <- bu_memory, offset_ <- bu_offset_, stored <- bu_stored, loaded <- bu_loaded,
  stream <- bu_stream, pos_bit_ <- bu_pos_bit_, field <- bu_field, trivial <- bu_trivial,
  data_ <- bu_data_, size_ <- bu_size_, destroyed <- bu_destroyed, list <- bu_list,
  at <- bu_at

Structure == INSTANCE Structures WITH
  Values <- 1..6, MaxLost <- 5, Vertices <- {0, 1, 2}, MaxEdges <- 4,
  Keys <- CacheKeys, Cached <- CacheValues, Initial <- "", Capacity <- CachePlaces,
  MaxUses <- MaxUsed,
  kind <- tg_kind, head_ <- tg_head_, left <- tg_left, right <- tg_right, size_ <- tg_size_,
  members <- tg_members, lost <- tg_lost, looped <- tg_looped,
  adjacent_ <- tg_adjacent_, nedges_ <- tg_nedges_, fringe <- tg_fringe, start <- tg_start,
  order <- tg_order, parent <- tg_parent, visited <- tg_visited, processed <- tg_processed,
  time <- tg_time, keys_ <- lc_keys_, values_ <- lc_values_, use_count_ <- lc_use_count_,
  stored <- lc_stored, entry <- lc_entry, value <- lc_value, used_order_ <- lc_used_order_,
  put <- lc_put, taken <- lc_taken

Machine == INSTANCE StateMachines WITH
  NStates <- MachineStates, Events <- MachineEvents, Transition <- Transitions,
  curr_active <- sm_curr_active,
  next_active <- sm_next_active, buffer <- sm_buffer, event <- sm_event, i <- sm_i,
  from <- sm_from, thrown <- sm_thrown, twice <- sm_twice, at <- sm_at

Diagnosis == INSTANCE Diagnostics WITH
  Places <- ErrorPlaces, Raised <- ErrorConditions, Texts <- ErrorTexts,
  MaxRaised <- MaxErrors, Paths <- {<<"a">>, <<"a", "b">>, <<"a", "b", "c">>}, Levels <- {0, 1},
  MaxOpen <- 1,
  incidents_ <- di_incidents_, next_incident_ <- di_next_incident_, raised <- di_raised,
  errors <- di_errors, conditions <- di_conditions, thrown <- di_thrown, kind <- di_kind,
  loggers <- di_loggers, node_level <- di_node_level, level_ <- di_level_,
  parent_ <- di_parent_, msgcontext_ <- di_msgcontext_, open <- di_open, late <- di_late,
  leaked <- di_leaked, asserted <- di_asserted

GroupInit ==
  /\ part \in {"memory", "Blocks", "Pointer", "Buffer", "Structure", "Machine",
               "Diagnosis"}
  /\ IF part = "memory" THEN TRUE ELSE \E f \in Fields : read_field = [t \in Threads |-> f]
  /\ Init
  /\ IF part = "Blocks" THEN TRUE ELSE mb_allocator = "large"
  /\ Blocks!Init
  /\ IF part = "Pointer" THEN TRUE ELSE sp_class = "unique_ptr"
  /\ Pointer!Init
  /\ IF part = "Buffer" THEN TRUE ELSE bu_what = "CircularBuffer"
  /\ Buffer!Init
  /\ IF part = "Structure" THEN TRUE ELSE tg_kind = "tree"
  /\ Structure!Init
  /\ IF part = "Machine" THEN TRUE ELSE sm_event = CHOOSE e \in MachineEvents : TRUE
  /\ Machine!Init
  /\ IF part = "Diagnosis" THEN TRUE ELSE di_kind = "errors"
  /\ Diagnosis!Init

GroupNext ==
  /\ UNCHANGED part
  /\ \/ part = "memory" /\ Next
        /\ UNCHANGED <<mbVars, spVars, buVars, stVars, smVars, diVars>>
     \/ part = "Blocks" /\ Blocks!Next
        /\ UNCHANGED <<vars, spVars, buVars, stVars, smVars, diVars>>
     \/ part = "Pointer" /\ Pointer!Next
        /\ UNCHANGED <<vars, mbVars, buVars, stVars, smVars, diVars>>
     \/ part = "Buffer" /\ Buffer!Next
        /\ UNCHANGED <<vars, mbVars, spVars, stVars, smVars, diVars>>
     \/ part = "Structure" /\ Structure!Next
        /\ UNCHANGED <<vars, mbVars, spVars, buVars, smVars, diVars>>
     \/ part = "Machine" /\ Machine!Next
        /\ UNCHANGED <<vars, mbVars, spVars, buVars, stVars, diVars>>
     \/ part = "Diagnosis" /\ Diagnosis!Next
        /\ UNCHANGED <<vars, mbVars, spVars, buVars, stVars, smVars>>
     \/ \* these programs may stop
        part # "memory"
        /\ UNCHANGED <<vars, mbVars, spVars, buVars, stVars, smVars, diVars>>

groupVars == <<part, vars, mbVars, spVars, buVars, stVars, smVars, diVars>>

GroupSpec == GroupInit /\ [][GroupNext]_groupVars

-----------------------------------------------------------------------------
(* Storage has one owner: items are given once and come back, an object is   *)
(* deleted once, with the last that knows it, but where the code itself lets *)
(* go of it twice, or never, what a vector cuts off is not seen again, one   *)
(* buffer holds one state at a time, and a place in a ring, a cache or among *)
(* the incidents is the last one's that took it: the others are told apart.  *)
StorageHasOneOwner ==
  /\ part = "Blocks" => Blocks!ItemsAreGivenOnce
  /\ part = "Pointer" =>
       Pointer!DeletedWithTheLast /\ Pointer!OwnedOnce /\ Pointer!NothingUndefined
  /\ part = "Buffer" => Buffer!VectorsHoldTheirLists /\ Buffer!RingsKeepTheLast
  /\ part = "Structure" => Structure!CachedIsFound
  /\ part = "Machine" => Machine!OneStateAtATime
  /\ part = "Diagnosis" =>
       Diagnosis!ErrorsSayTheirIncident /\ Diagnosis!ErrorsEqualTheirCondition

(* Structures are whole: the blocks of a heap are apart and none is lost, a  *)
(* tree keeps its members in order, a traversal comes to every vertex, what  *)
(* was stored in bits is loaded, and a logger's parents and contexts are     *)
(* those it should have.                                                     *)
StructuresAreWhole ==
  /\ part = "Blocks" => Blocks!BlocksAreApart /\ Blocks!NothingIsLost
  /\ part = "Structure" => Structure!TreeKeepsItsMembers /\ Structure!TraversalIsComplete
  /\ part = "Buffer" =>
       Buffer!LoadedIsStored /\ Buffer!FieldsAreTheirBits /\ Buffer!HeadersTellValues
  /\ part = "Diagnosis" =>
       /\ Diagnosis!ParentsAreNearest /\ Diagnosis!EntriesReachTheirLevels
       /\ Diagnosis!ContextsAreOpen
=============================================================================
