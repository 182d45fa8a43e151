----------------------------- MODULE Structures -----------------------------
(***************************************************************************)
(* BinarySearchTree of bst.cpp, SparseGraph and Traversal of graph.cpp, and*)
(* the two caches of simple_lru_cache.cpp: one of them, by kind.           *)
(*                                                                         *)
(* Erasing the root of the tree lets go of the whole tree; a node that has *)
(* both children and is followed by its own right child is replaced by a   *)
(* node that is its own child.  A vertex of the graph is visited when it is*)
(* first at the fringe and stays there; it is processed, and taken away,   *)
(* whenever it is found there again.  FlatLruCache counts the uses of each *)
(* slot, and a count of zero is a slot that holds nothing.  HashLruCache   *)
(* keeps its entries in the order of their last use.                       *)
(***************************************************************************)
EXTENDS Integers, Sequences, SequencesExt, FiniteSets, FiniteSetsExt

CONSTANTS Values,     \* of the tree: naturals; a node is named by its value
          MaxLost,    \* bound on lost
          Vertices,   \* of the graph: 0 .. n
          MaxEdges,
          Keys, Cached, Initial,  \* Initial: what a value-initialised key or value is
          Capacity,   \* of a cache
          MaxUses     \* bound on use_count_

None == -1
Slots == 1 .. Capacity
Fringes == {"stack", "queue"}

VARIABLES
  kind,               \* "tree", "flat", "hash", or a graph whose fringe is a stack or a queue
  head_, left, right, size_,    \* the links of a node that is not reached are kept None
  members,            \* what was inserted, not erased, and not lost with a root that was
  lost,               \* how many were lost that way
  looped,             \* a node has become its own right child; what follows is not followed
  adjacent_,          \* of each vertex there is, the vertices it joins, in order
  nedges_,
  fringe, start,      \* start is -1 until there is a traversal
  order, parent, visited, processed, time,
  keys_, values_, use_count_,   \* FlatLruCache
  stored,                       \* what was assigned last to each key's value
  entry, value, used_order_,    \* HashLruCache: keys_, values of the entries, their order
  put, taken                    \* what was assigned last; keys taken in, up to one too many

tree == <<head_, left, right, size_, members, lost, looped>>
graph == <<adjacent_, nedges_>>
traversal == <<fringe, start, order, parent, visited, processed, time>>
flat == <<keys_, values_, use_count_, stored>>
hash == <<entry, value, used_order_, put, taken>>
caches == <<flat, hash>>
vars == <<kind, tree, graph, traversal, caches>>

TreeInit ==
  /\ head_ = None /\ size_ = 0
  /\ left = [v \in Values |-> None] /\ right = left
  /\ members = {} /\ lost = 0 /\ looped = FALSE

-----------------------------------------------------------------------------
(* find: the way down, one step after the other; it stays at what it found   *)
Step(v, n) ==
  CASE n = None \/ n = v -> n
    [] n # None /\ v < n -> left[n]
    [] n # None /\ v > n -> right[n]
Way(v) ==
  LET way[i \in 0 .. Cardinality(Values)] == IF i = 0 THEN head_ ELSE Step(v, way[i - 1])
  IN  way
find(v) == Way(v)[Cardinality(Values)]
LinkOf(v) ==   \* the node whose left or right led there, None if it was head_
  LET above == {i \in 0 .. Cardinality(Values) - 1 : Way(v)[i] \notin {None, v}}
  IN  IF above = {} THEN None ELSE Way(v)[Max(above)]

(* *(link) = node                                                            *)
SetLink(side, link, node) == IF link = None THEN side ELSE [side EXCEPT ![link] = node]
Hang(v, node, l, r) ==   \* v itself, if it was there, is deleted
  LET link == LinkOf(v)
      toleft == IF link # None /\ v < link THEN SetLink(l, link, node) ELSE l
      toright == IF link # None /\ v > link THEN SetLink(r, link, node) ELSE r
  IN  left' = [toleft EXCEPT ![v] = None] /\ right' = [toright EXCEPT ![v] = None]

Insert(v) ==
  /\ kind = "tree" /\ ~looped /\ UNCHANGED <<kind, graph, traversal, caches>>
  /\ IF find(v) = v THEN UNCHANGED tree
     ELSE /\ Hang(v, v, left, right)
          /\ head_' = (IF LinkOf(v) = None THEN v ELSE head_)
          /\ size_' = size_ + 1 /\ members' = members \cup {v}
          /\ UNCHANGED <<lost, looped>>

-----------------------------------------------------------------------------
(* find_rotate_left_: the left-most node, and what its link hangs from       *)
LeftMost(n) ==
  LET down[i \in 0 .. Cardinality(Values)] ==
        IF i = 0 THEN n ELSE IF left[down[i - 1]] = None THEN down[i - 1] ELSE left[down[i - 1]]
  IN  down[Cardinality(Values)]
LeftLink(n) ==
  IF LeftMost(n) = n THEN None
  ELSE CHOOSE m \in Values : left[m] = LeftMost(n) /\ m \in members

(* erase of a node below the root that has both children                     *)
ReplaceKeeping(v) ==  \* mutant: what follows the replacement is not left behind
  LET rr == LeftMost(right[v])
      up == LeftLink(right[v])
      l == [SetLink(left, up, None) EXCEPT ![rr] = left[v]]
      r == [right EXCEPT ![rr] = right[v]]
  IN  Hang(v, rr, l, r) /\ looped' = (looped \/ up = None)
Replace(v) ==
  LET rr == LeftMost(right[v])
      up == LeftLink(right[v])
      l == [SetLink(left, up, right[rr]) EXCEPT ![rr] = left[v]]
      r == [right EXCEPT ![rr] = right[v]]
  IN  Hang(v, rr, l, r) /\ looped' = (looped \/ up = None)

Erase(v) ==
  /\ kind = "tree" /\ ~looped /\ find(v) = v /\ UNCHANGED <<kind, graph, traversal, caches>>
  /\ size_' = size_ - 1
  /\ \/ /\ v = head_ /\ head_' = None
        /\ lost' = lost + Cardinality(members \ {v}) /\ lost' <= MaxLost
        /\ members' = {} /\ left' = [n \in Values |-> None] /\ right' = left'
        /\ UNCHANGED looped
     \/ /\ v # head_ /\ None \notin {left[v], right[v]}
        /\ Replace(v) /\ members' = members \ {v} /\ UNCHANGED <<head_, lost>>
     \/ /\ v # head_ /\ None \in {left[v], right[v]}
        /\ Hang(v, IF left[v] # None THEN left[v] ELSE right[v], left, right)
        /\ members' = members \ {v} /\ UNCHANGED <<head_, lost, looped>>

-----------------------------------------------------------------------------
Known == DOMAIN adjacent_

GraphInit ==
  /\ adjacent_ = [v \in {0} |-> <<>>] /\ nedges_ = 0
  /\ fringe = <<>> /\ start = -1
  /\ order = <<>> /\ parent = <<>> /\ visited = {} /\ processed = {} /\ time = 0

-----------------------------------------------------------------------------
(* join: makes the list longer by as many vertices as it takes, and puts the *)
(* edge in front of the first that is not smaller.                           *)
JoinUnsorted(v, w) ==  \* mutant: makes room for the first vertex only
  /\ kind \in Fringes /\ start = -1 /\ nedges_ < MaxEdges
  /\ LET resized == [u \in 0 .. Max(Known \cup {v}) |-> IF u \in Known THEN adjacent_[u] ELSE <<>>]
     IN  adjacent_' = [resized EXCEPT ![v] = Append(@, w)]
  /\ nedges_' = nedges_ + 1 /\ UNCHANGED <<kind, tree, traversal, caches>>
Join(v, w) ==
  /\ kind \in Fringes /\ start = -1 /\ nedges_ < MaxEdges
  /\ LET resized == [u \in 0 .. Max(Known \cup {v, w}) |->
                       IF u \in Known THEN adjacent_[u] ELSE <<>>]
         smaller == SelectSeq(resized[v], LAMBDA x : x < w)
         others == SelectSeq(resized[v], LAMBDA x : x >= w)
     IN  adjacent_' = [resized EXCEPT ![v] = smaller \o <<w>> \o others]
  /\ nedges_' = nedges_ + 1 /\ UNCHANGED <<kind, tree, traversal, caches>>

(* cut: the first edge that goes there                                       *)
Cut(v, w) ==
  /\ kind \in Fringes /\ start = -1
  /\ IF v \in Known /\ w \in ToSet(adjacent_[v])
     THEN /\ adjacent_' = [adjacent_ EXCEPT ![v] =
                            RemoveAt(@, Min({i \in DOMAIN @ : @[i] = w}))]
          /\ nedges_' = nedges_ - 1
     ELSE UNCHANGED graph
  /\ UNCHANGED <<kind, tree, traversal, caches>>

-----------------------------------------------------------------------------
(* Traversal, its constructor and the beginning of operator()                *)
Begin(v) ==
  /\ kind \in Fringes /\ start = -1 /\ v \in Known
  /\ start' = v /\ fringe' = <<v>>
  /\ order' = [u \in Known |-> -1] /\ parent' = order'
  /\ visited' = {} /\ processed' = {} /\ time' = 0
  /\ UNCHANGED <<kind, tree, graph, caches>>

At == IF kind = "stack" THEN Len(fringe) ELSE 1
Vertex == fringe[At]

Visit ==
  /\ start # -1 /\ fringe # <<>> /\ Vertex \notin visited
  /\ visited' = visited \cup {Vertex}
  /\ order' = [order EXCEPT ![Vertex] = time] /\ time' = time + 1
  /\ parent' = [u \in Known |-> IF u \in ToSet(adjacent_[Vertex]) THEN Vertex ELSE parent[u]]
  /\ fringe' = fringe \o adjacent_[Vertex]
  /\ UNCHANGED <<kind, tree, graph, caches, start, processed>>

Process ==
  /\ start # -1 /\ fringe # <<>> /\ Vertex \in visited
  /\ processed' = processed \cup {Vertex}
  /\ fringe' = RemoveAt(fringe, At)
  /\ UNCHANGED <<kind, tree, graph, caches, start, order, parent, visited, time>>

-----------------------------------------------------------------------------
CachesInit ==
  /\ keys_ = [i \in Slots |-> Initial] /\ values_ = [i \in Slots |-> Initial]
  /\ use_count_ = [i \in Slots |-> 0] /\ stored = [k \in {} |-> Initial]
  /\ entry = [k \in {} |-> 0] /\ value = [i \in Slots |-> Initial]
  /\ used_order_ = [i \in Slots |-> i] /\ put = [k \in {} |-> Initial] /\ taken = 0

Without(f, k) == [x \in DOMAIN f \ {k} |-> f[x]]
With(f, k, v) == [x \in DOMAIN f \cup {k} |-> IF x = k THEN v ELSE f[x]]

-----------------------------------------------------------------------------
(* try_find_index looks at the first slot of a key and at no other.          *)
try_find_index(key) ==
  {i \in Slots : /\ keys_[i] = key /\ \A j \in 1 .. i - 1 : keys_[j] # key
                 /\ use_count_[i] # 0}
MinElement == Min({i \in Slots : \A j \in Slots : use_count_[i] <= use_count_[j]})

(* operator[] and the assignment to what it refers to                        *)
AssignFlat(key, v) ==
  LET found == try_find_index(key)
      index == IF found # {} THEN Min(found) ELSE MinElement
  IN  /\ use_count_' = [use_count_ EXCEPT ![index] = IF found # {} THEN @ + 1 ELSE 1]
      /\ use_count_'[index] <= MaxUses
      /\ keys_' = [keys_ EXCEPT ![index] = key]
      /\ values_' = [values_ EXCEPT ![index] = v]
      /\ stored' = With(IF found # {} \/ use_count_[index] = 0 THEN stored
                        ELSE Without(stored, keys_[index]), key, v)
      /\ UNCHANGED hash

(* invalidate: the key stays in the slot.                                    *)
InvalidateFlatCounted(key) ==  \* mutant: the slot remains in use
  /\ \E index \in try_find_index(key) : values_' = [values_ EXCEPT ![index] = Initial]
  /\ stored' = Without(stored, key)
  /\ UNCHANGED <<keys_, use_count_, hash>>
InvalidateFlat(key) ==
  /\ \E index \in try_find_index(key) :
       /\ use_count_' = [use_count_ EXCEPT ![index] = 0]
       /\ values_' = [values_ EXCEPT ![index] = Initial]
  /\ stored' = Without(stored, key)
  /\ UNCHANGED <<keys_, hash>>

-----------------------------------------------------------------------------
ToFront(e) ==   \* splice
  LET at == CHOOSE i \in Slots : used_order_[i] = e
  IN  [i \in Slots |-> IF i = 1 THEN e ELSE used_order_[IF i <= at THEN i - 1 ELSE i]]

(* operator[]: a key that is new takes the entry that was used last, and the *)
(* key that had it before keeps it as well.                                  *)
AssignHash(key, v) ==
  LET e == IF key \in DOMAIN entry THEN entry[key] ELSE used_order_[Capacity]
  IN  /\ entry' = With(entry, key, e)
      /\ taken' = IF key \in DOMAIN entry THEN taken ELSE Min({taken + 1, Capacity + 1})
      /\ used_order_' = ToFront(e) /\ value' = [value EXCEPT ![e] = v]
      /\ put' = With(put, key, v)
      /\ UNCHANGED flat

(* invalidate: the entry stays where it is in the order.                     *)
InvalidateHash(key) ==
  /\ key \in DOMAIN entry
  /\ value' = [value EXCEPT ![entry[key]] = Initial]
  /\ entry' = Without(entry, key) /\ put' = Without(put, key)
  /\ UNCHANGED <<used_order_, taken, flat>>

Flat(key) == InvalidateFlat(key) \/ \E v \in Cached : AssignFlat(key, v)
Hash(key) == InvalidateHash(key) \/ \E v \in Cached : AssignHash(key, v)

-----------------------------------------------------------------------------
Init == kind \in {"tree", "flat", "hash"} \cup Fringes /\ TreeInit /\ GraphInit /\ CachesInit

Caching ==
  /\ \/ kind = "flat" /\ \E key \in Keys : Flat(key)
     \/ kind = "hash" /\ \E key \in Keys : Hash(key)
  /\ UNCHANGED <<kind, tree, graph, traversal>>

Next ==
  \/ \E v \in Values : Insert(v) \/ Erase(v)
  \/ Visit \/ Process
  \/ \E v \in Vertices : Begin(v) \/ \E w \in Vertices : Join(v, w) \/ Cut(v, w)
  \/ Caching

Spec == Init /\ [][Next]_vars

-----------------------------------------------------------------------------
(* What was inserted and not erased is found, and nothing else, as long as *)
(* no node was replaced by its own right child: the nodes below another on *)
(* its left are the smaller ones, and each hangs from one other, so that   *)
(* apply() goes through all in order.  What was lost with a root is counted*)
(* for ever.                                                               *)
TreeKeepsItsMembers ==
  ~looped =>
    /\ size_ = Cardinality(members) + lost
    /\ \A v \in Values : v \in members <=> find(v) = v
    /\ \A v \in members :
         /\ left[v] # None => left[v] \in members /\ left[v] < v
         /\ right[v] # None => right[v] \in members /\ right[v] > v
         /\ v # head_ => Cardinality({u \in members : v \in {left[u], right[u]}}) = 1

Leads(V) == V \cup UNION {ToSet(adjacent_[v]) : v \in V}
Reached(v) ==
  LET set[i \in 0 .. Cardinality(Known)] == IF i = 0 THEN {v} ELSE Leads(set[i - 1])
  IN  set[Cardinality(Known)]
Cyclic == \E v \in Known : \E w \in ToSet(adjacent_[v]) : v \in Reached(w)

(* Whatever edges were joined and cut: a traversal visits exactly the        *)
(* vertices its start leads to, each once and each but the start after one   *)
(* that leads to it, processes them all in the end, and counts them in       *)
(* order.  With a stack and without a cycle a vertex is processed only after *)
(* everything it leads to.                                                   *)
TraversalIsComplete ==
  /\ nedges_ = FoldSet(LAMBDA v, n : n + Len(adjacent_[v]), 0, Known)
  /\ \A v \in Known : ToSet(adjacent_[v]) \subseteq Known
  /\ \A v \in Known : \A i \in 2 .. Len(adjacent_[v]) : adjacent_[v][i - 1] <= adjacent_[v][i]
  /\ start # -1 =>
       /\ visited \subseteq Reached(start) /\ processed \subseteq visited
       /\ fringe = <<>> => processed = Reached(start)
       /\ {order[v] : v \in visited} = 0 .. Cardinality(visited) - 1
       /\ \A v \in visited \ {start} :
            \E u \in visited : order[u] < order[v] /\ v \in ToSet(adjacent_[u])
       /\ (kind = "stack" /\ ~Cyclic) =>
            \A v \in processed : Reached(v) \subseteq processed

(* Every key that FlatLruCache has not evicted is found with what was        *)
(* assigned to it, although keys stay in slots that hold nothing and only    *)
(* the first slot of a key is looked at.  HashLruCache gives it back as long *)
(* as it took in no more keys than it has entries; after that two keys may   *)
(* share one.                                                                *)
CachedIsFound ==
  /\ \A k \in Keys : (k \in DOMAIN stored) <=> (try_find_index(k) # {})
  /\ \A k \in DOMAIN stored : \A i \in try_find_index(k) : values_[i] = stored[k]
  /\ DOMAIN put = DOMAIN entry
  /\ taken <= Capacity => \A k \in DOMAIN put : value[entry[k]] = put[k]
=============================================================================
