------------------------------- MODULE PtrStore -------------------------------
(***************************************************************************)
(* The store of the v1 program (old/src/ptr_store.c): a chain of nodes, one *)
(* heap block each, that MANAGED frees at the end of its scope.  A block    *)
(* may be an object, whose destructor frees its state: an array or a        *)
(* generator.  A client allocates, adopts and deletes in any order.         *)
(*                                                                         *)
(* Memory is a record so that several free()s of one call add up: fault     *)
(* says that a block was freed twice, or used after it was freed.           *)
(***************************************************************************)
EXTENDS Naturals, SequencesExt

CONSTANTS
    Block,      \* bound: the addresses malloc() has to give
    MaxNodes,   \* bound: the nodes of the chain
    NULL        \* a null pointer

ASSUME StoreAssumption == MaxNodes \in Nat \ {0} /\ NULL \notin Block

VARIABLES
    chain,      \* the nodes, by store->next
    mem,        \* mem.heap[b]: what block b is, and its state; mem.fault
    client,     \* the blocks the client would free itself
    store,      \* "live"; "collected" and still in scope; "destroyed"
    misused     \* history: an object was cloned, or blocks were collected

storeVars == <<chain, mem, client, store, misused>>

Node == [ptr : Block \cup {NULL}, is_obj : BOOLEAN]
NewNode == [ptr |-> NULL, is_obj |-> FALSE]

FreeBlock == [is |-> "free", state |-> NULL]
Raw == [is |-> "raw", state |-> NULL]
ObjectOf(s) == [is |-> "object", state |-> s]

StoreTypeOK ==
    /\ chain \in Seq(Node) /\ Len(chain) \in 1 .. MaxNodes
    /\ mem \in [heap : [Block -> {FreeBlock, Raw} \cup { ObjectOf(s) : s \in Block \cup {NULL} }],
               fault : BOOLEAN]
    /\ client \subseteq Block
    /\ store \in {"live", "collected", "destroyed"}
    /\ misused \in BOOLEAN

StoreInit ==
    /\ chain = <<NewNode>>
    /\ mem = [heap |-> [b \in Block |-> FreeBlock], fault |-> FALSE]
    /\ client = {}
    /\ store = "live"
    /\ misused = FALSE

-----------------------------------------------------------------------------
\* free(b)
Freed(m, b) == [heap |-> [m.heap EXCEPT ![b] = FreeBlock],
                fault |-> m.fault \/ m.heap[b] = FreeBlock]

\* obj->destructor(obj), which _ar_memory_destructor and the others answer by
\* freeing the state.  Of a block that is no object it is no function at all.
Destructed(m, b) ==
    LET s == m.heap[b].state
    IN  IF m.heap[b] # ObjectOf(s) THEN [m EXCEPT !.fault = TRUE]
        ELSE IF s = NULL THEN m ELSE Freed(m, s)

\* Mutant: the destructor is not called.
NodeFreedPlain(m, node) == IF node.ptr = NULL THEN m ELSE Freed(m, node.ptr)

\* What the loops of destroy_store and store_collect do to one node.
NodeFreed(m, node) ==
    IF node.ptr = NULL THEN m
    ELSE Freed(IF node.is_obj THEN Destructed(m, node.ptr) ELSE m, node.ptr)

\* These loops.
AllFreed(m, nodes) == FoldLeft(NodeFreed, m, nodes)

\* The first node without a block; a new one if there is none.
FirstEmpty == CHOOSE k \in 1 .. Len(chain) + 1 :
    /\ k <= Len(chain) => chain[k].ptr = NULL
    /\ \A l \in 1 .. k-1 : chain[l].ptr # NULL

PutNode(b, is_obj) ==
    /\ FirstEmpty <= MaxNodes
    /\ chain' = [k \in 1 .. (IF FirstEmpty > Len(chain) THEN FirstEmpty ELSE Len(chain)) |->
                    IF k = FirstEmpty THEN [ptr |-> b, is_obj |-> is_obj] ELSE chain[k]]

\* A node whose block was freed is used again with the is_obj it has.
PutAsIs(b) == PutNode(b, IF FirstEmpty <= Len(chain) THEN chain[FirstEmpty].is_obj ELSE FALSE)

New(b) == store = "live" /\ ~mem.fault /\ mem.heap[b] = FreeBlock

\* smalloc(sz)
StoreMalloc(b) ==
    /\ New(b)
    /\ PutAsIs(b)
    /\ mem' = [mem EXCEPT !.heap[b] = Raw]
    /\ UNCHANGED <<client, store, misused>>

\* The client's own malloc(), or new_object_unmanaged() around a state.
ClientNew(b, s) ==
    /\ New(b)
    /\ s # NULL => s \in client /\ mem.heap[s] = Raw
    /\ mem' = [mem EXCEPT !.heap[b] = IF s = NULL THEN Raw ELSE ObjectOf(s)]
    /\ client' = (client \cup {b}) \ {s}
    /\ UNCHANGED <<chain, store, misused>>

\* free_object_unmanaged(obj); free() of a block that is no object.
FreeUnmanaged(b) ==
    /\ ~mem.fault /\ b \in client
    /\ mem' = NodeFreed(mem, [ptr |-> b, is_obj |-> mem.heap[b] # Raw])
    /\ client' = client \ {b}
    /\ UNCHANGED <<chain, store, misused>>

\* store_ptr(heap), and strack and strack_obj, which also set is_obj.
Adopt(b) ==
    /\ store = "live" /\ ~mem.fault /\ b \in client
    /\ \/ mem.heap[b] = Raw /\ PutAsIs(b)
       \/ PutNode(b, mem.heap[b] # Raw)
    /\ client' = client \ {b}
    /\ UNCHANGED <<mem, store, misused>>

\* snew_obj(proto): the array and generator objects of v1.
StoreObject(b, s) ==
    /\ New(b)
    /\ s \in client /\ mem.heap[s] = Raw
    /\ PutNode(b, TRUE)
    /\ mem' = [mem EXCEPT !.heap[b] = ObjectOf(s)]
    /\ client' = client \ {s}
    /\ UNCHANGED <<store, misused>>

\* Mutant: is_obj is left as it was.
StoreFreeKeepsIsObj(k) ==
    /\ store = "live" /\ ~mem.fault
    /\ k \in 1 .. Len(chain) /\ chain[k].ptr # NULL
    /\ mem' = NodeFreed(mem, chain[k])
    /\ chain' = [chain EXCEPT ![k].ptr = NULL]
    /\ UNCHANGED <<client, store, misused>>

\* Mutant: so is ptr.
StoreFreeKeepsPtr(k) ==
    /\ store = "live" /\ ~mem.fault
    /\ k \in 1 .. Len(chain) /\ chain[k].ptr # NULL
    /\ mem' = NodeFreed(mem, chain[k])
    /\ chain' = [chain EXCEPT ![k].is_obj = FALSE]
    /\ UNCHANGED <<client, store, misused>>

\* sdelete(ptr) of what node k holds: store_free(ptr).
StoreFree(k) ==
    /\ store = "live" /\ ~mem.fault
    /\ k \in 1 .. Len(chain) /\ chain[k].ptr # NULL
    /\ mem' = NodeFreed(mem, chain[k])
    /\ chain' = [chain EXCEPT ![k] = NewNode]
    /\ UNCHANGED <<client, store, misused>>

\* sdelete(ptr) of an object*: free_object calls its destructor unasked.
FreeObject(k) ==
    /\ store = "live" /\ ~mem.fault
    /\ k \in 1 .. Len(chain) /\ chain[k].ptr # NULL
    /\ mem.heap[chain[k].ptr].is = "object"
    /\ mem' = Freed(Destructed(mem, chain[k].ptr), chain[k].ptr)
    /\ chain' = [chain EXCEPT ![k] = NewNode]
    /\ UNCHANGED <<client, store, misused>>

\* clone_object(store, from), with the copy_to of OBJ_PROTO: it calls the
\* constructor without a look, and the clone has the state of the original.
CloneObject(from, b) ==
    /\ New(b)
    /\ mem.heap[from].is = "object"
    /\ misused' = TRUE
    /\ \/ mem' = [mem EXCEPT !.fault = TRUE] /\ UNCHANGED chain
       \/ /\ PutNode(b, TRUE)
          /\ mem' = [mem EXCEPT !.heap[b] = mem.heap[from]]
    /\ UNCHANGED <<client, store>>

\* scollect(): every node but the first is freed, the first keeps its ptr and
\* next.
StoreCollect ==
    /\ store = "live" /\ ~mem.fault
    /\ mem' = AllFreed(mem, chain)
    /\ chain' = [k \in 1 .. Len(chain) |-> [ptr |-> chain[k].ptr, is_obj |-> FALSE]]
    /\ IF chain = <<NewNode>> THEN UNCHANGED <<store, misused>>
       ELSE store' = "collected" /\ misused' = TRUE
    /\ UNCHANGED <<client>>

\* destroy_store(store), at the end of MANAGED.  A second node of a collected
\* store is freed memory.
DestroyStore ==
    /\ store # "destroyed" /\ ~mem.fault
    /\ mem' = IF store = "collected" /\ Len(chain) > 1 THEN [mem EXCEPT !.fault = TRUE]
              ELSE AllFreed(mem, chain)
    /\ chain' = <<NewNode>>
    /\ store' = "destroyed"
    /\ UNCHANGED <<client, misused>>

StoreNext ==
    \/ \E b \in Block : StoreMalloc(b) \/ FreeUnmanaged(b) \/ Adopt(b)
    \/ \E b \in Block, s \in Block \cup {NULL} : ClientNew(b, s) \/ StoreObject(b, s)
    \/ \E k \in 1 .. MaxNodes : StoreFree(k) \/ FreeObject(k)
    \/ \E from, b \in Block : CloneObject(from, b)
    \/ StoreCollect
    \/ DestroyStore

StoreSpec == StoreInit /\ [][StoreNext]_storeVars

-----------------------------------------------------------------------------
Nodes == { k \in 1 .. Len(chain) : chain[k].ptr # NULL }
Stated == { b \in Block : mem.heap[b].state # NULL }

(***************************************************************************)
(* In use, a store and its client own every block exactly once: as the      *)
(* block of one node, as the state of one object, or the client itself; and *)
(* a node calls a destructor exactly if its block is an object              *)
(* (ptr_store.c 14-86, 152-160, 187-201).                                   *)
(***************************************************************************)
BlocksOwnedOnce ==
    store = "live" /\ ~misused =>
        /\ \A b \in Block : mem.heap[b] # FreeBlock =>
              Cardinality({ k \in Nodes : chain[k].ptr = b })
              + Cardinality({ o \in Stated : mem.heap[o].state = b })
              + (IF b \in client THEN 1 ELSE 0) = 1
        /\ \A k \in Nodes : chain[k].is_obj <=> mem.heap[chain[k].ptr].is = "object"

StoreIInv == StoreTypeOK /\ BlocksOwnedOnce

(***************************************************************************)
(* No sequence of calls frees a block twice or uses a freed one, unless an  *)
(* object was cloned, or the store collected with something in its chain    *)
(* (ptr_store.c 110-132, 162-185).                                          *)
(***************************************************************************)
NoStoreFault == mem.fault => misused

(***************************************************************************)
(* A destroyed store has freed all it held, each object through its         *)
(* destructor: what is left is the client's.                                *)
(***************************************************************************)
StoreFreesAll ==
    store = "destroyed" /\ ~misused =>
        \A b \in Block : mem.heap[b] # FreeBlock =>
            b \in client \/ \E o \in client \cap Stated : mem.heap[o].state = b

=============================================================================
