----------------------------- MODULE MCLibraries -----------------------------
(* One instance of the libraries and small programs that run on their own: *)
(* a behaviour is one of the subject it starts with.  store is the variable  *)
(* of Store and it that of any other.                                         *)
EXTENDS Store

VARIABLES subject, it

TypedCounts == {1, -1}

Queue == INSTANCE ContiguousQueue
             WITH queue <- it, Values <- {"a", "b"}, QUEUE_INITIAL_SIZE <- 2,
                  QUEUE_MAX_ITEMS_UNUSED <- 1, MaxCapacity <- 8
Stack == INSTANCE ContiguousStack
             WITH stack <- it, Values <- {"a", "b"}, STACK_INITIAL_SIZE <- 2, MaxCapacity <- 4
Nodes == INSTANCE LinkedNodes
             WITH linked <- it, Addresses <- {"a", "b", "c"}, Values <- {1, 2}
Lists == INSTANCE LinkedLists
             WITH list <- it, Addresses <- {1, 2, 3, 4}, Values <- {1, 2, 3}
SearchTrees == INSTANCE SearchTree WITH bst <- it, Values <- 1 .. 5, MaxNodes <- 6
BinaryTrees == INSTANCE BinaryTree WITH tree <- it, Values <- {1, 2}, MaxLength <- 4
Disjoint == INSTANCE DisjointSets
                WITH disjoint <- it, DISJOINT_SETS_INITIAL_CAPACITY <- 2, MaxSets <- 4
Heaps == INSTANCE BinaryHeap
             WITH heap <- it, Values <- {"a"}, Priorities <- {1, 2, 3},
                  BINARY_HEAP_INITIAL_CAPACITY <- 5, MaxSize <- 6
Graphs == INSTANCE Graph
              WITH graph <- it, Size <- 3, Weights <- {1, 3}, MaxEdges <- 3
Files == INSTANCE HashFile
             WITH hashed <- it, Dnis <- {10, 20, 30, 11, 21}, REGS_PER_BUCKET <- 1, BUCKETS <- 2,
                  OVERFLOW_BUCKETS <- 2, MaxAlumns <- 4
Tests == INSTANCE Algorithms
             WITH algorithm <- it, MaxLength <- 6, MaxFactor <- 12, MaxN <- 6, MaxClocks <- 1,
                  Bits <- 2, MAP_SIZE <- 8, VECTOR_DEFAULT_SIZE <- 10, ItemBytes <- 4,
                  coins <- <<1, 2, 5, 10, 20>>

LibrariesInit ==
    /\ Init
    /\ \/ subject = "queue" /\ Queue!Init
       \/ subject = "stack" /\ Stack!Init
       \/ subject = "nodes" /\ Nodes!Init
       \/ subject = "list" /\ Lists!Init
       \/ subject = "search tree" /\ SearchTrees!Init
       \/ subject = "binary tree" /\ BinaryTrees!Init
       \/ subject = "disjoint sets" /\ Disjoint!Init
       \/ subject = "heap" /\ Heaps!Init
       \/ subject = "graph" /\ Graphs!Init
       \/ subject = "file" /\ Files!Init
       \/ subject = "algorithm" /\ Tests!Init
       \/ subject = "store" /\ it = <<>>

OthersNext ==
    \/ subject = "queue" /\ Queue!Next
    \/ subject = "stack" /\ Stack!Next
    \/ subject = "nodes" /\ Nodes!Next
    \/ subject = "list" /\ Lists!Next
    \/ subject = "search tree" /\ SearchTrees!Next
    \/ subject = "binary tree" /\ BinaryTrees!Next
    \/ subject = "disjoint sets" /\ Disjoint!Next
    \/ subject = "heap" /\ Heaps!Next
    \/ subject = "graph" /\ Graphs!Next
    \/ subject = "file" /\ Files!Next
    \/ subject = "algorithm" /\ Tests!Next

LibrariesNext ==
    \/ subject = "store" /\ Next /\ UNCHANGED <<subject, it>>
    \/ OthersNext /\ UNCHANGED <<subject, store>>

LibrariesSpec == LibrariesInit /\ [][LibrariesNext]_<<subject, store, it>>
-----------------------------------------------------------------------------
(* Every structure is the abstract one it stands for, whatever the order   *)
(* of the calls, and every algorithm gives what it is for: Sound of each     *)
(* module says how far, and the places where the code stops short of it.      *)
StructuresSound ==
    /\ subject = "queue" => Queue!Sound
    /\ subject = "stack" => Stack!Sound
    /\ subject = "nodes" => Nodes!Sound
    /\ subject = "list" => Lists!Sound /\ Lists!IsASequence
    /\ subject = "search tree" => SearchTrees!Sound
    /\ subject = "binary tree" => BinaryTrees!Sound
    /\ subject = "disjoint sets" => Disjoint!Sound
    /\ subject = "heap" => Heaps!Sound
    /\ subject = "graph" => Graphs!Sound
    /\ subject = "file" => Files!Sound
    /\ subject = "algorithm" => Tests!Sound

(* Elements leave the queues in the order they came and the stacks in the  *)
(* reverse one, but for the memcpy that overlaps (queue-contiguous) and the   *)
(* next that nobody wrote (queue-list).                                        *)
KeepPromises ==
    [][/\ subject = "queue" => Queue!InOrder
       /\ subject = "stack" => Stack!Keeps
       /\ subject = "nodes" => Nodes!Keeps]_<<subject, it>>
=============================================================================
