------------------------------ MODULE FileTree ------------------------------
(***************************************************************************)
(* What the file system promises: a tree of named files and directories    *)
(* that changes by whole entries.  An entry appears, disappears or grows   *)
(* in one step, whatever happens to the machine between two steps.         *)
(*                                                                         *)
(* It does not promise that nothing else is seen.  Where writes may fail a *)
(* directory may come to be spoilt: it was given a cluster that still      *)
(* holds the text of a file, and that text is read as entries nobody made, *)
(* several at once.  A step spoils no more than one directory; all others  *)
(* show what is in the tree.                                               *)
(***************************************************************************)
EXTENDS Integers

CONSTANTS
    Names,      \* what an entry may be called
    Nodes,      \* identities of files and directories
    RootNode,   \* the root directory
    TestName,   \* the file there is at first, of one unit,
    TestNode,   \* and its identity
    Failing     \* whether writes may fail

VARIABLES
    tree,       \* the set of entries
    spoilt      \* the directories that hold text

Sizes == Nat

TreeEntry == [parent : Nodes, name : Names, node : Nodes, isDir : BOOLEAN,
              size : Sizes]

Directories == {RootNode} \cup {e.node : e \in {x \in tree : x.isDir}}
Used        == {RootNode} \cup {e.node : e \in tree}

Init ==
    /\ tree = {[parent |-> RootNode, name |-> TestName, node |-> TestNode,
                 isDir |-> FALSE, size |-> 1]}
    /\ spoilt = {}

\* A new, empty file or directory, under a name its directory does not hold.
Add(e) ==
    /\ e \in TreeEntry /\ e.size = 0
    /\ e.parent \in Directories
    /\ ~ \E x \in tree : x.parent = e.parent /\ x.name = e.name
    /\ e.node \notin Used
    /\ tree' = tree \cup {e}

\* A directory goes only when nothing is in it.
Remove(e) ==
    /\ e.isDir => ~ \E x \in tree : x.parent = e.node
    /\ tree' = tree \ {e}

\* A file grows; it never shrinks.
Grow(e, s) ==
    /\ ~e.isDir /\ s > e.size
    /\ tree' = (tree \ {e}) \cup {[e EXCEPT !.size = s]}

\* The entries a step takes away and brings are all it can be about.
TreeStep ==
    LET gone == tree \ tree'
        came == tree' \ tree
    IN  \/ \E e \in came : Add(e)
        \/ \E e \in gone : \/ Remove(e)
                           \/ \E x \in came : Grow(e, x.size)

Spoil ==
    /\ \A d, e \in spoilt' \ spoilt : d = e
    /\ Failing \/ spoilt' = {}

Next == (UNCHANGED tree \/ TreeStep) /\ Spoil

Spec == Init /\ [][Next]_<<tree, spoilt>>

=============================================================================
