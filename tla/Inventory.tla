------------------------------ MODULE Inventory ------------------------------
(***************************************************************************)
(* inventory_source of operations/create.py: the walk that gives a create  *)
(* source its identity, one system call (or one directory) at a time, so   *)
(* that the tree can change between any two of them.                       *)
(*                                                                         *)
(* A tree is a function from paths to [kind, size, mtime]; kind "absent"   *)
(* where nothing is. Directories are read in any order.                    *)
(***************************************************************************)
EXTENDS Manifest

Supported == {"file", "directory"}

(* What a file system can hold: above an entry there are only directories,  *)
(* as far up as the tree goes, and it goes up without a gap.                *)
ProperTree(tree) ==
    /\ \A p \in DOMAIN tree : p \in Seq(ToSet(p))
    /\ \A p, q \in DOMAIN tree : IsPrefix(p, q) /\ p # q =>
        /\ tree[q].kind # "absent" => tree[p].kind = "directory"
        /\ \A n \in Len(p)..Len(q) : SubSeq(q, 1, n) \in DOMAIN tree

KindAt(tree, path) == IF path \in DOMAIN tree THEN tree[path].kind ELSE "absent"

Children(tree, directory) ==
    {p \in DOMAIN tree : /\ tree[p].kind # "absent"
                         /\ Len(p) = Len(directory) + 1 /\ IsPrefix(directory, p)}

NoWalk == [phase |-> "none", root |-> << >>, kind |-> "absent",
           pending |-> {}, found |-> << >>, entries |-> {},
           identity |-> FileIdentity(0, 0)]

Failed(walk) == [NoWalk EXCEPT !.phase = "failed", !.root = walk.root]

(* The first lstat. A file is its own and only entry.                       *)
Begin(tree, root) ==
    LET kind == KindAt(tree, root)
        walk == [NoWalk EXCEPT !.root = root, !.kind = kind]
    IN  CASE kind = "file" -> [walk EXCEPT !.phase = "restat", !.found = [p \in {root} |-> "file"]]
          [] kind = "directory" -> [walk EXCEPT !.phase = "scan", !.pending = {root}]
          [] OTHER -> Failed(walk)

ScanRootOnly(tree, walk, directory) ==
    LET children == Children(tree, directory)
    IN  IF \E p \in children : tree[p].kind \notin Supported THEN Failed(walk)
        ELSE [walk EXCEPT !.phase = "restat", !.pending = {},
                          !.found = [p \in children |-> tree[p].kind]]

(* os.scandir of one pending directory; it fails if the directory is gone.  *)
Scan(tree, walk, directory) ==
    LET children == Children(tree, directory)
        subdirectories == {p \in children : tree[p].kind = "directory"}
        pending == (walk.pending \ {directory}) \union subdirectories
    IN  IF \/ tree[directory].kind # "directory"
           \/ \E p \in children : tree[p].kind \notin Supported THEN Failed(walk)
        ELSE [walk EXCEPT !.pending = pending,
                          !.found = Updated(@, [p \in children |-> tree[p].kind]),
                          !.phase = IF pending = {} THEN "restat" ELSE "scan"]

Unstatted(walk) == DOMAIN walk.found \ {e.path : e \in walk.entries}

(* lstat of one entry found: it must still be what it was.                  *)
Restat(tree, walk, path) ==
    IF tree[path].kind # walk.found[path] THEN Failed(walk)
    ELSE [walk EXCEPT !.entries = @ \union
            {[path |-> path, kind |-> tree[path].kind, mtime |-> tree[path].mtime,
              size |-> IF tree[path].kind = "file" THEN tree[path].size ELSE 0]}]

(* source_identity of the inventory: totals, latest mtime, digest.          *)
TreeIdentity(kind, entries, mtime) ==
    Identity(kind, MapThenSumSet(LAMBDA e : e.size, entries), mtime,
             Cardinality(entries), entries)

(* The last lstat of the root, when every entry has been looked at.         *)
Finish(tree, walk) ==
    LET mtimes == {e.mtime : e \in walk.entries} \union {tree[walk.root].mtime}
    IN  IF tree[walk.root].kind # walk.kind THEN Failed(walk)
        ELSE [NoWalk EXCEPT !.phase = "done", !.root = walk.root, !.kind = walk.kind,
                            !.identity = TreeIdentity(walk.kind, walk.entries, Max(mtimes))]
=============================================================================
