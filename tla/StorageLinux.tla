----------------------------- MODULE StorageLinux -----------------------------
(***************************************************************************)
(* storage_linux.py: the class of the device behind a path, read from the  *)
(* mount table and from the graph of block devices in sysfs. What the      *)
(* system says is a record, sys:                                           *)
(*   device      device of the paths that exist; "denied" when stat fails  *)
(*   filesystem  type of the filesystem on a device, "none" if unlisted    *)
(*   node        sysfs node of a device, "broken" if its link is           *)
(*   parent      enclosing node of a node (a partition's disk), or "none"  *)
(*   rotational  "0", "1", or "none" (missing, unreadable, invalid)        *)
(*   nvme        nodes whose path or transport names NVMe                  *)
(*   slaves      nodes a node is built on, "broken" for a dangling link    *)
(* The per-device cache keeps what this function returns again.            *)
(***************************************************************************)
EXTENDS Storage

(* The system's tables have ends, and what a block device is built on is a  *)
(* block device, or a link that leads nowhere.                              *)
ProperSys(sys) ==
    /\ IsFiniteSet(DOMAIN sys.device) /\ \A a \in DOMAIN sys.device : a \in Seq(ToSet(a))
    /\ IsFiniteSet(DOMAIN sys.slaves)
    /\ \A n \in DOMAIN sys.slaves : sys.slaves[n] \subseteq DOMAIN sys.slaves \union {"broken"}
    /\ \A a \in DOMAIN sys.device : sys.device[a] # "denied" =>
            sys.node[sys.device[a]] \in DOMAIN sys.slaves \union {"broken"}

NetworkFilesystems == {"nfs", "cifs", "fuse.sshfs"}

(* _nearest_existing_device                                                 *)
NearestDevice(sys, path) ==
    LET existing == {a \in DOMAIN sys.device : IsPrefix(a, path)}
        nearest == CHOOSE a \in existing : \A b \in existing : Len(b) =< Len(a)
    IN  IF existing = {} THEN "denied" ELSE sys.device[nearest]

(* _rotational_metadata: the node's own queue, or its parent's.             *)
QueueOwner(sys, node) ==
    IF sys.rotational[node] # "none" THEN node
    ELSE IF sys.parent[node] # "none" /\ sys.rotational[sys.parent[node]] # "none"
         THEN sys.parent[node]
    ELSE "none"

QueueClass(sys, node) ==
    LET owner == QueueOwner(sys, node)
    IN  IF sys.rotational[owner] = "1" THEN "hdd"
        ELSE IF {node, owner} \intersect sys.nvme # {} THEN "nvme"
        ELSE "ssd"

CombineOptimistically(classes) ==
    CHOOSE c \in classes : \A d \in classes : Capacity[d] =< Capacity[c]

(* _combine_backing_devices: the lowest capacity, unknown before ssd.       *)
CombineBacking(classes) ==
    LET slowest == {c \in classes : \A d \in classes : Capacity[c] =< Capacity[d]}
    IN  IF "unknown" \in slowest THEN "unknown" ELSE CHOOSE c \in slowest : TRUE

Visits(sys) == LET nodes == DOMAIN sys.slaves IN nodes \X SUBSET nodes

(* _classify_node, of a node and the ancestors on the way to it, when       *)
(* classify is what it returns for others: a node seen among its own        *)
(* ancestors is a cycle.                                                    *)
ClassOfVisit(sys, classify, visit) ==
    LET node == visit[1]
        ancestors == visit[2]
    IN  IF node \in ancestors THEN "unknown"
        ELSE IF QueueOwner(sys, node) # "none" THEN QueueClass(sys, node)
        ELSE IF sys.slaves[node] = {} THEN "unknown"
        ELSE CombineBacking({IF s = "broken" THEN "unknown"
                             ELSE classify[<<s, ancestors \union {node}>>]
                             : s \in sys.slaves[node]})

ClassifyNode(sys, root) ==
    LET classify[visit \in Visits(sys)] == ClassOfVisit(sys, classify, visit)
    IN  classify[<<root, {}>>]

(* LinuxStorageDetector.__call__                                            *)
LinuxObserve(sys, path) ==
    LET device == NearestDevice(sys, path)
        key == DeviceKey("linux", device)
    IN  IF device = "denied" THEN Unknown(PathDeviceKey("linux:path", path))
        ELSE IF sys.filesystem[device] \in NetworkFilesystems THEN Unknown(key)
        ELSE IF sys.node[device] = "broken" THEN Unknown(key)
        ELSE Observation(key, ClassifyNode(sys, sys.node[device]))
=============================================================================
