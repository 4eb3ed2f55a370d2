-------------------------------- MODULE Storage --------------------------------
(***************************************************************************)
(* storage.py: the storage classes observed at the endpoints of a manifest *)
(* become one global number of I/O slots.                                  *)
(*                                                                         *)
(* A device key is [space, name, path]: a device by its name, a path by    *)
(* itself. Keys of different spaces are different strings.                 *)
(***************************************************************************)
EXTENDS Integers, Sequences, FiniteSets, TLC, Paths, Configuration

Classes == {"hdd", "ssd", "nvme", "unknown"}

Capacity == [hdd |-> 1, ssd |-> 2, nvme |-> 4, unknown |-> 2]

DeviceKey(space, name) == [space |-> space, name |-> name, path |-> << >>]
PathDeviceKey(space, path) == [space |-> space, name |-> "", path |-> path]

Observation(key, class) == [key |-> key, class |-> class]
Unknown(key) == Observation(key, "unknown")

(* _more_conservative                                                       *)
MoreConservative(candidate, current) ==
    IF \/ Capacity[candidate.class] < Capacity[current.class]
       \/ Capacity[candidate.class] = Capacity[current.class] /\ candidate.class = "unknown"
    THEN candidate ELSE current

(* Of the observations of one device, the one that no other replaces.       *)
ByDevice(observations) ==
    LET ofDevice(key) == {o \in ToSet(observations) : o.key = key}
    IN  [key \in {o.key : o \in ToSet(observations)} |->
            CHOOSE o \in ofDevice(key) :
                \A other \in ofDevice(key) : MoreConservative(other, o) = o]

(* resolve_auto_io_slots                                                    *)
ResolveAutoIoSlots(observations, maxProcesses) ==
    Smaller(Min({Capacity[o.class] : o \in Range(ByDevice(observations))} \union
                (IF observations = << >> THEN {2} ELSE {})), maxProcesses)

(* observe_storage_paths. The detector is a function on paths whose value   *)
(* has class "raises" where it raises.                                      *)
ObservePaths(spellings, detector) ==
    LET keys == [i \in DOMAIN spellings |-> PathKey(spellings[i])]
        observed(path) == IF detector[path].class = "raises"
                          THEN Unknown(PathDeviceKey("error", path)) ELSE detector[path]
        unique == Picked(keys, FirstPlaces(keys))
    IN  [n \in DOMAIN unique |-> observed(unique[n])]
=============================================================================
