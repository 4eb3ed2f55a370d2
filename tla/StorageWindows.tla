---------------------------- MODULE StorageWindows ----------------------------
(***************************************************************************)
(* storage_windows.py: the class of the device behind a path, asked of the *)
(* Win32 API. Each call may fail; what the calls answer for the volume of  *)
(* a path is a record, v:                                                  *)
(*   unc       the path is \\host\share                                    *)
(*   exists    some parent of the path can be seen to exist                *)
(*   api       kernel32 could be loaded                                    *)
(*   drive     GetDriveTypeW, "error" when the volume is not resolved      *)
(*   named     the volume has a name                                       *)
(*   opens, closes, identified  the volume's handle and device number      *)
(*   bus, seek the driver's replies to the two property queries            *)
(* A reply is [sizing, header, size, returned, value]: the outcome of the  *)
(* request for the descriptor's size, the bytes it returned, the size in   *)
(* them, the bytes of the full answer, and the property in it. More bytes  *)
(* than were asked for are an error.                                       *)
(***************************************************************************)
EXTENDS Storage

MaxDescriptorSize == 65536
VirtualBusTypes == {"virtual", "file-backed-virtual", "spaces"}

(* The room for the header. A driver may insist on the fixed part of the    *)
(* descriptor for the first request; then it is asked once more.            *)
HeaderRoom == "answered" :> 8 @@ "insufficient, then answered" :> 36

(* _query_property: the size first, then that much.                         *)
SizeKnown(reply) ==
    /\ reply.sizing \in DOMAIN HeaderRoom
    /\ reply.header \in 8..HeaderRoom[reply.sizing]
    /\ reply.size \in 8..MaxDescriptorSize

(* _parse_bus_type needs 32 bytes, _parse_seek_penalty 9.                   *)
Property(reply, fixedPart) ==
    IF /\ SizeKnown(reply)
       /\ reply.size >= fixedPart
       /\ reply.returned = reply.size
    THEN reply.value ELSE "error"

(* What the volume's handle yields inside the with-block, or "error" when   *)
(* any step of it raises, closing included.                                 *)
QueriedClass(v) ==
    LET bus == Property(v.bus, 32)
        seek == Property(v.seek, 9)
    IN  IF ~v.opens \/ ~v.identified \/ ~v.closes \/ bus = "error" THEN "error"
        ELSE IF bus = "nvme" THEN "nvme"
        ELSE IF bus \in VirtualBusTypes THEN "unknown"
        ELSE CASE seek = "yes" -> "hdd" [] seek = "no" -> "ssd" [] OTHER -> "error"

(* WindowsStorageDetector.__call__: the key says how far it got.            *)
WindowsObserve(v, path) ==
    IF v.unc THEN Unknown(DeviceKey("windows:unc", v.name))
    ELSE IF ~v.exists \/ ~v.api \/ v.drive = "error"
         THEN Unknown(PathDeviceKey("windows:path", path))
    ELSE IF v.drive \notin {"fixed", "removable"} \/ ~v.named
         THEN Unknown(DeviceKey("windows:root", v.name))
    ELSE IF QueriedClass(v) = "error" THEN Unknown(DeviceKey("windows:volume", v.name))
    ELSE Observation(DeviceKey("windows:device", v.name), QueriedClass(v))
=============================================================================
