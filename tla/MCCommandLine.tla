---------------------------- MODULE MCCommandLine ----------------------------
(***************************************************************************)
(* Instances of CommandLine for TLC. Each family of scenarios varies one   *)
(* concern and keeps the others plain: settings, edits of a manifest,      *)
(* devices on Linux and on Windows, inputs of either planner, a source     *)
(* that changes.                                                           *)
(***************************************************************************)
EXTENDS CommandLine

In(name) == <<<<"in">>, name>>
X1 == In(<<"x", "7z", "001">>)      X2 == In(<<"x", "7z", "002">>)
XZip == In(<<"x", "zip">>)
Y1 == In(<<"y", "part1", "rar">>)   Y2 == In(<<"y", "part2", "rar">>)
W0 == In(<<"w", "r00">>)            WRar == In(<<"w", "rar">>)
ZOld == In(<<"z", "r00">>)          (* its first volume z.rar is missing    *)
Data == In(<<"u", "dat">>)          (* of no known format                   *)
Dir == In(<<"d">>)                  Sub == Append(Dir, <<"s">>)
DirFile == Append(Dir, <<"f">>)     SubFile == Append(Sub, <<"g">>)
New == Append(Dir, <<"n">>)         Link == In(<<"l">>)
Missing == In(<<"m", "7z">>)
Out == <<<<"out">>>>
MCDefaultLogDir == <<<<"in">>, <<"d">>, <<"logs">>>>

Entry(kind, size, mtime) == [kind |-> kind, size |-> size, mtime |-> mtime]
Archives ==
       X1 :> Entry("file", 2, 1) @@ X2 :> Entry("file", 1, 1) @@ XZip :> Entry("file", 1, 2)
    @@ Y1 :> Entry("file", 3, 1) @@ Y2 :> Entry("file", 1, 1) @@ ZOld :> Entry("file", 1, 1)
    @@ W0 :> Entry("file", 1, 1) @@ WRar :> Entry("file", 1, 1)
    @@ Data :> Entry("file", 1, 1) @@ Dir :> Entry("directory", 0, 1)
SourceTree ==
       Dir :> Entry("directory", 0, 1) @@ DirFile :> Entry("file", 1, 1)
    @@ Sub :> Entry("directory", 0, 2) @@ SubFile :> Entry("file", 1, 2)
    @@ New :> Entry("absent", 0, 0) @@ Link :> Entry("link", 0, 1)
    @@ XZip :> Entry("file", 2, 1)

Plain == [error |-> FALSE, format |-> "7z", bzip2 |-> FALSE, blocks |-> 1, encrypted |-> FALSE]
Listings ==
    [p \in DOMAIN Archives |->
        CASE p = X1 -> [Plain EXCEPT !.blocks = 3]
          [] p = Y1 -> [Plain EXCEPT !.format = "none", !.bzip2 = TRUE, !.encrypted = TRUE]
          [] p = Data -> [Plain EXCEPT !.error = TRUE, !.format = "none"]
          [] OTHER -> Plain]

NoLayers == [l \in ToSet(Layers) |-> << >>]
Set(l, field, value) == [NoLayers EXCEPT ![l] = field :> value]
Cli(settings) == [NoLayers EXCEPT !["cli"] = settings]

Disk(class) ==
    [device |-> << >> :> "8:0", filesystem |-> "8:0" :> "ext4", node |-> "8:0" :> "a",
     parent |-> "a" :> "none", rotational |-> "a" :> "0" @@ "none" :> "none",
     nvme |-> IF class = "nvme" THEN {"a"} ELSE {}, slaves |-> "a" :> {}]

Reply(value) ==
    [sizing |-> "answered", header |-> 8, size |-> 40, returned |-> 40, value |-> value]
Volume(name) ==
    [name |-> name, unc |-> FALSE, exists |-> TRUE, api |-> TRUE, drive |-> "fixed",
     named |-> TRUE, opens |-> TRUE, closes |-> TRUE, identified |-> TRUE,
     bus |-> Reply("sata"), seek |-> Reply("no")]
Volumes == <<"in">> :> Volume("C") @@ <<"out">> :> Volume("D")

Linux(sys) == [platform |-> "linux", sys |-> sys, volume |-> Volumes, raising |-> {}]

Base ==
    [command |-> "direct", operation |-> "extract", legacy |-> FALSE, layers |-> NoLayers,
     given |-> <<Spelled(X1)>>, listed |-> FALSE, tree |-> Archives, listing |-> Listings,
     world |-> Linux(Disk("nvme")), edits |-> 0, changes |-> 0, rerun |-> {}, extra |-> << >>]
-----------------------------------------------------------------------------
(* Two settings, each in any layer.                                         *)
Settings ==
    {<<"io_slots", 3>>, <<"io_slots", 0>>, <<"storage_profile", "hdd">>,
     <<"storage_profile", "auto">>, <<"storage_profile", "raid">>, <<"max_processes", 1>>,
     <<"cpu_budget", AutoBudget>>, <<"cpu_budget", 2>>, <<"heavy_threads", 9>>,
     <<"compression_level", 0>>}
TwoSettings ==
    {[NoLayers EXCEPT ![l] = s[1] :> s[2], ![m] = (t[1] :> t[2]) @@ @] :
        l \in ToSet(Layers), s \in Settings, m \in ToSet(Layers), t \in Settings}
ConfigScenarios == {[Base EXCEPT !.layers = ls] : ls \in TwoSettings}
-----------------------------------------------------------------------------
(* A planned manifest, with a record of schema 1 at hand to add, edited at  *)
(* most twice and run under other budgets.                                  *)
V1(path) == ExtractJob(1, 5, path, Archives[path], Listings[path], Resolve(NoLayers))
ManifestScenarios ==
    {[Base EXCEPT !.command = "plan", !.legacy = legacy, !.edits = 2, !.extra = <<V1(p)>>,
                  !.given = <<Spelled(X1), Spelled(Y1)>>,
                  !.rerun = {NoLayers, Cli([cpu_budget |-> 1]), Cli([io_slots |-> 2])}] :
        legacy \in BOOLEAN, p \in {XZip, Y1}}
    \union {[Base EXCEPT !.command = "plan", !.operation = "create", !.edits = 1,
                         !.tree = SourceTree, !.given = <<Spelled(Sub), Spelled(XZip)>>,
                         !.rerun = {NoLayers, Cli([log_dir |-> Sub])}]}

MCEditsOf(record, manifest) ==
    LET allowed == {[record EXCEPT !.destination = d] : d \in
                        {[path |-> r.destination.path, dots |-> TRUE] : r \in ToSet(manifest)}
                        \union {Spelled(New), Spelled(Append(record.path, <<"in">>))}}
                   \union {[record EXCEPT !.profile = p] : p \in {"small", "fast", NotHashable}}
                   \union {[record EXCEPT !.cpu_tokens = n] : n \in {0, 9}}
                   \union {[record EXCEPT !.threads = 9]}
        guarded == {[record EXCEPT !.io_tokens = 3], [record EXCEPT !.plan_index = 7],
                    [record EXCEPT !.identity.size = @ + 1],
                    [record EXCEPT !.path = XZip], [record EXCEPT !.form = "malformed"]}
        forged == {[r EXCEPT !.job_id = JobId(r.schema, r.operation, r.path, r.identity)] :
                        r \in guarded}
        short == {Restrict(record, DOMAIN record \ {"threads"})}
    IN  IF RequiredFields \subseteq DOMAIN record
        THEN allowed \union guarded \union {Stamped(r) : r \in guarded \union forged} \union short
        ELSE {}
-----------------------------------------------------------------------------
(* A device-mapper node "md" over "a" and "b", where "a" may be a partition *)
(* of "b"; the output is on the same device, or on one that says nothing.   *)
Nodes == {"md", "a", "b"}
Hardware ==
    {[rotational |-> r, nvme |-> n, parent |-> p, slaves |-> {}] :
        r \in {"0", "1"}, n \in BOOLEAN, p \in {"none"}}
Opaque(parent, links) ==
    {[rotational |-> "none", nvme |-> FALSE, parent |-> parent, slaves |-> s] :
        s \in SUBSET links}
Graphs ==
    {[md |-> m, a |-> a, b |-> b] :
        m \in Opaque("none", {"a", "b", "md", "broken"}),
        a \in Hardware \union Opaque("none", {"b", "md"}) \union Opaque("b", {}),
        b \in Hardware \union Opaque("none", {"a", "broken"})}
Sysfs(graph) ==
    [device |-> << >> :> "9:0" @@ Out :> "0:1", filesystem |-> "9:0" :> "none" @@ "0:1" :> "ext4",
     node |-> "9:0" :> "md" @@ "0:1" :> "broken",
     parent |-> [n \in Nodes |-> graph[n].parent],
     rotational |-> "none" :> "none" @@ [n \in Nodes |-> graph[n].rotational],
     nvme |-> {n \in Nodes : graph[n].nvme}, slaves |-> [n \in Nodes |-> graph[n].slaves]]
ToOut == Cli([output_dir |-> Out])
LinuxScenarios ==
    {[Base EXCEPT !.world = Linux(Sysfs(graph))] : graph \in Graphs}
    \union {[Base EXCEPT !.layers = ToOut, !.world = w] : w \in
        {[Linux(s) EXCEPT !.raising = r] :
            r \in {{}, {X1}},
            s \in {[Disk("nvme") EXCEPT !.device = Out :> d @@ @, !.filesystem = f @@ @,
                                        !.node = d :> "a" @@ @] :
                      d \in {"denied", "0:2"}, f \in {"0:2" :> "nfs", "0:2" :> "none"}}}}

Replies(values) ==
    {Reply(v) : v \in values}
    \union {[Reply(CHOOSE v \in values : TRUE) EXCEPT !.size = n, !.returned = n] : n \in {7, 8, 9, 65537}}
    \union {[Reply(CHOOSE v \in values : TRUE) EXCEPT !.sizing = s] :
                s \in {"refused", "insufficient, then answered"}}
    \union {[Reply(CHOOSE v \in values : TRUE) EXCEPT !.returned = n] : n \in {39, 41}}
VolumeVariants(name) ==
    LET v == Volume(name)
    IN  {[v EXCEPT !.bus = b] : b \in Replies({"nvme", "spaces", "sata"})}
        \union {[v EXCEPT !.seek = s] : s \in Replies({"yes", "no", "garbled"})}
        \union {[v EXCEPT !.drive = d] : d \in {"remote", "cdrom", "removable", "error"}}
        \union {[v EXCEPT !.unc = TRUE], [v EXCEPT !.exists = FALSE], [v EXCEPT !.api = FALSE],
                [v EXCEPT !.named = FALSE], [v EXCEPT !.opens = FALSE],
                [v EXCEPT !.closes = FALSE], [v EXCEPT !.identified = FALSE]}
WindowsScenarios ==
    {[Base EXCEPT !.layers = ToOut,
                  !.world = [@ EXCEPT !.platform = "win32",
                                      !.volume = <<"in">> :> v @@ <<"out">> :> w]] :
        v \in VolumeVariants("C"), w \in {[Volume("D") EXCEPT !.bus = Reply("nvme")]}}
    \union {[Base EXCEPT !.world.platform = "darwin"]}
-----------------------------------------------------------------------------
(* Up to three inputs.                                                      *)
UpTo(n, S) == UNION {[1..k -> S] : k \in 0..n}
Volumes1 == {Spelled(p) : p \in {X2, XZip, Y1, Y2, W0, ZOld}}
            \union {[path |-> X1, dots |-> d] : d \in BOOLEAN}
Given == Volumes1 \union {Spelled(p) : p \in {WRar, Data, Dir, Missing}}
ExtractScenarios ==
    {[Base EXCEPT !.command = c, !.layers = Cli([on_input_error |-> e]), !.given = g,
                  !.listed = g = << >> /\ c = "plan", !.legacy = c = "plan"] :
        c \in {"plan", "direct"}, e \in {"fail", "skip"}, g \in UpTo(2, Given) \union UpTo(3, Volumes1)}
    \union {[Base EXCEPT !.listed = TRUE, !.given = << >>,
                         !.layers = Cli([on_input_error |-> "skip"])]}
CreateScenarios ==
    {[Base EXCEPT !.command = c, !.operation = "create", !.tree = SourceTree, !.given = g,
                  !.layers = Cli([on_input_error |-> e, output_dir |-> o, small_threshold |-> 1,
                                  compression_level |-> 0, log_dir |-> Out])] :
        c \in {"plan", "direct"}, e \in {"fail", "skip"}, o \in {<< >>, Out, Sub},
        g \in UpTo(2, {Spelled(p) : p \in {Dir, Sub, XZip, Link, Missing}})}
-----------------------------------------------------------------------------
(* A directory planned and created while another program works in it.       *)
ChangeScenarios ==
    {[Base EXCEPT !.command = "plan", !.operation = "create", !.tree = SourceTree,
                  !.given = <<Spelled(Dir)>>, !.changes = 2,
                  !.layers = Cli([log_dir |-> Out]),
                  !.rerun = {Cli([log_dir |-> Out, allow_changed |-> a]) : a \in BOOLEAN}]}
    \union {[Base EXCEPT !.command = "plan", !.changes = 1,
                         !.rerun = {Cli([allow_changed |-> a]) : a \in BOOLEAN}]}

MCReplacements ==
    {[kind |-> "file", size |-> 1, old |-> FALSE], [kind |-> "file", size |-> 1, old |-> TRUE],
     [kind |-> "directory", size |-> 0, old |-> FALSE],
     [kind |-> "link", size |-> 0, old |-> FALSE],
     [kind |-> "absent", size |-> 0, old |-> FALSE]}

MCScenarios == ConfigScenarios \union ManifestScenarios \union LinuxScenarios
               \union WindowsScenarios \union ExtractScenarios \union CreateScenarios
               \union ChangeScenarios
=============================================================================
