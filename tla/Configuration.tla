---------------------------- MODULE Configuration ----------------------------
(***************************************************************************)
(* config.py: settings come in layers, from the root table of a TOML file  *)
(* up to the command line; some defaults depend on the resolved value of   *)
(* other settings, and the provenance of the I/O settings is kept.         *)
(***************************************************************************)
EXTENDS Integers, Sequences, FiniteSets, TLC, SequencesExt, Functions

CONSTANT CpuCount          (* os.cpu_count() or 1                           *)

ASSUME CpuCountAssumption == CpuCount \in Nat \ {0}

Smaller(a, b) == IF a =< b THEN a ELSE b
Larger(a, b)  == IF a >= b THEN a ELSE b

(* lowest first                                                             *)
Layers == <<"root", "parxtract", "arcshuttle", "legacyEnv", "env", "cli">>
CreateFields == {"create_format", "compression_level"}
IntFields    == {"cpu_budget", "max_processes", "io_slots", "heavy_threads"}
(* the setting --cpu-budget auto                                            *)
AutoBudget == -1
AutoCpu == Larger(1, CpuCount - 1)

(* Config: output_dir and log_dir are paths; the empty one is None.         *)
Defaults ==
    [cpu_budget |-> AutoCpu, max_processes |-> Smaller(4, AutoCpu),
     io_slots |-> Smaller(2, Smaller(4, AutoCpu)), heavy_threads |-> Smaller(4, AutoCpu),
     storage_profile |-> "auto", create_format |-> "7z", compression_level |-> 5,
     small_threshold |-> 2, inspect_threshold |-> 2,
     on_input_error |-> "fail", allow_changed |-> FALSE,
     output_dir |-> << >>, log_dir |-> << >>]

(* dict.update                                                              *)
Updated(values, changes) ==
    [f \in DOMAIN values \union DOMAIN changes |->
        IF f \in DOMAIN changes THEN changes[f] ELSE values[f]]

(* There are no PARXTRACT_ names for the create options.                    *)
Read(layers, l) ==
    IF l = "legacyEnv" THEN Restrict(layers[l], DOMAIN layers[l] \ CreateFields)
    ELSE layers[l]

(* _validate_toml_values: create options belong in [arcshuttle] only.       *)
UnknownOption(layers) ==
    \E l \in {"root", "parxtract"} : DOMAIN layers[l] \intersect CreateFields # {}

Merged(layers) ==
    LET read(l) == Read(layers, l)
        toml == Updated(Updated(Updated(Defaults, read("root")), read("parxtract")),
                        read("arcshuttle"))
    IN  Updated(Updated(Updated(toml, read("legacyEnv")), read("env")), read("cli"))

ExplicitOnCommandLine(layers, f) == f \in DOMAIN layers["cli"]

(* explicitly_set                                                           *)
Explicit(layers, f) == \E i \in DOMAIN Layers : f \in DOMAIN Read(layers, Layers[i])

(* _coerce and the checks of resolve_config: what can be accepted.          *)
Acceptable(f, v) ==
    CASE f = "cpu_budget"         -> v \in (Nat \ {0}) \union {AutoBudget}
      [] f \in IntFields          -> v \in Nat \ {0}
      [] f = "compression_level"  -> v \in 0..9
      [] f = "storage_profile"    -> v \in {"auto", "hdd", "ssd", "nvme"}
      [] f = "create_format"      -> v \in {"7z", "zip"}
      [] f = "on_input_error"     -> v \in {"fail", "skip"}
      [] OTHER                    -> TRUE

Resolvable(layers) ==
    /\ ~UnknownOption(layers)
    /\ \A f \in DOMAIN Defaults : Acceptable(f, Merged(layers)[f])

ProfileSlots == [hdd |-> 1, ssd |-> 2, nvme |-> 4]

(* resolve_config, of layers that are Resolvable. uses_auto_io_slots is the *)
(* property of Config with that name.                                       *)
Resolve(layers) ==
    LET merged == Merged(layers)
        cpu == IF merged.cpu_budget = AutoBudget THEN AutoCpu ELSE merged.cpu_budget
        processes == IF Explicit(layers, "max_processes") THEN merged.max_processes
                     ELSE Smaller(4, cpu)
        heavy == IF Explicit(layers, "heavy_threads") THEN merged.heavy_threads
                 ELSE Smaller(4, cpu)
        profile == merged.storage_profile
        slots == IF Explicit(layers, "io_slots") THEN merged.io_slots
                 ELSE IF profile \in DOMAIN ProfileSlots THEN ProfileSlots[profile]
                 ELSE Smaller(2, processes)
    IN  [f \in DOMAIN Defaults \union {"uses_auto_io_slots"} |->
            CASE f = "uses_auto_io_slots" -> ~Explicit(layers, "io_slots") /\ profile = "auto"
              [] f = "cpu_budget"         -> cpu
              [] f = "max_processes"      -> processes
              [] f = "io_slots"           -> slots
              [] f = "heavy_threads"      -> Smaller(heavy, cpu)
              [] OTHER                    -> merged[f]]
=============================================================================
