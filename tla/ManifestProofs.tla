---------------------------- MODULE ManifestProofs ----------------------------
(***************************************************************************)
(* What the operators of Manifest, Configuration and Planning yield for    *)
(* every record, configuration and number of CPUs: the lemmas on which the *)
(* theorems about CommandLine rest.                                        *)
(***************************************************************************)
EXTENDS Planning, FiniteSetTheorems, SequenceTheorems, WellFoundedInduction, TLAPS

(* Whatever the layers say, the numbers of a configuration that is accepted *)
(* are positive.                                                            *)
LEMMA ResolvedBudget ==
    ASSUME NEW ls, Resolvable(ls)
    PROVE  /\ IntFields \union {"uses_auto_io_slots"} \subseteq DOMAIN Resolve(ls)
           /\ \A f \in IntFields : Resolve(ls)[f] \in Nat \ {0}
<1> DEFINE merged == Merged(ls)
           cpu == IF merged.cpu_budget = AutoBudget THEN AutoCpu ELSE merged.cpu_budget
           processes == IF Explicit(ls, "max_processes") THEN merged.max_processes
                        ELSE Smaller(4, cpu)
           heavy == IF Explicit(ls, "heavy_threads") THEN merged.heavy_threads
                    ELSE Smaller(4, cpu)
           profile == merged.storage_profile
           slots == IF Explicit(ls, "io_slots") THEN merged.io_slots
                    ELSE IF profile \in DOMAIN ProfileSlots THEN ProfileSlots[profile]
                    ELSE Smaller(2, processes)
<1>1. IntFields = {"cpu_budget", "max_processes", "io_slots", "heavy_threads"}
  BY DEF IntFields
<1>2. IntFields \union {"uses_auto_io_slots"} \subseteq DOMAIN Resolve(ls)
  BY <1>1 DEF Resolve, Defaults
<1>3. /\ merged.cpu_budget \in (Nat \ {0}) \union {AutoBudget}
      /\ merged.max_processes \in Nat \ {0} /\ merged.io_slots \in Nat \ {0}
      /\ merged.heavy_threads \in Nat \ {0}
  BY <1>1 DEF Resolvable, Acceptable, Defaults
<1>4. AutoCpu \in Nat \ {0}
  BY CpuCountAssumption DEF AutoCpu, Larger
<1>5. \A p \in DOMAIN ProfileSlots : ProfileSlots[p] \in Nat \ {0}
  BY DEF ProfileSlots
<1>6. /\ Resolve(ls).cpu_budget = cpu /\ Resolve(ls).max_processes = processes
      /\ Resolve(ls).io_slots = slots /\ Resolve(ls).heavy_threads = Smaller(heavy, cpu)
  BY DEF Resolve, Defaults
<1>7. cpu \in Nat \ {0}
  BY <1>3, <1>4
<1> HIDE DEF merged, cpu, profile
<1>8. processes \in Nat \ {0} /\ heavy \in Nat \ {0}
  BY <1>3, <1>7 DEF Smaller
<1> HIDE DEF processes, heavy
<1>9. slots \in Nat \ {0} /\ Smaller(heavy, cpu) \in Nat \ {0}
  BY <1>3, <1>5, <1>7, <1>8 DEF Smaller
<1> QED  BY <1>1, <1>2, <1>6, <1>7, <1>8, <1>9

(* The layers that have a setting, and what the highest of them says.       *)
Having(ls, f) == {i \in DOMAIN Layers : f \in DOMAIN ls[Layers[i]]}

Highest(ls, f) == ls[Layers[Max(Having(ls, f))]][f]

(* Updating a dict with the layers in turn leaves the highest one's value.  *)
LEMMA HighestWins ==
    ASSUME NEW ls, NEW f, f \notin CreateFields, Having(ls, f) # {}
    PROVE  Merged(ls)[f] = Highest(ls, f) /\ Explicit(ls, f)
<1> DEFINE top == Max(Having(ls, f))
           names == <<"root", "parxtract", "arcshuttle", "legacyEnv", "env", "cli">>
<1>1. DOMAIN Layers = 1..6 /\ Layers = names
  BY DEF Layers
<1>2. Having(ls, f) \subseteq 1..6
  BY <1>1 DEF Having
<1>3. top \in Having(ls, f) /\ \A i \in Having(ls, f) : i =< top
  <2>1. \E x \in Having(ls, f) : \A y \in Having(ls, f) : x >= y
    <3>1. ASSUME NEW n \in 1..6, n \in Having(ls, f), \A i \in Having(ls, f) : i =< n
          PROVE  \E x \in Having(ls, f) : \A y \in Having(ls, f) : x >= y
      BY <1>2, <3>1
    <3>2. \/ 6 \in Having(ls, f)
          \/ 5 \in Having(ls, f) /\ 6 \notin Having(ls, f)
          \/ 4 \in Having(ls, f) /\ 5 \notin Having(ls, f) /\ 6 \notin Having(ls, f)
          \/ 3 \in Having(ls, f) /\ \A i \in 4..6 : i \notin Having(ls, f)
          \/ 2 \in Having(ls, f) /\ \A i \in 3..6 : i \notin Having(ls, f)
          \/ 1 \in Having(ls, f) /\ \A i \in 2..6 : i \notin Having(ls, f)
      BY <1>2
    <3> QED  BY <1>2, <3>1, <3>2
  <2>2. top \in Having(ls, f) /\ \A y \in Having(ls, f) : top >= y
    BY <2>1 DEF Max
  <2> QED  BY <1>2, <2>2
<1>4. ASSUME NEW l \in {"root", "parxtract", "arcshuttle", "legacyEnv", "env", "cli"}
      PROVE  /\ f \in DOMAIN Read(ls, l) <=> f \in DOMAIN ls[l]
             /\ f \in DOMAIN ls[l] => Read(ls, l)[f] = ls[l][f]
  BY DEF Read, Restrict
<1>5. Explicit(ls, f)
  BY <1>1, <1>3, <1>4 DEF Explicit, Having
<1>6. /\ f \in DOMAIN ls["cli"] <=> 6 \in Having(ls, f)
      /\ f \in DOMAIN ls["env"] <=> 5 \in Having(ls, f)
      /\ f \in DOMAIN ls["legacyEnv"] <=> 4 \in Having(ls, f)
      /\ f \in DOMAIN ls["arcshuttle"] <=> 3 \in Having(ls, f)
      /\ f \in DOMAIN ls["parxtract"] <=> 2 \in Having(ls, f)
      /\ f \in DOMAIN ls["root"] <=> 1 \in Having(ls, f)
  BY <1>1 DEF Having
<1>7. ASSUME NEW low, NEW high
      PROVE  /\ f \in DOMAIN high => Updated(low, high)[f] = high[f]
             /\ f \in DOMAIN low \union DOMAIN high => f \in DOMAIN Updated(low, high)
             /\ f \in DOMAIN low /\ f \notin DOMAIN high => Updated(low, high)[f] = low[f]
  BY DEF Updated
<1> DEFINE m1 == Updated(Defaults, Read(ls, "root"))
           m2 == Updated(m1, Read(ls, "parxtract"))
           m3 == Updated(m2, Read(ls, "arcshuttle"))
           m4 == Updated(m3, Read(ls, "legacyEnv"))
           m5 == Updated(m4, Read(ls, "env"))
           m6 == Updated(m5, Read(ls, "cli"))
<1>8. Merged(ls) = m6
  BY DEF Merged
<1>9. /\ (f \in DOMAIN m1 /\ m1[f] = ls["root"][f]) \/ f \notin DOMAIN Read(ls, "root")
      /\ (f \in DOMAIN m2 /\ m2[f] = ls["parxtract"][f]) \/ f \notin DOMAIN Read(ls, "parxtract")
      /\ (f \in DOMAIN m3 /\ m3[f] = ls["arcshuttle"][f]) \/ f \notin DOMAIN Read(ls, "arcshuttle")
      /\ (f \in DOMAIN m4 /\ m4[f] = ls["legacyEnv"][f]) \/ f \notin DOMAIN Read(ls, "legacyEnv")
      /\ (f \in DOMAIN m5 /\ m5[f] = ls["env"][f]) \/ f \notin DOMAIN Read(ls, "env")
      /\ (f \in DOMAIN m6 /\ m6[f] = ls["cli"][f]) \/ f \notin DOMAIN Read(ls, "cli")
  BY <1>4, <1>7
<1>10. /\ f \in DOMAIN m1 /\ f \notin DOMAIN Read(ls, "parxtract") =>
                f \in DOMAIN m2 /\ m2[f] = m1[f]
       /\ f \in DOMAIN m2 /\ f \notin DOMAIN Read(ls, "arcshuttle") =>
                f \in DOMAIN m3 /\ m3[f] = m2[f]
       /\ f \in DOMAIN m3 /\ f \notin DOMAIN Read(ls, "legacyEnv") =>
                f \in DOMAIN m4 /\ m4[f] = m3[f]
       /\ f \in DOMAIN m4 /\ f \notin DOMAIN Read(ls, "env") =>
                f \in DOMAIN m5 /\ m5[f] = m4[f]
       /\ f \in DOMAIN m5 /\ f \notin DOMAIN Read(ls, "cli") =>
                f \in DOMAIN m6 /\ m6[f] = m5[f]
  BY <1>7
<1>11. \A l \in {"root", "parxtract", "arcshuttle", "legacyEnv", "env", "cli"} :
            f \in DOMAIN Read(ls, l) <=> f \in DOMAIN ls[l]
  BY <1>4
<1>12. Highest(ls, f) = ls[names[top]][f]
  BY <1>1 DEF Highest
<1> HIDE DEF m1, m2, m3, m4, m5, m6, top
<1>13. m6[f] = Highest(ls, f)
  <2>1. top \in 1..6
    BY <1>2, <1>3
  <2>2. CASE top = 6
    BY <1>3, <1>6, <1>9, <1>11, <1>12, <2>2
  <2>3. CASE top = 5
    BY <1>3, <1>6, <1>9, <1>10, <1>11, <1>12, <2>3
  <2>4. CASE top = 4
    BY <1>3, <1>6, <1>9, <1>10, <1>11, <1>12, <2>4
  <2>5. CASE top = 3
    BY <1>3, <1>6, <1>9, <1>10, <1>11, <1>12, <2>5
  <2>6. CASE top = 2
    BY <1>3, <1>6, <1>9, <1>10, <1>11, <1>12, <2>6
  <2>7. CASE top = 1
    BY <1>3, <1>6, <1>9, <1>10, <1>11, <1>12, <2>7
  <2> QED  BY <2>1, <2>2, <2>3, <2>4, <2>5, <2>6, <2>7
<1> QED  BY <1>5, <1>8, <1>13

(* A number of I/O slots, or a profile other than "auto", decides.          *)
LEMMA GivenSlots ==
    ASSUME NEW ls, Resolvable(ls)
    PROVE  /\ Having(ls, "io_slots") # {} =>
                /\ Resolve(ls).io_slots = Highest(ls, "io_slots")
                /\ ~Resolve(ls).uses_auto_io_slots
           /\ /\ Having(ls, "io_slots") = {} /\ Having(ls, "storage_profile") # {}
              /\ Highest(ls, "storage_profile") # "auto"
              => /\ Resolve(ls).io_slots = ProfileSlots[Highest(ls, "storage_profile")]
                 /\ ~Resolve(ls).uses_auto_io_slots
<1> DEFINE merged == Merged(ls)
<1>1. {"io_slots", "storage_profile"} \subseteq DOMAIN Defaults
  BY DEF Defaults
<1>2. /\ Resolve(ls).uses_auto_io_slots =
            (~Explicit(ls, "io_slots") /\ merged.storage_profile = "auto")
      /\ Explicit(ls, "io_slots") => Resolve(ls).io_slots = merged.io_slots
      /\ ~Explicit(ls, "io_slots") /\ merged.storage_profile \in DOMAIN ProfileSlots =>
            Resolve(ls).io_slots = ProfileSlots[merged.storage_profile]
  BY <1>1 DEF Resolve
<1>3. merged.storage_profile \in {"auto", "hdd", "ssd", "nvme"}
  BY <1>1 DEF Resolvable, Acceptable, IntFields
<1>4. DOMAIN ProfileSlots = {"hdd", "ssd", "nvme"}
  BY DEF ProfileSlots
<1>5. "io_slots" \notin CreateFields /\ "storage_profile" \notin CreateFields
  BY DEF CreateFields
<1>6. CASE Having(ls, "io_slots") # {}
  BY <1>2, <1>5, <1>6, HighestWins
<1>7. CASE /\ Having(ls, "io_slots") = {} /\ Having(ls, "storage_profile") # {}
           /\ Highest(ls, "storage_profile") # "auto"
  <2>1. ~Explicit(ls, "io_slots")
    BY <1>5, <1>7 DEF Explicit, Having, Read, Restrict
  <2>2. merged.storage_profile = Highest(ls, "storage_profile")
    BY <1>5, <1>7, HighestWins
  <2> QED  BY <1>2, <1>3, <1>4, <1>7, <2>1, <2>2
<1> QED  BY <1>6, <1>7
-----------------------------------------------------------------------------
(* What validation found out about a record that it did not refuse.         *)
LEMMA ValidRecord ==
    ASSUME NEW job, NEW cfg, Verdict(job, cfg, TRUE) = "valid"
    PROVE  /\ RequiredFields \subseteq DOMAIN job
           /\ job.integrity = Integrity(job)
           /\ job.cpu_tokens \in Nat \ {0} /\ job.threads \in Nat \ {0}
           /\ job.io_tokens \in Nat \ {0} /\ job.io_tokens =< cfg.io_slots
<1>1. ~SchedulingRefused(job, cfg, TRUE)
  BY DEF Verdict
<1>2. RequiredFields \subseteq DOMAIN job /\ job.integrity = Integrity(job)
  BY DEF Verdict
<1> QED  BY <1>1, <1>2 DEF SchedulingRefused

(* Fields of which clamping and attribution change nothing.                 *)
Untouched == {"operation", "job_id", "plan_index", "path", "identity", "encrypted",
              "io_tokens", "destination", "profile"}

(* The three steps from a record to its runtime job, field by field.        *)
LEMMA ClampedFields ==
    ASSUME NEW job, NEW cfg, RequiredFields \subseteq DOMAIN job
    PROVE  LET cpu == Smaller(job.cpu_tokens, cfg.cpu_budget)
               clamped == Clamped(job, cfg)
           IN  /\ clamped.cpu_tokens = cpu
               /\ clamped.threads = Smaller(job.threads, cpu)
               /\ DOMAIN clamped = DOMAIN job
               /\ clamped.reason = job.reason
               /\ \A f \in Untouched : clamped[f] = job[f]
               /\ clamped.warnings =
                    job.warnings \o (IF cpu < job.cpu_tokens THEN <<"cpu clamped">> ELSE << >>)
                                 \o (IF Smaller(job.threads, cpu) < job.threads
                                     THEN <<"threads clamped">> ELSE << >>)
<1> DEFINE cpu == Smaller(job.cpu_tokens, cfg.cpu_budget)
           threads == Smaller(job.threads, cpu)
           warnings == job.warnings
                          \o (IF cpu < job.cpu_tokens THEN <<"cpu clamped">> ELSE << >>)
                          \o (IF threads < job.threads THEN <<"threads clamped">> ELSE << >>)
<1>1. {"cpu_tokens", "threads", "warnings", "reason"} \union Untouched \subseteq DOMAIN job
  BY DEF RequiredFields, ProtectedFields, Untouched
<1>2. Clamped(job, cfg) = [job EXCEPT !.cpu_tokens = cpu, !.threads = threads,
                                      !.warnings = warnings]
  BY Zenon DEF Clamped
<1> HIDE DEF cpu, threads, warnings
<1>3. /\ Clamped(job, cfg).cpu_tokens = cpu
      /\ Clamped(job, cfg).threads = threads
      /\ Clamped(job, cfg).warnings = warnings
      /\ DOMAIN Clamped(job, cfg) = DOMAIN job
      /\ Clamped(job, cfg).reason = job.reason
  BY <1>1, <1>2
<1>4. \A f \in Untouched : Clamped(job, cfg)[f] = job[f]
  BY <1>1, <1>2 DEF Untouched
<1> QED  BY <1>3, <1>4 DEF cpu, threads, warnings

(* A profile that is not the planned one is noted in the reason and in the  *)
(* warnings only.                                                           *)
LEMMA AttributedFields ==
    ASSUME NEW job, RequiredFields \subseteq DOMAIN job
    PROVE  LET made == Attributed(job)
           IN  /\ made.cpu_tokens = job.cpu_tokens /\ made.threads = job.threads
               /\ DOMAIN made = DOMAIN job
               /\ \A f \in Untouched : made[f] = job[f]
               /\ made.warnings = job.warnings
                     \/ made.warnings = Append(job.warnings, "profile overridden")
               /\ \/ made.reason = "manifest-override"
                  \/ made.reason = job.reason /\
                        (job.reason \in DOMAIN PlannedProfile =>
                            job.profile = PlannedProfile[job.reason])
<1>1. {"cpu_tokens", "threads", "warnings", "reason", "profile_source"} \union Untouched
         \subseteq DOMAIN job
  BY DEF RequiredFields, ProtectedFields, Untouched
<1>2. CASE job.reason \in DOMAIN PlannedProfile /\ job.profile # PlannedProfile[job.reason]
  <2>1. Attributed(job) = [job EXCEPT !.profile_source = "manifest",
                                      !.reason = "manifest-override",
                                      !.warnings = Append(job.warnings, "profile overridden")]
    BY <1>2, Zenon DEF Attributed
  <2> QED  BY <1>1, <2>1 DEF Untouched
<1>3. CASE ~(job.reason \in DOMAIN PlannedProfile /\ job.profile # PlannedProfile[job.reason])
  <2>1. Attributed(job) = job
    BY <1>3, Zenon DEF Attributed
  <2> QED  BY <1>3, <2>1
<1> QED  BY <1>2, <1>3

(* What runs differs from the record in what was clamped and attributed.    *)
LEMMA RuntimeFields ==
    ASSUME NEW job, NEW cfg, RequiredFields \subseteq DOMAIN job
    PROVE  LET made == Runtime(job, cfg)
               decided == Attributed(Clamped(job, cfg))
           IN  /\ made.cpu_tokens = decided.cpu_tokens /\ made.threads = decided.threads
               /\ made.reason = decided.reason /\ made.warnings = decided.warnings
               /\ made.inputSchema = job.schema
               /\ \A f \in Untouched : made[f] = job[f]
<1> DEFINE decided == Attributed(Clamped(job, cfg))
           renewed == Updated(decided, [schema |-> 2, inputSchema |-> job.schema])
<1>1. /\ RequiredFields \subseteq DOMAIN Clamped(job, cfg)
      /\ \A f \in Untouched : Clamped(job, cfg)[f] = job[f]
  BY ClampedFields
<1>2. /\ RequiredFields \subseteq DOMAIN decided
      /\ \A f \in Untouched : decided[f] = job[f]
  BY <1>1, AttributedFields
<1>3. {"cpu_tokens", "threads", "warnings", "reason"} \union Untouched \subseteq DOMAIN decided
  BY <1>2 DEF RequiredFields, ProtectedFields, Untouched
<1>4. Runtime(job, cfg) = [renewed EXCEPT !.integrity = Integrity(renewed)]
  BY Zenon DEF Runtime, Stamped
<1> HIDE DEF decided
<1>5. /\ DOMAIN renewed = DOMAIN decided \union {"schema", "inputSchema"}
      /\ renewed.inputSchema = job.schema
      /\ \A f \in DOMAIN decided \ {"schema", "inputSchema"} : renewed[f] = decided[f]
  BY DEF Updated
<1> HIDE DEF renewed
<1>6. /\ Runtime(job, cfg).cpu_tokens = decided.cpu_tokens
      /\ Runtime(job, cfg).threads = decided.threads
      /\ Runtime(job, cfg).reason = decided.reason
      /\ Runtime(job, cfg).warnings = decided.warnings
      /\ Runtime(job, cfg).inputSchema = job.schema
      /\ \A f \in Untouched : Runtime(job, cfg)[f] = decided[f]
  BY <1>3, <1>4, <1>5 DEF Untouched
<1>7. \A f \in Untouched : Runtime(job, cfg)[f] = job[f]
  BY <1>2, <1>6
<1> QED  BY <1>6, <1>7 DEF decided

(* The tokens of a runtime job, and who chose its profile.                  *)
LEMMA RuntimeTokens ==
    ASSUME NEW job, NEW cfg, RequiredFields \subseteq DOMAIN job
    PROVE  /\ Runtime(job, cfg).cpu_tokens = Smaller(job.cpu_tokens, cfg.cpu_budget)
           /\ Runtime(job, cfg).threads =
                Smaller(job.threads, Smaller(job.cpu_tokens, cfg.cpu_budget))
           /\ \/ Runtime(job, cfg).reason = "manifest-override"
              \/ job.reason \in DOMAIN PlannedProfile =>
                    job.profile = PlannedProfile[job.reason]
<1>1. /\ RequiredFields \subseteq DOMAIN Clamped(job, cfg)
      /\ Clamped(job, cfg).cpu_tokens = Smaller(job.cpu_tokens, cfg.cpu_budget)
      /\ Clamped(job, cfg).threads =
            Smaller(job.threads, Smaller(job.cpu_tokens, cfg.cpu_budget))
      /\ Clamped(job, cfg).reason = job.reason
      /\ Clamped(job, cfg)["profile"] = job["profile"]
  BY ClampedFields DEF Untouched
<1>2. /\ Attributed(Clamped(job, cfg)).cpu_tokens = Clamped(job, cfg).cpu_tokens
      /\ Attributed(Clamped(job, cfg)).threads = Clamped(job, cfg).threads
      /\ \/ Attributed(Clamped(job, cfg)).reason = "manifest-override"
         \/ Clamped(job, cfg).reason \in DOMAIN PlannedProfile =>
               Clamped(job, cfg).profile = PlannedProfile[Clamped(job, cfg).reason]
  BY <1>1, AttributedFields
<1>3. /\ Runtime(job, cfg).cpu_tokens = Attributed(Clamped(job, cfg)).cpu_tokens
      /\ Runtime(job, cfg).threads = Attributed(Clamped(job, cfg)).threads
      /\ Runtime(job, cfg).reason = Attributed(Clamped(job, cfg)).reason
  BY RuntimeFields
<1> QED  BY <1>1, <1>2, <1>3
-----------------------------------------------------------------------------
(* A record that is valid under a configuration becomes a job that fits it. *)
LEMMA ValidFits ==
    ASSUME NEW job, NEW cfg,
           cfg.cpu_budget \in Nat \ {0},
           Verdict(job, cfg, TRUE) = "valid"
    PROVE  LET made == Runtime(job, cfg)
           IN  /\ 1 =< made.threads /\ made.threads =< made.cpu_tokens
               /\ made.cpu_tokens =< cfg.cpu_budget
               /\ 1 =< made.io_tokens /\ made.io_tokens =< cfg.io_slots
<1>1. /\ RequiredFields \subseteq DOMAIN job
      /\ job.cpu_tokens \in Nat \ {0} /\ job.threads \in Nat \ {0}
      /\ job.io_tokens \in Nat \ {0} /\ job.io_tokens =< cfg.io_slots
  BY ValidRecord
<1>2. /\ Runtime(job, cfg).cpu_tokens = Smaller(job.cpu_tokens, cfg.cpu_budget)
      /\ Runtime(job, cfg).threads =
            Smaller(job.threads, Smaller(job.cpu_tokens, cfg.cpu_budget))
  BY <1>1, RuntimeTokens
<1>3. Runtime(job, cfg)["io_tokens"] = job["io_tokens"]
  BY <1>1, RuntimeFields DEF Untouched
<1> QED  BY <1>1, <1>2, <1>3 DEF Smaller

(* Sequences grow behind a prefix.                                          *)
LEMMA PrefixOfConcat ==
    ASSUME NEW S, NEW s \in Seq(S), NEW t \in Seq(S)
    PROVE  s \o t \in Seq(S) /\ IsPrefix(s, s \o t)
<1>1. /\ s \o t \in Seq(S) /\ Len(s \o t) = Len(s) + Len(t)
      /\ \A i \in 1..Len(s) : (s \o t)[i] = s[i]
  OBVIOUS
<1>2. SubSeq(s, 1, Len(s)) = SubSeq(s \o t, 1, Len(s))
  BY <1>1
<1> QED  BY <1>1, <1>2 DEF IsPrefix

(* A prefix of a prefix is a prefix.                                        *)
LEMMA PrefixOfPrefix ==
    ASSUME NEW S, NEW s \in Seq(S), NEW t \in Seq(S), NEW u \in Seq(S),
           IsPrefix(s, t), IsPrefix(t, u)
    PROVE  IsPrefix(s, u)
<1>1. /\ Len(s) =< Len(t) /\ SubSeq(s, 1, Len(s)) = SubSeq(t, 1, Len(s))
      /\ Len(t) =< Len(u) /\ SubSeq(t, 1, Len(t)) = SubSeq(u, 1, Len(t))
  BY DEF IsPrefix
<1>2. \A i \in 1..Len(t) : t[i] = u[i]
  BY <1>1
<1>3. SubSeq(t, 1, Len(s)) = SubSeq(u, 1, Len(s))
  BY <1>1, <1>2
<1> QED  BY <1>1, <1>3 DEF IsPrefix

(* Appending keeps every prefix.                                            *)
LEMMA PrefixOfAppend ==
    ASSUME NEW S, NEW s \in Seq(S), NEW t \in Seq(S), NEW e \in S, IsPrefix(s, t)
    PROVE  IsPrefix(s, Append(t, e))
<1>1. /\ Len(s) =< Len(t) /\ SubSeq(s, 1, Len(s)) = SubSeq(t, 1, Len(s))
  BY DEF IsPrefix
<1>2. /\ Append(t, e) \in Seq(S) /\ Len(Append(t, e)) = Len(t) + 1
      /\ \A i \in 1..Len(t) : Append(t, e)[i] = t[i]
  OBVIOUS
<1>3. SubSeq(Append(t, e), 1, Len(s)) = SubSeq(t, 1, Len(s))
  BY <1>1, <1>2
<1> QED  BY <1>1, <1>2, <1>3 DEF IsPrefix

(* Warnings are added behind those that a record has.                       *)
LEMMA RuntimeWarnings ==
    ASSUME NEW job, NEW cfg, RequiredFields \subseteq DOMAIN job, job.warnings \in Seq(Warnings)
    PROVE  IsPrefix(job.warnings, Runtime(job, cfg).warnings)
<1> DEFINE cpu == Smaller(job.cpu_tokens, cfg.cpu_budget)
           first == IF cpu < job.cpu_tokens THEN <<"cpu clamped">> ELSE << >>
           second == IF Smaller(job.threads, cpu) < job.threads
                     THEN <<"threads clamped">> ELSE << >>
           clamped == Clamped(job, cfg)
<1>1. first \in Seq(Warnings) /\ second \in Seq(Warnings)
  <2>1. "cpu clamped" \in Warnings /\ "threads clamped" \in Warnings
    BY DEF Warnings
  <2>2. << >> \in Seq(Warnings)
    OBVIOUS
  <2>3. \A w \in Warnings : <<w>> \in Seq(Warnings)
    OBVIOUS
  <2> QED  BY <2>1, <2>2, <2>3, Zenon
<1>2. /\ clamped.warnings = (job.warnings \o first) \o second
      /\ RequiredFields \subseteq DOMAIN clamped
  BY ClampedFields, Zenon
<1>3. Runtime(job, cfg).warnings = Attributed(clamped).warnings
  BY RuntimeFields
<1>4. \/ Attributed(clamped).warnings = clamped.warnings
      \/ Attributed(clamped).warnings = Append(clamped.warnings, "profile overridden")
  BY <1>2, AttributedFields
<1> HIDE DEF first, second, clamped
<1>5. /\ job.warnings \o first \in Seq(Warnings)
      /\ IsPrefix(job.warnings, job.warnings \o first)
  BY <1>1, PrefixOfConcat
<1>6. /\ clamped.warnings \in Seq(Warnings)
      /\ IsPrefix(job.warnings \o first, clamped.warnings)
  BY <1>1, <1>2, <1>5, PrefixOfConcat
<1>7. IsPrefix(job.warnings, clamped.warnings)
  BY <1>5, <1>6, PrefixOfPrefix
<1>8. "profile overridden" \in Warnings
  BY DEF Warnings
<1>9. IsPrefix(job.warnings, Append(clamped.warnings, "profile overridden"))
  BY <1>6, <1>7, <1>8, PrefixOfAppend
<1> QED  BY <1>3, <1>4, <1>7, <1>9

(* A valid record with the hash of a planned one differs from it in fields  *)
(* that may be edited only, and its runtime job says who chose the profile. *)
LEMMA ValidKeepsPlan ==
    ASSUME NEW origin, AsPlanned(origin),
           NEW job, NEW cfg,
           Verdict(job, cfg, TRUE) = "valid",
           job.integrity = origin.integrity
    PROVE  LET made == Runtime(job, cfg)
           IN  /\ \A f \in Untouched \ {"destination", "profile"} : made[f] = origin[f]
               /\ made.profile = origin.profile \/ made.reason = "manifest-override"
               /\ IsPrefix(origin.warnings, made.warnings)
<1>1. RequiredFields \subseteq DOMAIN job /\ job.integrity = Integrity(job)
  BY ValidRecord
<1>2. \A f \in ProtectedFields : job[f] = origin[f]
  <2>1. Integrity(job) = Integrity(origin)
    BY <1>1 DEF AsPlanned
  <2> QED  BY <2>1 DEF Integrity, Restrict
<1>3. \A f \in Untouched : Runtime(job, cfg)[f] = job[f]
  BY <1>1, RuntimeFields
<1>4. \A f \in Untouched \ {"destination", "profile"} : Runtime(job, cfg)[f] = origin[f]
  BY <1>2, <1>3 DEF Untouched, ProtectedFields
<1>5. job.reason = origin.reason /\ job.warnings = origin.warnings
  BY <1>2 DEF ProtectedFields
<1>6. \/ Runtime(job, cfg).profile = origin.profile
      \/ Runtime(job, cfg).reason = "manifest-override"
  <2>1. Runtime(job, cfg).profile = job.profile
    BY <1>3 DEF Untouched
  <2>2. \/ Runtime(job, cfg).reason = "manifest-override"
        \/ job.reason \in DOMAIN PlannedProfile => job.profile = PlannedProfile[job.reason]
    BY <1>1, RuntimeTokens
  <2> QED  BY <1>5, <2>1, <2>2 DEF AsPlanned
<1>7. IsPrefix(origin.warnings, Runtime(job, cfg).warnings)
  <2>1. origin.warnings \in Seq(Warnings)
    <3>1. "inspection failed" \in Warnings /\ origin.warnings \in {<< >>, <<"inspection failed">>}
      BY DEF AsPlanned, Warnings
    <3>2. << >> \in Seq(Warnings) /\ \A w \in Warnings : <<w>> \in Seq(Warnings)
      OBVIOUS
    <3> QED  BY <3>1, <3>2
  <2> QED  BY <1>1, <1>5, <2>1, RuntimeWarnings
<1> QED  BY <1>4, <1>6, <1>7
-----------------------------------------------------------------------------
(* validate_manifest hands over nothing, or one job per record.             *)
LEMMA AllOrNone ==
    ASSUME NEW recs, NEW cfg,
           Validate(recs, cfg, TRUE).verdict = "valid"
    PROVE  \/ Validate(recs, cfg, TRUE).jobs = << >>
           \/ /\ Validate(recs, cfg, TRUE).jobs = RuntimeJobs(recs, cfg)
              /\ \A i \in DOMAIN recs : Verdict(recs[i], cfg, TRUE) = "valid" /\ ~Clashes(recs, i)
BY DEF Validate

(* Of a sequence of records, the jobs are distinct.                         *)
LEMMA ValidDistinct ==
    ASSUME NEW S, NEW recs \in Seq(S), NEW cfg,
           Validate(recs, cfg, TRUE).verdict = "valid",
           NEW i \in DOMAIN Validate(recs, cfg, TRUE).jobs,
           NEW k \in DOMAIN Validate(recs, cfg, TRUE).jobs,
           i # k
    PROVE  LET made == Validate(recs, cfg, TRUE).jobs
           IN  /\ made[i].job_id # made[k].job_id
               /\ PathKey(made[i].destination) # PathKey(made[k].destination)
<1> DEFINE made == Validate(recs, cfg, TRUE).jobs
<1>1. made # << >>
  <2>1. DOMAIN << >> = {}
    OBVIOUS
  <2> HIDE DEF made
  <2>2. i \in DOMAIN made
    BY DEF made
  <2> QED  BY <2>1, <2>2, Zenon
<1>2. /\ made = [n \in DOMAIN recs |-> Runtime(recs[n], cfg)]
      /\ \A n \in DOMAIN recs : Verdict(recs[n], cfg, TRUE) = "valid" /\ ~Clashes(recs, n)
  BY <1>1, AllOrNone DEF RuntimeJobs
<1>3. i \in DOMAIN recs /\ k \in DOMAIN recs
  BY <1>2
<1>4. /\ recs[i].job_id # recs[k].job_id
      /\ PathKey(recs[i].destination) # PathKey(recs[k].destination)
  <2>1. \A m, n \in DOMAIN recs : m < n =>
            /\ recs[m].job_id # recs[n].job_id
            /\ PathKey(recs[m].destination) # PathKey(recs[n].destination)
    <3>1. SUFFICES ASSUME NEW m \in DOMAIN recs, NEW n \in DOMAIN recs, m < n
                   PROVE  /\ recs[m].job_id # recs[n].job_id
                          /\ PathKey(recs[m].destination) # PathKey(recs[n].destination)
      OBVIOUS
    <3>2. m \in 1..(n - 1)
      BY <3>1
    <3>3. ~Clashes(recs, n)
      BY <1>2
    <3> QED  BY <3>2, <3>3, Zenon DEF Clashes
  <2>2. i < k \/ k < i
    BY <1>3
  <2> QED  BY <1>3, <2>1, <2>2
<1>5. \A n \in DOMAIN recs : /\ made[n].job_id = recs[n].job_id
                             /\ made[n].destination = recs[n].destination
  <2>1. TAKE n \in DOMAIN recs
  <2>2. RequiredFields \subseteq DOMAIN recs[n]
    BY <1>2, ValidRecord
  <2>3. \A f \in Untouched : Runtime(recs[n], cfg)[f] = recs[n][f]
    BY <2>2, RuntimeFields
  <2> QED  BY <1>2, <2>3 DEF Untouched
<1> QED  BY <1>3, <1>4, <1>5
-----------------------------------------------------------------------------
(* What the planners write has nothing that a validation could refuse.      *)
Faultless(job) ==
    /\ AsPlanned(job) /\ job.form = "ok"
    /\ job.job_id = JobId(job.schema, job.operation, job.path, job.identity)
    /\ job.io_tokens = 1 /\ job.cpu_tokens \in Nat \ {0} /\ job.threads \in Nat \ {0}

(* JobRecord makes a record without faults, if its tokens are positive.     *)
LEMMA RecordAsPlanned ==
    ASSUME NEW schema, NEW operation, NEW index, NEW path, NEW identity, NEW destination,
           NEW encrypted, NEW class, NEW warnings \in {<< >>, <<"inspection failed">>},
           class.reason \in DOMAIN PlannedProfile,
           class.profile = PlannedProfile[class.reason],
           class.tokens \in Nat \ {0}
    PROVE  Faultless(JobRecord(schema, operation, index, path, identity, destination,
                               encrypted, class, warnings))
<1> DEFINE job == JobRecord(schema, operation, index, path, identity, destination,
                            encrypted, class, warnings)
           bare == [schema |-> schema, operation |-> operation, plan_index |-> index,
             job_id |-> JobId(schema, operation, path, identity), path |-> path,
             identity |-> identity, destination |-> Spelled(destination),
             encrypted |-> encrypted, profile |-> class.profile, profile_source |-> "auto",
             reason |-> class.reason, cpu_tokens |-> class.tokens, threads |-> class.tokens,
             io_tokens |-> 1, warnings |-> warnings, form |-> "ok", inputSchema |-> 0,
             integrity |-> << >>]
<1>1. job = [bare EXCEPT !.integrity = Integrity(bare)]
  BY DEF JobRecord, Stamped
<1>2. RequiredFields \subseteq DOMAIN bare
  BY DEF RequiredFields, ProtectedFields
<1>3. /\ bare.reason = class.reason /\ bare.profile = class.profile /\ bare.warnings = warnings
      /\ bare.form = "ok" /\ bare.io_tokens = 1
      /\ bare.job_id = JobId(bare.schema, bare.operation, bare.path, bare.identity)
      /\ bare.cpu_tokens = class.tokens /\ bare.threads = class.tokens
  OBVIOUS
<1> HIDE DEF bare
<1>4. \A f \in ProtectedFields : job[f] = bare[f]
  <2>1. \A f \in DOMAIN bare : f # "integrity" => job[f] = bare[f]
    BY <1>1
  <2> QED  BY <1>2, <2>1 DEF RequiredFields, ProtectedFields
<1>5. job.integrity = Integrity(bare)
  BY <1>1, <1>2 DEF RequiredFields
<1>6. Integrity(job) = Integrity(bare)
  BY <1>4 DEF Integrity, Restrict
<1>7. job.reason = class.reason /\ job.warnings = warnings
  BY <1>3, <1>4 DEF ProtectedFields
<1>8. /\ job.profile = class.profile /\ DOMAIN job = DOMAIN bare
      /\ job.cpu_tokens = class.tokens /\ job.threads = class.tokens
  BY <1>1, <1>2, <1>3 DEF RequiredFields
<1>9. /\ job.form = "ok" /\ job.io_tokens = 1
      /\ job.job_id = JobId(job.schema, job.operation, job.path, job.identity)
  BY <1>3, <1>4 DEF ProtectedFields
<1>10. AsPlanned(job)
  BY <1>2, <1>5, <1>6, <1>7, <1>8 DEF AsPlanned
<1> HIDE DEF job
<1>11. Faultless(job)
  BY <1>8, <1>9, <1>10 DEF Faultless
<1> QED  BY <1>11 DEF job

(* The planner of extractions makes faultless records.                      *)
LEMMA ExtractAsPlanned ==
    ASSUME NEW schema, NEW index, NEW path, NEW entry, NEW listing, NEW cfg,
           cfg.heavy_threads \in Nat \ {0}, cfg.cpu_budget \in Nat \ {0}
    PROVE  Faultless(ExtractJob(schema, index, path, entry, listing, cfg))
<1>1. \A size, archive, failed :
        LET class == Classify(size, archive, failed, cfg)
        IN  /\ class.reason \in DOMAIN PlannedProfile
            /\ class.profile = PlannedProfile[class.reason]
            /\ class.tokens \in Nat \ {0}
  BY DEF Classify, Classification, PlannedProfile, SmallReasons, SerialReasons,
     ScalableReasons, Smaller
<1> QED  BY <1>1, RecordAsPlanned DEF ExtractJob

(* So does the planner of archives.                                         *)
LEMMA CreateAsPlanned ==
    ASSUME NEW index, NEW path, NEW identity, NEW cfg,
           cfg.heavy_threads \in Nat \ {0}, cfg.cpu_budget \in Nat \ {0}
    PROVE  Faultless(CreateJob(index, path, identity, cfg))
<1>1. LET class == ClassifyCreate(identity.size, cfg)
      IN  /\ class.reason \in DOMAIN PlannedProfile
          /\ class.profile = PlannedProfile[class.reason]
          /\ class.tokens \in Nat \ {0}
  BY DEF ClassifyCreate, Classification, PlannedProfile, SmallReasons, SerialReasons,
         ScalableReasons, Smaller
<1> QED  BY <1>1, RecordAsPlanned DEF CreateJob

(* No configuration makes validate_manifest refuse a faultless record.      *)
LEMMA FaultlessIsValid ==
    ASSUME NEW job, Faultless(job), NEW cfg, NEW enforce \in BOOLEAN,
           enforce => cfg.io_slots \in Nat \ {0}
    PROVE  Verdict(job, cfg, enforce) = "valid"
<1>1. job.profile \in Profiles /\ job.profile # NotHashable
  BY DEF Faultless, AsPlanned, PlannedProfile, Profiles, NotHashable
<1>2. \A f \in {"io_tokens", "cpu_tokens", "threads"} : job[f] \in Nat \ {0}
  BY DEF Faultless
<1>3. ~SchedulingRefused(job, cfg, enforce)
  BY <1>1, <1>2 DEF SchedulingRefused, Faultless
<1> QED  BY <1>1, <1>3 DEF Verdict, Faultless, AsPlanned

(* Of faultless records with distinct jobs validate_manifest refuses none.  *)
Separate(list) ==
    \A i, k \in DOMAIN list : i # k =>
        /\ list[i].job_id # list[k].job_id
        /\ PathKey(list[i].destination) # PathKey(list[k].destination)

(* Records without faults that do not clash make a valid manifest.          *)
LEMMA PlanIsValid ==
    ASSUME NEW recs, recs # << >>, recs \in Seq(ToSet(recs)),
           \A i \in DOMAIN recs : Faultless(recs[i]), Separate(recs),
           NEW cfg, NEW enforce \in BOOLEAN, enforce => cfg.io_slots \in Nat \ {0}
    PROVE  Validate(recs, cfg, enforce).verdict = "valid"
<1>1. \A i \in DOMAIN recs : Verdict(recs[i], cfg, enforce) = "valid"
  BY FaultlessIsValid
<1>2. ASSUME NEW i \in DOMAIN recs, NEW k \in 1..(i - 1)
      PROVE  /\ recs[k].job_id # recs[i].job_id
             /\ PathKey(recs[k].destination) # PathKey(recs[i].destination)
  <2>1. k \in DOMAIN recs /\ k # i
    BY <1>2
  <2> QED  BY <2>1 DEF Separate
<1>3. \A i \in DOMAIN recs : ~Clashes(recs, i)
  BY <1>2, Zenon DEF Clashes
<1> QED  BY <1>1, <1>3 DEF Validate

(* Jobs of different paths without collisions are separate.                 *)
LEMMA PlanIsSeparate ==
    ASSUME NEW list, \A k \in DOMAIN list : Faultless(list[k]),
           \A i, k \in DOMAIN list : list[i].path = list[k].path => i = k,
           Collisions(list) = {}
    PROVE  Separate(list)
<1>1. SUFFICES ASSUME NEW i \in DOMAIN list, NEW k \in DOMAIN list, i # k
               PROVE  /\ list[i].job_id # list[k].job_id
                      /\ PathKey(list[i].destination) # PathKey(list[k].destination)
  BY DEF Separate
<1>2. /\ list[i].job_id.path = list[i].path
      /\ list[k].job_id.path = list[k].path
  <2>1. \A schema, operation, path, identity :
            JobId(schema, operation, path, identity).path = path
    BY DEF JobId
  <2>2. \A n \in DOMAIN list : list[n].job_id =
            JobId(list[n].schema, list[n].operation, list[n].path, list[n].identity)
    BY DEF Faultless
  <2> QED  BY <2>1, <2>2
<1>3. list[i].job_id # list[k].job_id
  BY <1>1, <1>2
<1>4. PathKey(list[i].destination) # PathKey(list[k].destination)
  <2>1. SUFFICES ASSUME PathKey(list[k].destination) = PathKey(list[i].destination)
                 PROVE  FALSE
    OBVIOUS
  <2>2. k \in DOMAIN list \ {i}
    BY <1>1
  <2>3. PathKey(list[i].destination) \in Collisions(list)
    BY <2>1, <2>2 DEF Collisions
  <2> QED  BY <2>3
<1> QED  BY <1>3, <1>4

(* The two validations differ in the I/O budget only.                       *)
LEMMA SecondVerdict ==
    ASSUME NEW job, NEW cfg, NEW other, Verdict(job, other, FALSE) = "valid",
           cfg.io_slots \in Nat \ {0}
    PROVE  /\ Verdict(job, cfg, FALSE) = "valid"
           /\ Verdict(job, cfg, TRUE) = "valid" \/ job.io_tokens > cfg.io_slots
<1>1. ~SchedulingRefused(job, other, FALSE)
  BY DEF Verdict
<1>2. ~SchedulingRefused(job, cfg, FALSE) /\ job.io_tokens \in Nat \ {0}
  BY <1>1 DEF SchedulingRefused
<1>3. Verdict(job, cfg, FALSE) = "valid"
  BY <1>1, <1>2 DEF Verdict
<1>4. ~SchedulingRefused(job, cfg, TRUE) \/ job.io_tokens > cfg.io_slots
  BY <1>2 DEF SchedulingRefused
<1>5. ~SchedulingRefused(job, cfg, TRUE) => Verdict(job, cfg, TRUE) = "valid"
  BY <1>3 DEF Verdict
<1> QED  BY <1>3, <1>4, <1>5

(* A manifest is valid if it has records and each of them is.               *)
LEMMA AllAreValid ==
    ASSUME NEW recs, NEW cfg, NEW enforce, Validate(recs, cfg, enforce).verdict = "valid"
    PROVE  /\ recs # << >>
           /\ \A i \in DOMAIN recs : Verdict(recs[i], cfg, enforce) = "valid" /\ ~Clashes(recs, i)
BY DEF Validate

(* A manifest is refused for one of its records, or because it has none.    *)
LEMMA SomeRefused ==
    ASSUME NEW recs, NEW cfg, NEW enforce, Validate(recs, cfg, enforce).verdict # "valid"
    PROVE  \/ recs = << >>
           \/ \E i \in DOMAIN recs : Verdict(recs[i], cfg, enforce) # "valid" \/ Clashes(recs, i)
BY DEF Validate

(* A record with at most one warning has none twice.                        *)
LEMMA NoWarning == \A A : << >> \in Seq(A) /\ IsInjective(<< >>)
<1>1. DOMAIN << >> = {} /\ \A A : << >> \in Seq(A)
  OBVIOUS
<1> QED  BY <1>1 DEF IsInjective

(* One warning is a list of its own.                                        *)
LEMMA OneWarning == \A A : \A e \in A : <<e>> \in Seq(A) /\ IsInjective(<<e>>)
<1>1. SUFFICES ASSUME NEW A, NEW e \in A PROVE <<e>> \in Seq(A) /\ IsInjective(<<e>>)
  OBVIOUS
<1>2. <<e>> \in Seq(A) /\ DOMAIN <<e>> = 1..1
  OBVIOUS
<1>3. \A a, b \in DOMAIN <<e>> : a = b
  BY <1>2
<1> QED  BY <1>2, <1>3 DEF IsInjective

(* A warning that is new leaves warnings that are all different.            *)
LEMMA NewWarning ==
    ASSUME NEW A, NEW s \in Seq(A), IsInjective(s), NEW e, e \notin A, NEW t \in {<< >>, <<e>>}
    PROVE  s \o t \in Seq(A \union {e}) /\ IsInjective(s \o t)
<1>1. CASE t = << >>
  BY <1>1
<1>2. CASE t = <<e>>
  <2>1. /\ Len(s) \in Nat /\ DOMAIN (s \o t) = 1..(Len(s) + 1) /\ DOMAIN s = 1..Len(s)
        /\ s \o t \in Seq(A \union {e})
        /\ \A i \in 1..Len(s) : (s \o t)[i] = s[i] /\ s[i] \in A
        /\ (s \o t)[Len(s) + 1] = e
    BY <1>2
  <2> DEFINE w == s \o t
  <2>2. ASSUME NEW a \in DOMAIN w, NEW b \in DOMAIN w, w[a] = w[b] PROVE a = b
    <3>1. a \in 1..Len(s) \/ a = Len(s) + 1
      BY <2>1
    <3>2. b \in 1..Len(s) \/ b = Len(s) + 1
      BY <2>1
    <3>3. \A i, k \in DOMAIN s : s[i] = s[k] => i = k
      BY DEF IsInjective
    <3> QED  BY <2>1, <2>2, <3>1, <3>2, <3>3
  <2> QED  BY <2>1, <2>2 DEF IsInjective
<1> QED  BY <1>1, <1>2

(* Nor does one more that it has not make any of them occur twice.          *)
LEMMA LastWarning ==
    ASSUME NEW A, NEW s \in Seq(A), IsInjective(s), NEW e, e \notin A
    PROVE  IsInjective(Append(s, e))
<1>1. IsInjective(s \o <<e>>)
  BY NewWarning
<1>2. Append(s, e) = s \o <<e>>
  <2> DEFINE S == A \union {e}
  <2>1. e \in S /\ A \subseteq S
    OBVIOUS
  <2> HIDE DEF S
  <2>2. s \in Seq(S)
    BY <2>1, SeqMonotonic
  <2> QED  BY <2>1, <2>2, AppendIsConcat
<1> QED  BY <1>1, <1>2

(* Of a record that was planned, validation adds each warning once.         *)
LEMMA WarningsOnce ==
    ASSUME NEW job, NEW cfg, RequiredFields \subseteq DOMAIN job,
           job.warnings \in {<< >>, <<"inspection failed">>}
    PROVE  IsInjective(Runtime(job, cfg).warnings)
<1> DEFINE cpu == Smaller(job.cpu_tokens, cfg.cpu_budget)
           first == IF cpu < job.cpu_tokens THEN <<"cpu clamped">> ELSE << >>
           second == IF Smaller(job.threads, cpu) < job.threads
                     THEN <<"threads clamped">> ELSE << >>
           clamped == Clamped(job, cfg)
           A0 == {"inspection failed"}
           A1 == A0 \union {"cpu clamped"}
           A2 == A1 \union {"threads clamped"}
<1>1. first \in {<< >>, <<"cpu clamped">>} /\ second \in {<< >>, <<"threads clamped">>}
  OBVIOUS
<1>2. /\ clamped.warnings = (job.warnings \o first) \o second
      /\ RequiredFields \subseteq DOMAIN clamped
  BY ClampedFields, Zenon
<1>3. Runtime(job, cfg).warnings = Attributed(clamped).warnings
  BY RuntimeFields
<1>4. \/ Attributed(clamped).warnings = clamped.warnings
      \/ Attributed(clamped).warnings = Append(clamped.warnings, "profile overridden")
  BY <1>2, AttributedFields
<1> HIDE DEF first, second, clamped, cpu
<1>5. job.warnings \in Seq(A0) /\ IsInjective(job.warnings)
  <2>1. "inspection failed" \in A0
    OBVIOUS
  <2> HIDE DEF A0
  <2>2. \A e \in A0 : <<e>> \in Seq(A0) /\ IsInjective(<<e>>)
    BY OneWarning
  <2> QED  BY <2>1, <2>2, NoWarning
<1>6. "cpu clamped" \notin A0 /\ "threads clamped" \notin A1 /\ "profile overridden" \notin A2
  OBVIOUS
<1> HIDE DEF A0
<1>7. job.warnings \o first \in Seq(A1) /\ IsInjective(job.warnings \o first)
  BY <1>1, <1>5, <1>6, NewWarning, Zenon DEF A1
<1> HIDE DEF A1
<1>8. clamped.warnings \in Seq(A2) /\ IsInjective(clamped.warnings)
  <2>1. /\ (job.warnings \o first) \o second \in Seq(A2)
        /\ IsInjective((job.warnings \o first) \o second)
    BY <1>1, <1>6, <1>7, NewWarning, Zenon DEF A2
  <2> QED  BY <1>2, <2>1
<1> HIDE DEF A2
<1>9. IsInjective(Append(clamped.warnings, "profile overridden"))
  BY <1>6, <1>8, LastWarning
<1> QED  BY <1>3, <1>4, <1>8, <1>9
-----------------------------------------------------------------------------
(* What inventory_source writes down of a path, and the paths below a root, *)
(* or the root if it is a file.                                             *)
EntryAt(t, p) ==
    [path |-> p, kind |-> t[p].kind, mtime |-> t[p].mtime,
     size |-> IF t[p].kind = "file" THEN t[p].size ELSE 0]

Inside(t, root) ==
    {p \in DOMAIN t : /\ IsPrefix(root, p) /\ t[p].kind # "absent"
                      /\ p = root => t[p].kind = "file"}

(* What a walk has found out of a tree that does not change: where it goes  *)
(* on is a directory, what it has found and looked at is there, and what it *)
(* has not found is below a directory that is pending.                      *)
Rooted(t, w) ==
    w.phase \in {"scan", "restat", "done"} =>
        w.root \in DOMAIN t /\ w.kind = t[w.root].kind /\ w.kind \in Supported

Found(t, w) ==
    w.phase \in {"scan", "restat"} =>
        /\ DOMAIN w.found \subseteq Inside(t, w.root)
        /\ \A p \in DOMAIN w.found : w.found[p] = t[p].kind /\ t[p].kind \in Supported
        /\ \A e \in w.entries : e.path \in DOMAIN w.found /\ e = EntryAt(t, e.path)

Ahead(t, w) ==
    w.phase = "scan" =>
        /\ \A d \in w.pending :
            d \in DOMAIN t /\ IsPrefix(w.root, d) /\ t[d].kind = "directory"
        /\ \A p \in Inside(t, w.root) :
            p \in DOMAIN w.found \/ \E d \in w.pending : d # p /\ IsPrefix(d, p)

Complete(t, w) ==
    /\ w.phase = "restat" => Inside(t, w.root) \subseteq DOMAIN w.found
    /\ w.phase = "done" =>
        /\ w.identity.digest = {EntryAt(t, p) : p \in Inside(t, w.root)}
        /\ \A p \in Inside(t, w.root) : t[p].kind \in Supported

Survey(t, w) == Rooted(t, w) /\ Found(t, w) /\ Ahead(t, w) /\ Complete(t, w)

WalkFields == {"phase", "root", "kind", "pending", "found", "entries", "identity"}

(* A prefix agrees in all places it has.                                    *)
LEMMA PrefixIs ==
    ASSUME NEW p, NEW q, p \in Seq(ToSet(p)), q \in Seq(ToSet(q))
    PROVE  IsPrefix(p, q) <=> Len(p) =< Len(q) /\ \A i \in 1..Len(p) : p[i] = q[i]
<1>1. Len(p) \in Nat /\ Len(q) \in Nat
  OBVIOUS
<1>2. SubSeq(p, 1, Len(p)) = [i \in 1..Len(p) |-> p[i]]
  BY <1>1
<1>3. Len(p) =< Len(q) => SubSeq(q, 1, Len(p)) = [i \in 1..Len(p) |-> q[i]]
  BY <1>1
<1> QED  BY <1>2, <1>3 DEF IsPrefix

(* What is below what is below a path is below it.                          *)
LEMMA PrefixTransitive ==
    ASSUME NEW p, NEW q, NEW r,
           p \in Seq(ToSet(p)), q \in Seq(ToSet(q)), r \in Seq(ToSet(r)),
           IsPrefix(p, q), IsPrefix(q, r)
    PROVE  IsPrefix(p, r)
<1>1. Len(p) \in Nat /\ Len(q) \in Nat /\ Len(r) \in Nat
  OBVIOUS
<1>2. Len(p) =< Len(q) /\ \A i \in 1..Len(p) : p[i] = q[i]
  BY PrefixIs
<1>3. Len(q) =< Len(r) /\ \A i \in 1..Len(q) : q[i] = r[i]
  BY PrefixIs
<1>4. Len(p) =< Len(r) /\ \A i \in 1..Len(p) : p[i] = r[i]
  BY <1>1, <1>2, <1>3
<1> QED  BY <1>4, PrefixIs

(* In a proper tree, the way from a directory to a path further down leads  *)
(* over a child of the directory.                                           *)
LEMMA ChildOnTheWay ==
    ASSUME NEW t, ProperTree(t), NEW d \in DOMAIN t, NEW p \in DOMAIN t,
           t[p].kind # "absent", d # p, IsPrefix(d, p)
    PROVE  \/ p \in Children(t, d)
           \/ \E c \in Children(t, d) :
                t[c].kind = "directory" /\ c # p /\ IsPrefix(c, p)
<1> DEFINE n == Len(d) + 1
           c == SubSeq(p, 1, n)
<1>1. d \in Seq(ToSet(d)) /\ p \in Seq(ToSet(p))
  BY DEF ProperTree
<1>2. /\ Len(d) \in Nat /\ Len(p) \in Nat /\ Len(d) =< Len(p)
      /\ \A i \in 1..Len(d) : d[i] = p[i]
  BY <1>1, PrefixIs
<1>3. Len(d) # Len(p)
  <2>1. SUFFICES ASSUME Len(d) = Len(p) PROVE d = p
    OBVIOUS
  <2>2. d = [i \in 1..Len(d) |-> d[i]] /\ p = [i \in 1..Len(p) |-> p[i]]
    BY <1>1
  <2> QED  BY <1>2, <2>1, <2>2
<1>4. n \in Len(d)..Len(p) /\ n \in Nat
  BY <1>2, <1>3
<1>5. c \in DOMAIN t
  BY <1>4 DEF ProperTree
<1>6. c \in Seq(ToSet(c))
  BY <1>5 DEF ProperTree
<1>7. Len(c) = n /\ \A i \in 1..n : c[i] = p[i]
  BY <1>1, <1>2, <1>4
<1> HIDE DEF c
<1>8. IsPrefix(d, c)
  BY <1>1, <1>2, <1>6, <1>7, PrefixIs
<1>9. IsPrefix(c, p)
  BY <1>1, <1>4, <1>6, <1>7, PrefixIs
<1>10. CASE c = p
  BY <1>7, <1>8, <1>10 DEF Children
<1>11. CASE c # p
  <2>1. t[c].kind = "directory"
    BY <1>5, <1>9, <1>11 DEF ProperTree
  <2> QED  BY <1>5, <1>7, <1>8, <1>9, <1>11, <2>1 DEF Children
<1> QED  BY <1>10, <1>11

(* The children of a directory below the root are inside.                   *)
LEMMA ChildrenInside ==
    ASSUME NEW t, ProperTree(t), NEW root \in DOMAIN t, NEW d \in DOMAIN t,
           IsPrefix(root, d), NEW p \in Children(t, d)
    PROVE  p \in Inside(t, root)
<1>1. root \in Seq(ToSet(root)) /\ d \in Seq(ToSet(d)) /\ p \in Seq(ToSet(p)) /\ p \in DOMAIN t
  BY DEF ProperTree, Children
<1>2. IsPrefix(d, p) /\ t[p].kind # "absent" /\ Len(p) = Len(d) + 1
  BY DEF Children
<1>3. IsPrefix(root, p)
  BY <1>1, <1>2, PrefixTransitive
<1>4. p # root
  BY <1>1, <1>2, PrefixIs
<1> QED  BY <1>1, <1>2, <1>3, <1>4 DEF Inside
(* A walk that failed has nothing to answer for.                            *)
LEMMA FailedSurvey ==
    ASSUME NEW t, NEW w
    PROVE  /\ Survey(t, Failed(w)) /\ DOMAIN Failed(w) = WalkFields
           /\ Failed(w).root = w.root /\ Failed(w).phase = "failed"
<1>1. DOMAIN NoWalk = WalkFields
  BY DEF NoWalk, WalkFields
<1>2. /\ DOMAIN Failed(w) = WalkFields
      /\ Failed(w).phase = "failed" /\ Failed(w).root = w.root
  BY <1>1 DEF Failed, WalkFields
<1> QED  BY <1>2 DEF Survey, Rooted, Found, Ahead, Complete

(* The first lstat: everything is still ahead.                              *)
LEMMA BeginSurvey ==
    ASSUME NEW t, NEW root, ProperTree(t)
    PROVE  LET w == Begin(t, root)
           IN  /\ Survey(t, w) /\ DOMAIN w = WalkFields /\ w.root = root
               /\ w.phase \in {"scan", "restat", "failed"}
<1> DEFINE kind == KindAt(t, root)
           base == [NoWalk EXCEPT !.root = root, !.kind = kind]
           w == Begin(t, root)
<1>1. /\ DOMAIN base = WalkFields /\ base.root = root /\ base.kind = kind
      /\ base.pending = {} /\ base.entries = {} /\ base.found = << >>
  BY DEF NoWalk, WalkFields
<1>2. CASE kind = "file"
  <2>1. w = [base EXCEPT !.phase = "restat", !.found = [p \in {root} |-> "file"]]
    BY <1>2, Zenon DEF Begin
  <2> HIDE DEF base, w
  <2>2. /\ DOMAIN w = WalkFields /\ w.root = root /\ w.kind = "file"
        /\ w.phase = "restat" /\ w.entries = {} /\ w.found = [p \in {root} |-> "file"]
    BY <1>1, <1>2, <2>1 DEF WalkFields
  <2>3. root \in DOMAIN t /\ t[root].kind = "file"
    BY <1>2 DEF KindAt
  <2>4. IsPrefix(root, root)
    BY <2>3, PrefixIs DEF ProperTree
  <2>5. Inside(t, root) = {root}
    BY <2>3, <2>4 DEF Inside, ProperTree
  <2>6. DOMAIN w.found = {root} /\ w.found[root] = "file"
    BY <2>2
  <2>7. Rooted(t, w) /\ Found(t, w) /\ Ahead(t, w) /\ Complete(t, w)
    BY <2>2, <2>3, <2>5, <2>6 DEF Rooted, Found, Ahead, Complete, Supported
  <2> QED  BY <2>2, <2>7 DEF Survey, w
<1>3. CASE kind = "directory"
  <2>1. w = [base EXCEPT !.phase = "scan", !.pending = {root}]
    BY <1>3, Zenon DEF Begin
  <2> HIDE DEF base, w
  <2>2. /\ DOMAIN w = WalkFields /\ w.root = root /\ w.kind = "directory"
        /\ w.phase = "scan" /\ w.entries = {} /\ w.found = << >> /\ w.pending = {root}
    BY <1>1, <1>3, <2>1 DEF WalkFields
  <2>3. root \in DOMAIN t /\ t[root].kind = "directory"
    BY <1>3 DEF KindAt
  <2>4. IsPrefix(root, root)
    BY <2>3, PrefixIs DEF ProperTree
  <2>5. DOMAIN w.found = {}
    BY <2>2
  <2>6. \A p \in Inside(t, root) : root # p /\ IsPrefix(root, p)
    BY <2>3 DEF Inside
  <2>7. Rooted(t, w) /\ Found(t, w) /\ Ahead(t, w) /\ Complete(t, w)
    BY <2>2, <2>3, <2>4, <2>5, <2>6 DEF Rooted, Found, Ahead, Complete, Supported
  <2> QED  BY <2>2, <2>7 DEF Survey, w
<1>4. CASE kind \notin {"file", "directory"}
  <2>1. w = Failed(base)
    BY <1>4, Zenon DEF Begin
  <2> HIDE DEF base
  <2> QED  BY <1>1, <2>1, FailedSurvey
<1> QED  BY <1>2, <1>3, <1>4

(* os.scandir of a pending directory: what was below it is found, or below  *)
(* a subdirectory that is pending now.                                      *)
LEMMA ScanSurvey ==
    ASSUME NEW t, NEW w, ProperTree(t), Survey(t, w), DOMAIN w = WalkFields,
           w.phase = "scan", NEW d \in w.pending
    PROVE  LET v == Scan(t, w, d)
           IN  /\ Survey(t, v) /\ DOMAIN v = WalkFields /\ v.root = w.root
               /\ v.phase \in {"scan", "restat", "failed"}
<1> DEFINE children == Children(t, d)
           pending == (w.pending \ {d}) \union {p \in children : t[p].kind = "directory"}
           found == Updated(w.found, [p \in children |-> t[p].kind])
           v == Scan(t, w, d)
<1>1. CASE v = Failed(w)
  BY <1>1, FailedSurvey
<1>2. CASE /\ \A p \in children : t[p].kind \in Supported
           /\ v = [w EXCEPT !.pending = pending, !.found = found,
                            !.phase = IF pending = {} THEN "restat" ELSE "scan"]
  <2> HIDE DEF found, pending, v
  <2>1. /\ DOMAIN v = WalkFields /\ v.root = w.root /\ v.kind = w.kind
        /\ v.pending = pending /\ v.found = found /\ v.entries = w.entries
        /\ v.phase = IF pending = {} THEN "restat" ELSE "scan"
    BY <1>2 DEF WalkFields
  <2>2. /\ w.root \in DOMAIN t /\ w.kind = t[w.root].kind /\ w.kind \in Supported
        /\ d \in DOMAIN t /\ IsPrefix(w.root, d)
    BY DEF Survey, Rooted, Ahead
  <2>3. /\ DOMAIN found = children \union DOMAIN w.found
        /\ \A p \in DOMAIN found :
             found[p] = IF p \in children THEN t[p].kind ELSE w.found[p]
    BY DEF found, Updated
  <2>4. children \subseteq Inside(t, w.root)
    BY <2>2, ChildrenInside
  <2> HIDE DEF children
  <2>5. Rooted(t, v)
    BY <2>1, <2>2 DEF Rooted
  <2>6. Found(t, v)
    BY <1>2, <2>1, <2>3, <2>4 DEF Survey, Found
  <2>7. \A e \in pending : e \in DOMAIN t /\ IsPrefix(w.root, e) /\ t[e].kind = "directory"
    BY <2>4 DEF pending, Survey, Ahead, Inside
  <2>8. ASSUME NEW p \in Inside(t, w.root)
        PROVE  p \in DOMAIN found \/ \E e \in pending : e # p /\ IsPrefix(e, p)
    <3>1. CASE p \in DOMAIN w.found
      BY <2>3, <3>1
    <3>2. CASE \E e \in w.pending \ {d} : e # p /\ IsPrefix(e, p)
      BY <3>2 DEF pending
    <3>3. CASE d # p /\ IsPrefix(d, p)
      <4>1. \/ p \in children
            \/ \E c \in children : t[c].kind = "directory" /\ c # p /\ IsPrefix(c, p)
        BY <2>2, <3>3, ChildOnTheWay DEF Inside, children
      <4> QED  BY <2>3, <4>1 DEF pending
    <3> QED  BY <3>1, <3>2, <3>3 DEF Survey, Ahead
  <2>9. Ahead(t, v) /\ Complete(t, v)
    BY <2>1, <2>7, <2>8 DEF Ahead, Complete
  <2> QED  BY <2>1, <2>5, <2>6, <2>9 DEF Survey, v
<1>3. \/ v = Failed(w)
      \/ /\ \A p \in children : t[p].kind \in Supported
         /\ v = [w EXCEPT !.pending = pending, !.found = found,
                          !.phase = IF pending = {} THEN "restat" ELSE "scan"]
  BY Zenon DEF Scan
<1> QED  BY <1>1, <1>2, <1>3

(* lstat of one entry: it is written down as it is.                         *)
LEMMA RestatSurvey ==
    ASSUME NEW t, NEW w, Survey(t, w), DOMAIN w = WalkFields,
           w.phase = "restat", NEW p \in Unstatted(w)
    PROVE  LET v == Restat(t, w, p)
           IN  /\ Survey(t, v) /\ DOMAIN v = WalkFields /\ v.root = w.root
               /\ v.phase \in {"restat", "failed"}
<1> DEFINE v == Restat(t, w, p)
<1>1. CASE v = Failed(w)
  BY <1>1, FailedSurvey
<1>2. CASE v = [w EXCEPT !.entries = w.entries \union {EntryAt(t, p)}]
  <2> HIDE DEF v
  <2>1. /\ DOMAIN v = WalkFields /\ v.root = w.root /\ v.kind = w.kind /\ v.phase = w.phase
        /\ v.found = w.found /\ v.entries = w.entries \union {EntryAt(t, p)}
    BY <1>2 DEF WalkFields
  <2>2. p \in DOMAIN w.found /\ EntryAt(t, p).path = p
    BY DEF Unstatted, EntryAt
  <2>3. Found(t, v)
    BY <2>1, <2>2 DEF Survey, Found
  <2>4. Rooted(t, v) /\ Ahead(t, v) /\ Complete(t, v)
    BY <2>1 DEF Survey, Rooted, Ahead, Complete
  <2> QED  BY <2>1, <2>3, <2>4 DEF Survey, v
<1>3. v = Failed(w) \/ v = [w EXCEPT !.entries = w.entries \union {EntryAt(t, p)}]
  BY Zenon DEF Restat, EntryAt
<1> QED  BY <1>1, <1>2, <1>3

(* When every entry found was looked at, the digest is of all there is.     *)
LEMMA FinishSurvey ==
    ASSUME NEW t, NEW w, Survey(t, w), DOMAIN w = WalkFields,
           w.phase = "restat", Unstatted(w) = {}
    PROVE  LET v == Finish(t, w)
           IN  /\ Survey(t, v) /\ DOMAIN v = WalkFields /\ v.root = w.root
               /\ v.phase \in {"done", "failed"}
<1> DEFINE v == Finish(t, w)
           mtimes == {e.mtime : e \in w.entries} \union {t[w.root].mtime}
           identity == TreeIdentity(w.kind, w.entries, Max(mtimes))
<1>1. CASE v = Failed(w)
  BY <1>1, FailedSurvey
<1>2. CASE v = [NoWalk EXCEPT !.phase = "done", !.root = w.root, !.kind = w.kind,
                              !.identity = identity]
  <2>1. identity.digest = w.entries
    BY DEF TreeIdentity, Identity
  <2> HIDE DEF identity, v
  <2>2. /\ DOMAIN v = WalkFields /\ v.root = w.root /\ v.kind = w.kind /\ v.phase = "done"
        /\ v.identity = identity
    BY <1>2 DEF NoWalk, WalkFields
  <2>3. /\ DOMAIN w.found = Inside(t, w.root)
        /\ \A p \in Inside(t, w.root) : t[p].kind \in Supported
    BY DEF Survey, Found, Complete
  <2>4. w.entries = {EntryAt(t, p) : p \in Inside(t, w.root)}
    <3>1. \A e \in w.entries : e.path \in Inside(t, w.root) /\ e = EntryAt(t, e.path)
      BY DEF Survey, Found
    <3>2. \A p \in Inside(t, w.root) : \E e \in w.entries : e.path = p
      BY <2>3 DEF Unstatted
    <3> QED  BY <3>1, <3>2
  <2>5. Rooted(t, v) /\ Found(t, v) /\ Ahead(t, v) /\ Complete(t, v)
    BY <2>1, <2>2, <2>3, <2>4 DEF Survey, Rooted, Found, Ahead, Complete
  <2> QED  BY <2>2, <2>5 DEF Survey, v
<1>3. \/ v = Failed(w)
      \/ v = [NoWalk EXCEPT !.phase = "done", !.root = w.root, !.kind = w.kind,
                            !.identity = identity]
  BY Zenon DEF Finish
<1> QED  BY <1>1, <1>2, <1>3
-----------------------------------------------------------------------------
(* Of the places of a path there is a first one.                            *)
LEMMA FirstPlace ==
    ASSUME NEW places \in SUBSET Nat, places # {}
    PROVE  \E first \in places : \A k \in places : first =< k
<1>1. PICK first \in places : \A k \in places : ~(<<k, first>> \in OpToRel(<, Nat))
  BY NatLessThanWellFounded, WFMin
<1>2. \A k \in places : ~(k < first)
  BY <1>1 DEF OpToRel
<1> QED  BY <1>2

(* A set of n places has a first, a second, ... and an n-th.                *)
LEMMA NthPlace ==
    ASSUME NEW places \in SUBSET Nat, IsFiniteSet(places)
    PROVE  /\ Cardinality(places) \in Nat
           /\ \A n \in 1..Cardinality(places) : Nth(places, n) \in places
           /\ \A i \in places : \E n \in 1..Cardinality(places) : Nth(places, n) = i
           /\ \A m, n \in 1..Cardinality(places) : Nth(places, m) = Nth(places, n) => m = n
<1> DEFINE total == Cardinality(places)
           upTo(i) == {k \in places : k =< i}
           rank == [i \in places |-> Cardinality(upTo(i))]
<1>0. \A i \in places : i \in Nat
  OBVIOUS
<1>1. total \in Nat /\ IsFiniteSet(1..total) /\ Cardinality(1..total) = total
  BY FS_CardinalityType, FS_Interval
<1>2. ASSUME NEW i \in places
      PROVE  /\ upTo(i) \in SUBSET places /\ IsFiniteSet(upTo(i)) /\ rank[i] \in 1..total
             /\ rank[i] = Cardinality(upTo(i)) /\ rank[i] \in Nat
  <2>1. upTo(i) \in SUBSET places /\ i \in upTo(i) /\ rank[i] = Cardinality(upTo(i))
    OBVIOUS
  <2> HIDE DEF upTo, rank
  <2>2. IsFiniteSet(upTo(i)) /\ Cardinality(upTo(i)) =< total
    BY <2>1, FS_Subset
  <2>3. Cardinality(upTo(i)) \in Nat /\ Cardinality(upTo(i)) # 0
    BY <2>1, <2>2, FS_CardinalityType, FS_EmptySet
  <2> QED  BY <1>1, <2>1, <2>2, <2>3
<1>3. ASSUME NEW i \in places, NEW k \in places, i < k PROVE rank[i] < rank[k]
  <2>1. upTo(i) \in SUBSET upTo(k) /\ k \in upTo(k) /\ k \notin upTo(i)
    <3>1. i \in Nat /\ k \in Nat /\ k =< k /\ ~(k =< i)
      BY <1>0, <1>3
    <3>2. \A x \in places : x =< i => x =< k
      BY <1>0, <1>3, <3>1
    <3> QED  BY <3>1, <3>2
  <2> HIDE DEF upTo, rank
  <2>2. Cardinality(upTo(i)) =< Cardinality(upTo(k)) /\ Cardinality(upTo(i)) # Cardinality(upTo(k))
    BY <1>2, <2>1, FS_Subset
  <2> QED  BY <1>2, <2>2
<1>4. \A i, k \in places : rank[i] = rank[k] => i = k
  <2> SUFFICES ASSUME NEW i \in places, NEW k \in places, i # k PROVE rank[i] # rank[k]
    OBVIOUS
  <2> HIDE DEF rank, upTo
  <2>1. rank[i] < rank[k] \/ rank[k] < rank[i]
    BY <1>0, <1>3
  <2> QED  BY <1>2, <2>1
<1>5. rank \in [places -> 1..total]
  <2>1. rank = [i \in places |-> rank[i]]
    OBVIOUS
  <2> HIDE DEF rank
  <2> QED  BY <1>2, <2>1
<1>6. \A n \in 1..total : Nth(places, n) = CHOOSE i \in places : rank[i] = n
  BY DEF Nth
<1> HIDE DEF rank, upTo
<1>7. rank \in Surjection(places, 1..total)
  <2>1. rank \in Injection(places, 1..total)
    BY <1>4, <1>5 DEF Injection, IsInjective
  <2> QED  BY <1>1, <2>1, FS_Injection
<1>8. \A n \in 1..total : \E i \in places : rank[i] = n
  BY <1>7 DEF Surjection
<1>9. \A n \in 1..total : Nth(places, n) \in places /\ rank[Nth(places, n)] = n
  BY <1>6, <1>8
<1>10. \A i \in places : Nth(places, rank[i]) = i
  BY <1>2, <1>4, <1>9
<1>11. \A m, n \in 1..total : Nth(places, m) = Nth(places, n) => m = n
  BY <1>9
<1> QED  BY <1>1, <1>2, <1>9, <1>10, <1>11

(* What a sequence has at some of its places, and nothing else of it.       *)
LEMMA PickedIs ==
    ASSUME NEW S, NEW s \in Seq(S), NEW places \in SUBSET (DOMAIN s)
    PROVE  /\ Picked(s, places) \in Seq(S)
           /\ ToSet(Picked(s, places)) = {s[i] : i \in places}
           /\ (\A i, k \in places : s[i] = s[k] => i = k) =>
                \A m, n \in DOMAIN Picked(s, places) :
                    Picked(s, places)[m] = Picked(s, places)[n] => m = n
<1> DEFINE total == Cardinality(places)
           picked == Picked(s, places)
<1>1. DOMAIN s = 1..Len(s) /\ Len(s) \in Nat /\ \A i \in DOMAIN s : s[i] \in S
  OBVIOUS
<1>2. places \in SUBSET Nat /\ IsFiniteSet(places)
  <2>1. IsFiniteSet(DOMAIN s)
    BY <1>1, FS_Interval
  <2> QED  BY <1>1, <2>1, FS_Subset
<1>3. /\ total \in Nat
      /\ \A n \in 1..total : Nth(places, n) \in places
      /\ \A i \in places : \E n \in 1..total : Nth(places, n) = i
      /\ \A m, n \in 1..total : Nth(places, m) = Nth(places, n) => m = n
  BY <1>2, NthPlace
<1>4. picked = [n \in 1..total |-> s[Nth(places, n)]]
  BY DEF Picked
<1> HIDE DEF picked, total
<1>5. picked \in Seq(S) /\ DOMAIN picked = 1..total
  BY <1>1, <1>3, <1>4
<1>6. ToSet(picked) = {s[i] : i \in places}
  BY <1>3, <1>4, <1>5 DEF ToSet
<1>7. ASSUME \A i, k \in places : s[i] = s[k] => i = k,
             NEW m \in DOMAIN picked, NEW n \in DOMAIN picked, picked[m] = picked[n]
      PROVE  m = n
  BY <1>3, <1>4, <1>5, <1>7
<1> QED  BY <1>5, <1>6, <1>7 DEF picked

(* Whatever a sequence has, it has somewhere for the first time.            *)
LEMMA FirstPlacesCover ==
    ASSUME NEW S, NEW s \in Seq(S)
    PROVE  /\ FirstPlaces(s) \in SUBSET (DOMAIN s)
           /\ \A i \in DOMAIN s : \E k \in FirstPlaces(s) : s[k] = s[i]
           /\ \A i, k \in FirstPlaces(s) : s[i] = s[k] => i = k
<1>1. DOMAIN s = 1..Len(s) /\ Len(s) \in Nat
  OBVIOUS
<1>2. ASSUME NEW i \in DOMAIN s PROVE \E k \in FirstPlaces(s) : s[k] = s[i]
  <2> DEFINE same == {k \in DOMAIN s : s[k] = s[i]}
  <2>1. same \in SUBSET Nat /\ same # {}
    BY <1>1
  <2>2. PICK first \in same : \A k \in same : first =< k
    BY <2>1, FirstPlace
  <2>3. \A k \in 1..(first - 1) : s[k] # s[i]
    BY <1>1, <2>1, <2>2
  <2> QED  BY <2>2, <2>3 DEF FirstPlaces
<1>3. ASSUME NEW i \in FirstPlaces(s), NEW k \in FirstPlaces(s), s[i] = s[k] PROVE i = k
  <2>1. i \in Nat \ {0} /\ k \in Nat \ {0} /\ ~(i < k) /\ ~(k < i)
    BY <1>1, <1>3 DEF FirstPlaces
  <2> QED  BY <2>1
<1> QED  BY <1>2, <1>3 DEF FirstPlaces

(* The paths of the kinds an operation takes make a list without gaps: each *)
(* of them, however often it was given, is in it, and once.                 *)
LEMMA UniqueKeeps ==
    ASSUME NEW t, NEW paths, NEW S, paths \in Seq(S), NEW kinds
    PROVE  LET u == Unique(t, paths, kinds)
           IN  /\ u \in Seq(S)
               /\ \A m, n \in DOMAIN u : u[m] = u[n] => m = n
               /\ \A p \in ToSet(paths) : KindAt(t, p) \in kinds => p \in ToSet(u)
<1> DEFINE u == Unique(t, paths, kinds)
           places == {i \in FirstPlaces(paths) : KindAt(t, paths[i]) \in kinds}
<1>1. places \in SUBSET (DOMAIN paths) /\ \A i, k \in places : paths[i] = paths[k] => i = k
  BY FirstPlacesCover
<1>2. u = Picked(paths, places)
  BY DEF Unique
<1>3. ASSUME NEW p \in ToSet(paths), KindAt(t, p) \in kinds
      PROVE  \E i \in places : paths[i] = p
  BY <1>3, FirstPlacesCover DEF ToSet
<1> HIDE DEF u, places
<1>4. /\ u \in Seq(S) /\ ToSet(u) = {paths[i] : i \in places}
      /\ \A m, n \in DOMAIN u : u[m] = u[n] => m = n
  BY <1>1, <1>2, PickedIs
<1> QED  BY <1>3, <1>4 DEF u

(* The input that a given spelling stands for: the first volume, or itself. *)
Meant(operation, spelling) ==
    IF operation = "extract" THEN FirstVolume(PathKey(spelling)) ELSE PathKey(spelling)

(* collect_paths drops nothing it does not report: a list of inputs without *)
(* gaps, with the meaning of each given path in it unless one was rejected. *)
LEMMA NothingDropped ==
    ASSUME NEW t, NEW operation, NEW given, given \in Seq(ToSet(given))
    PROVE  LET list == IF operation = "extract" THEN ExtractInputs(t, given)
                       ELSE CreateInputs(t, given)
           IN  /\ DOMAIN list = 1..Len(list) /\ Len(list) \in Nat
               /\ \A m, n \in DOMAIN list : list[m] = list[n] => m = n
               /\ \A n \in DOMAIN list : \E i \in DOMAIN given :
                        list[n] = Meant(operation, given[i])
               /\ Rejected(t, operation, given) = {} =>
                    \A i \in DOMAIN given : Meant(operation, given[i]) \in ToSet(list)
<1> DEFINE paths == [i \in DOMAIN given |-> PathKey(given[i])]
           P == {PathKey(given[i]) : i \in DOMAIN given}
           rejected == Rejected(t, operation, given)
<1>1. paths \in Seq(P) /\ DOMAIN paths = DOMAIN given /\ ToSet(paths) = P
  <2>1. DOMAIN given = 1..Len(given) /\ Len(given) \in Nat
    OBVIOUS
  <2> QED  BY <2>1 DEF ToSet
<1>2. \A i \in DOMAIN given : PathKey(given[i]) \in P /\ paths[i] = PathKey(given[i])
  OBVIOUS
<1> HIDE DEF paths, P
<1>3. CASE operation = "extract"
  <2> DEFINE files == NormalizePaths(t, given, {"file"})
             volumes == [i \in DOMAIN files |-> FirstVolume(files[i])]
             V == {FirstVolume(p) : p \in P}
             list == Canonicalize(t, files)
  <2>1. /\ files \in Seq(P)
        /\ \A p \in P : KindAt(t, p) \in {"file"} => p \in ToSet(files)
    BY <1>1, UniqueKeeps DEF NormalizePaths, paths
  <2> HIDE DEF files
  <2>2. volumes \in Seq(V) /\ DOMAIN volumes = DOMAIN files
    BY <2>1
  <2>3. \A p \in ToSet(files) : FirstVolume(p) \in ToSet(volumes)
    BY <2>2 DEF ToSet
  <2>4. /\ list \in Seq(V) /\ \A m, n \in DOMAIN list : list[m] = list[n] => m = n
        /\ \A p \in ToSet(volumes) : KindAt(t, p) \in {"file"} => p \in ToSet(list)
    BY <2>2, UniqueKeeps DEF Canonicalize
  <2>5. \A v \in V : \E i \in DOMAIN given : v = Meant(operation, given[i])
    BY <1>3 DEF Meant, P
  <2> HIDE DEF list, volumes, V
  <2>6. DOMAIN list = 1..Len(list) /\ Len(list) \in Nat
    BY <2>4
  <2>7. \A n \in DOMAIN list : list[n] \in V
    BY <2>4
  <2>8. ASSUME rejected = {}, NEW i \in DOMAIN given
        PROVE  Meant(operation, given[i]) \in ToSet(list)
    <3>1. KindAt(t, PathKey(given[i])) = "file" /\ KindAt(t, FirstVolume(PathKey(given[i]))) = "file"
      BY <1>3, <2>8 DEF Rejected
    <3>2. FirstVolume(PathKey(given[i])) \in ToSet(volumes)
      BY <1>2, <2>1, <2>3, <3>1
    <3> QED  BY <1>3, <2>4, <3>1, <3>2 DEF Meant
  <2> QED  BY <1>3, <2>4, <2>5, <2>6, <2>7, <2>8 DEF list, files, ExtractInputs
<1>4. CASE operation # "extract"
  <2> DEFINE list == CreateInputs(t, given)
  <2>1. /\ list \in Seq(P) /\ \A m, n \in DOMAIN list : list[m] = list[n] => m = n
        /\ \A p \in P : KindAt(t, p) \in Supported => p \in ToSet(list)
    BY <1>1, UniqueKeeps DEF CreateInputs, NormalizePaths, paths
  <2> HIDE DEF list
  <2>2. /\ DOMAIN list = 1..Len(list) /\ Len(list) \in Nat
        /\ \A n \in DOMAIN list : list[n] \in P
    BY <2>1
  <2>3. \A p \in P : \E i \in DOMAIN given : p = Meant(operation, given[i])
    BY <1>4 DEF Meant, P
  <2>4. ASSUME rejected = {}, NEW i \in DOMAIN given
        PROVE  Meant(operation, given[i]) \in ToSet(list)
    <3>1. KindAt(t, PathKey(given[i])) \in Supported
      BY <1>4, <2>4 DEF Rejected
    <3> QED  BY <1>2, <1>4, <2>1, <3>1 DEF Meant
  <2> QED  BY <1>4, <2>1, <2>2, <2>4, <2>3 DEF list
<1> QED  BY <1>3, <1>4

(* A job record is of the path it was planned for.                          *)
LEMMA PlannedPath ==
    /\ \A schema, index, path, entry, listing, cfg :
            ExtractJob(schema, index, path, entry, listing, cfg).path = path
    /\ \A index, path, identity, cfg : CreateJob(index, path, identity, cfg).path = path
<1>1. ASSUME NEW schema, NEW operation, NEW index, NEW path, NEW identity, NEW destination,
             NEW encrypted, NEW class, NEW warnings
      PROVE  JobRecord(schema, operation, index, path, identity, destination, encrypted,
                       class, warnings).path = path
  BY DEF JobRecord, Stamped
<1>2. ASSUME NEW schema, NEW index, NEW path, NEW entry, NEW listing, NEW cfg
      PROVE  ExtractJob(schema, index, path, entry, listing, cfg).path = path
  <2>1. \E identity, destination, encrypted, class, warnings :
            ExtractJob(schema, index, path, entry, listing, cfg)
                = JobRecord(schema, "extract", index, path, identity, destination, encrypted,
                            class, warnings)
    BY Zenon DEF ExtractJob
  <2> QED  BY <1>1, <2>1
<1>3. ASSUME NEW index, NEW path, NEW identity, NEW cfg
      PROVE  CreateJob(index, path, identity, cfg).path = path
  <2>1. \E destination, encrypted, class, warnings :
            CreateJob(index, path, identity, cfg)
                = JobRecord(2, "create", index, path, identity, destination, encrypted,
                            class, warnings)
    BY Zenon DEF CreateJob
  <2> QED  BY <1>1, <2>1
<1> QED  BY <1>2, <1>3
=============================================================================
