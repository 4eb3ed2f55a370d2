-------------------------------- MODULE Paths --------------------------------
(***************************************************************************)
(* Names and paths as the planners see them: a name is the sequence of its *)
(* dot-separated parts, a path the sequence of its names from the root, a  *)
(* spelling a path together with whether it was written in normal form.    *)
(* On top of them, multipart.py: which volume of a split archive comes     *)
(* first, and what the output directory of an archive is called.           *)
(***************************************************************************)
EXTENDS Integers, Sequences, FiniteSets, TLC, SequencesExt

Spelled(path) == [path |-> path, dots |-> FALSE]

(* path_key: spellings of one path have one key.                            *)
PathKey(spelling) == spelling.path

Name(path) == Last(path)
Parent(path) == Front(path)
WithName(path, name) == Append(Front(path), name)

(* A path that a command can be given has a name, as an existing file has.  *)
IsList(s) == s \in Seq(ToSet(s))
ProperPath(path) ==
    IsList(path) /\ path # << >> /\ IsList(Name(path)) /\ Name(path) # << >>

(* _contains: by whole names; a directory contains itself.                  *)
Encloses(directory, candidate) == IsPrefix(directory, candidate)
-----------------------------------------------------------------------------
(* Numbers of volumes, each with the number of the first of its width.      *)
NumberedFirst == [number \in {"001", "002", "0001", "0002"} |->
                    IF number \in {"001", "002"} THEN "001" ELSE "0001"]
PartFirst == [number \in {"part1", "part2", "part01", "part02"} |->
                    IF number \in {"part1", "part2"} THEN "part1" ELSE "part01"]
OldRarParts   == {"r00", "r01"}
SplitZipParts == {"z01", "z02"}

Suffix(name)     == Last(name)
Before2(name)    == name[Len(name) - 1]
Stem(name)       == Front(name)
WithSuffix(name, suffix) == Append(Front(name), suffix)

(* The naming family of a volume, in the order in which the patterns are    *)
(* tried; "none" when the name is no volume's.                              *)
Family(name) ==
    IF Len(name) >= 3 /\ Suffix(name) \in DOMAIN NumberedFirst
                      /\ Before2(name) \in {"7z", "zip"} THEN "numbered"
    ELSE IF Len(name) >= 3 /\ Suffix(name) = "rar"
                           /\ Before2(name) \in DOMAIN PartFirst THEN "part-rar"
    ELSE IF Len(name) >= 2 /\ Suffix(name) \in OldRarParts THEN "old-rar"
    ELSE IF Len(name) >= 2 /\ Suffix(name) \in SplitZipParts THEN "split-zip"
    ELSE "none"

(* identify: the first volume of the archive a path belongs to.             *)
FirstVolume(path) ==
    LET name == Name(path)
        first == CASE Family(name) = "numbered" ->
                        WithSuffix(name, NumberedFirst[Suffix(name)])
                   [] Family(name) = "part-rar" ->
                        Append(Append(Front(Front(name)), PartFirst[Before2(name)]), "rar")
                   [] Family(name) = "old-rar"   -> WithSuffix(name, "rar")
                   [] Family(name) = "split-zip" -> WithSuffix(name, "zip")
                   [] OTHER -> name
    IN  WithName(path, first)

CompoundSuffixes == {<<"tar", "gz">>, <<"tar", "bz2">>, <<"tar", "xz">>}
SimpleFormat == "7z" :> "7z" @@ "zip" :> "zip" @@ "rar" :> "rar" @@ "tar" :> "tar"
             @@ "gz" :> "gzip" @@ "bz2" :> "bzip2" @@ "xz" :> "xz"
             @@ "tgz" :> "gzip" @@ "tbz2" :> "bzip2" @@ "txz" :> "xz"

(* archive_stem: the name without its volume and archive suffixes. A name   *)
(* without a known suffix loses the last one it has, if any.                *)
ArchiveStem(name) ==
    CASE Family(name) = "numbered"                 -> Front(Front(name))
      [] Family(name) = "part-rar"                 -> Front(Front(name))
      [] Family(name) \in {"old-rar", "split-zip"} -> Front(name)
      [] OTHER ->
           IF Len(name) >= 3 /\ <<Before2(name), Suffix(name)>> \in CompoundSuffixes
           THEN Front(Front(name))
           ELSE IF Len(name) >= 2 THEN Front(name) ELSE name

(* inferred_format of a first volume; "none" has it inspected.              *)
InferredFormat(name) ==
    CASE Family(name) = "numbered" -> Before2(name)
      [] Family(name) \in {"part-rar", "old-rar"} -> "rar"
      [] Family(name) = "split-zip" -> "zip"
      [] OTHER -> IF Len(name) >= 2 /\ Suffix(name) \in DOMAIN SimpleFormat
                  THEN SimpleFormat[Suffix(name)] ELSE "none"
-----------------------------------------------------------------------------
(* The places of what a loop with a set "seen" takes: of each, the first.   *)
FirstPlaces(s) == {i \in DOMAIN s : \A k \in 1..(i - 1) : s[k] # s[i]}

(* The n-th of a set of places, and what a sequence has there, in order.    *)
Nth(places, n) ==
    CHOOSE i \in places : Cardinality({k \in places : k =< i}) = n

Picked(s, places) == [n \in 1..Cardinality(places) |-> s[Nth(places, n)]]
=============================================================================
