------------------------------- MODULE Skills -------------------------------
(***************************************************************************)
(* Loading skill packages (src/tool/skill) from what a disk holds.  Disk   *)
(* gives for a path what LoadRoots finds there.  A package is a directory  *)
(* with a SKILL.md; linked says that the path to it goes through a         *)
(* symbolic link.  An entry is a file found in references, assets or       *)
(* scripts: a regular file, a link or something else, and the place its    *)
(* target has in the tree of the resolved root: "inside", "outside", or    *)
(* "dotted", inside but below a directory whose name begins with two dots. *)
(***************************************************************************)
EXTENDS Integers, Sequences, FiniteSets, SequencesExt

CONSTANT Disk   \* what is on the disk, for each path of the caller

(* os.ReadDir lists the children.                                          *)
ASSUME DiskAssumption ==
  \A path \in DOMAIN Disk : Disk[path].children \in Seq(Range(Disk[path].children))

(* withinRoot, of the resolved root: filepath.Rel gives a path that begins *)
(* with two dots also for a dotted place.                                  *)
WithinRoot(place) == place = "inside"

(* loadResources has the absolute path of a regular file, not resolved,    *)
(* appendSymlinkResource the resolved target of a link.                    *)
Place(package, entry) ==
  IF entry.type = "link" THEN entry.place
  ELSE IF package.linked THEN "outside" ELSE "inside"

(* A link that leads nowhere, or a place that withinRoot does not accept,  *)
(* refuses the package.                                                    *)
Escapes(package, entry) ==
  \/ entry.type = "link" /\ entry.to = "nothing"
  \/ entry.type \in {"link", "file"} /\ ~WithinRoot(Place(package, entry))
Follows(package, entry) == entry.type = "link" /\ entry.to = "nothing"  \* mutant of Escapes

(* Links to directories and what is not a file are left out.               *)
Resources(package) ==
  {entry \in package.entries : entry.type = "file" \/ (entry.type = "link" /\ entry.to = "file")}

(* LoadDir reads the front matter, the UI metadata and the resources.      *)
Loads(package) ==
  /\ package.frontmatter /\ package.name # "" /\ package.description /\ package.ui
  /\ \A entry \in package.entries : ~Escapes(package, entry)
LoadDir(package) == [id |-> package.name, resources |-> Resources(package)]

(* loadRoot finds a package, or the packages among the children; a child   *)
(* that is a symbolic link, even to a directory, is none.                  *)
Found(path) ==
  LET children == Disk[path].children
      packages(child) == child.dir /\ child.skill # "none"
  IN IF Disk[path].skill # "none" THEN <<Disk[path]>>
     ELSE FlattenSeq([k \in DOMAIN children |-> IF packages(children[k]) THEN <<children[k]>> ELSE <<>>])
LoadsRoot(path) ==
  /\ Disk[path].dir
  /\ \A k \in DOMAIN Found(path) : Found(path)[k].skill = "readable" /\ Loads(Found(path)[k].package)
LoadRoot(path) == [k \in DOMAIN Found(path) |-> LoadDir(Found(path)[k].package)]

-----------------------------------------------------------------------------
(* A Registry is the list of its skills; Register refuses a second skill   *)
(* of one identifier.                                                      *)
Distinct(skills) == \A i, j \in DOMAIN skills : skills[i].id = skills[j].id => i = j

(* LoadRoots: blank paths are skipped.                                     *)
Roots(paths) == FlattenSeq([k \in DOMAIN paths |-> IF paths[k] = "" THEN <<>> ELSE <<paths[k]>>])
LoadRoots(paths) == FlattenSeq([k \in DOMAIN Roots(paths) |-> LoadRoot(Roots(paths)[k])])
LoadsRoots(paths) ==
  /\ \A k \in DOMAIN Roots(paths) : LoadsRoot(Roots(paths)[k])
  /\ Distinct(LoadRoots(paths))
=============================================================================
