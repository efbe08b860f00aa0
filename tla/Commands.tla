------------------------------ MODULE Commands ------------------------------
(***************************************************************************)
(* What the commands of deb-s3 work out from their options and from the    *)
(* metadata they have read: pure functions of a job and of manifests.      *)
(*                                                                         *)
(* A job is the command with its options: op, codename, component, arch    *)
(* ("" when --arch is absent), debs (the package files of upload, in       *)
(* order), preserve, failIfExists, skipUpload, byHash ("on", "off" or      *)
(* "unset"), sign, lock, name, all (no --versions), versions, source (the  *)
(* codename and component copy reads) and fix (--fix-manifests). Queries   *)
(* take a component and an architecture; show and exists a name and the    *)
(* full version, list an architecture or none.                             *)
(***************************************************************************)
EXTENDS Manifests

\* An index that does not exist reads as an empty manifest.
PackagesOf(stored) == IF stored = NoObject THEN <<>> ELSE stored

\* The entries that copy selects from its source, and show and exists find.
Selected(j, packages) ==
  KeepOnly(packages,
           {e \in ToSet(packages) :
              e.name = j.name /\ (j.all \/ e.version \in j.versions)})

\* Where the package goes: --arch overrides its own architecture.
Placement(j, deb) == IF j.arch # "" THEN j.arch ELSE deb.arch

\* A concrete architecture may not be placed under another one, and there has
\* to be one.
Misplaced(j, deb) ==
  \/ Placement(j, deb) = ""
  \/ j.arch # "" /\ deb.arch \notin {"", "all", j.arch}

Placed(j) == KeepOnly(j.debs, {d \in ToSet(j.debs) : ~Misplaced(j, d)})

\* manifestFor, after the default ones when an "all" package meets no manifest.
ReadArch(archs, arch) ==
  AppendUnique(IF archs = <<>> /\ arch = "all" THEN StandardArchs ELSE archs, arch)

ReadArchs(archs, placements) == FoldLeft(ReadArch, archs, placements)

\* The manifests upload reads: those of the Release and those of its packages.
UploadArchs(j, archs) ==
  ReadArchs(archs, [i \in DOMAIN Placed(j) |-> Placement(j, Placed(j)[i])])

ArchsToRead(j, archs) ==
  CASE j.op = "upload"                  -> UploadArchs(j, archs)
    [] j.op = "delete" /\ j.arch # "all" -> <<j.arch>>
    [] j.op = "copy"                    -> <<j.arch>>
    [] j.op = "list" /\ j.arch # ""     ->
         KeepOnly(archs, {j.arch})
    [] OTHER                            -> archs

\* Mutant: an entry is reported for every index that has it.
ReportedTwice(reported, packages) == reported \o packages

\* listIdentity. The architecture is that of the file, so the pool key stands
\* for both.
Identical(e, f) == SamePackage(e, f) /\ e.filename = f.filename

ReportNext(seen, e) ==
  IF \E f \in ToSet(seen) : Identical(e, f) THEN seen ELSE Append(seen, e)

\* list reports an entry once, however many indexes it was propagated into.
Reported(reported, packages) == FoldLeft(ReportNext, reported, packages)

Entries(j, arch) ==
  LET debs == KeepOnly(j.debs, {d \in ToSet(j.debs) : Placement(j, d) = arch})
  IN  [i \in DOMAIN debs |-> Entry(debs[i], j.codename)]

\* What upload adds to a manifest: its own packages, then the "all" ones.
Added(j, manifest) ==
  AddAll(manifest.packages,
         Entries(j, manifest.arch)
           \o (IF manifest.arch = "all" THEN <<>> ELSE Entries(j, "all")),
         j.preserve, j.failIfExists)

Uploads(j, ms) ==
  IF j.skipUpload THEN <<>>
  ELSE FlattenSeq([i \in DOMAIN ms |-> Entries(j, ms[i].arch)])
=============================================================================
