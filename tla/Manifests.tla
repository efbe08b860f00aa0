----------------------------- MODULE Manifests -----------------------------
(***************************************************************************)
(* The in-memory metadata of internal/apt: Packages manifests and the      *)
(* Release that lists them, as pure operators.                             *)
(*                                                                         *)
(* A manifest is [component, arch, packages]; its packages are a sequence  *)
(* of entries [name, version, filename, sum], in file order. A version is  *)
(* <<epoch, version, iteration>> with "" for a part that is absent. A      *)
(* filename is the pool key <<codename, base name>>. The rendered index    *)
(* and its hashes are both determined by the packages, so the model writes *)
(* the packages for either of them. A Release maps every index name        *)
(* <<component, arch, form>> to the contents it lists, or to NoObject.     *)
(***************************************************************************)
EXTENDS Naturals, SequencesExt

CONSTANTS Components,     \* the components of the repository
          Archs,          \* the architectures, "all" among them where used
          StandardArchs,  \* releaseArchitectures and defaultArchitectures
          NoObject        \* nothing is stored or listed under a name

Forms == <<"Packages", "Packages.gz">>

IndexNames == Components \X Archs \X ToSet(Forms)

AppendIf(left, x, S) == IF x \in S THEN Append(left, x) ELSE left

\* What a loop retains of a sequence, in its order: the elements in a set.
KeepOnly(seq, S) == FoldLeft(LAMBDA left, x : AppendIf(left, x, S), <<>>, seq)

---------------------------------------------------------------------------
(* Packages *)

\* The entry of a local package file added to a manifest of a codename: its
\* body goes to the pool of that codename.
Entry(deb, codename) ==
  [name |-> deb.name, version |-> deb.version,
   filename |-> <<codename, deb.file>>, sum |-> deb.sum]

\* The spellings of a version that select it: version, version-iteration and
\* epoch:version-iteration.
Spellings(version) ==
  {<<"", version[2], "">>, <<"", version[2], version[3]>>, version}

SamePackage(e, f) == e.name = f.name /\ e.version = f.version

\* --fail-if-exists: the same version is listed from another file.
Conflicts(packages, entry) ==
  \E f \in ToSet(packages) :
    SamePackage(f, entry) /\ f.filename[2] # entry.filename[2]

\* Manifest.Add replaces every version of the package, or with
\* --preserve-versions the same version only, and appends the entry.
Replaces(entry, f, preserve) ==
  IF preserve THEN SamePackage(f, entry) ELSE f.name = entry.name

Add(packages, entry, preserve) ==
  Append(KeepOnly(packages, {f \in ToSet(packages) : ~Replaces(entry, f, preserve)}),
         entry)

AddNext(acc, entry, preserve, failIfExists) ==
  [ok       |-> acc.ok /\ ~(failIfExists /\ Conflicts(acc.packages, entry)),
   packages |-> Add(acc.packages, entry, preserve)]

\* Entries added one after the other; ok turns FALSE at the first conflict.
AddAll(packages, entries, preserve, failIfExists) ==
  FoldLeft(LAMBDA acc, e : AddNext(acc, e, preserve, failIfExists),
           [ok |-> TRUE, packages |-> packages], entries)

\* Manifest.DeletePackage: what is left without the selected versions.
DeletePackage(packages, name, all, versions) ==
  KeepOnly(packages,
           {f \in ToSet(packages) :
              ~(f.name = name /\ (all \/ Spellings(f.version) \cap versions # {}))})

---------------------------------------------------------------------------
(* Release *)

Lists(manifest, indexName) ==
  manifest.component = indexName[1] /\ manifest.arch = indexName[2]

NewRelease(byHash) ==
  [components |-> <<>>, archs |-> <<>>, byHash |-> byHash,
   files |-> [n \in IndexNames |-> NoObject], date |-> NoObject]

AppendUnique(seq, x) == IF Contains(seq, x) THEN seq ELSE Append(seq, x)

AppendAllUnique(seq, xs) == FoldLeft(AppendUnique, seq, xs)

\* RecordArtifacts and Release.UpdateManifest for a sequence of manifests.
UpdateManifests(rel, manifests) ==
  LET Listed(n) == {i \in DOMAIN manifests : Lists(manifests[i], n)}
  IN  [components |-> AppendAllUnique(rel.components,
                        [i \in DOMAIN manifests |-> manifests[i].component]),
       archs  |-> AppendAllUnique(rel.archs,
                    [i \in DOMAIN manifests |-> manifests[i].arch]),
       byHash |-> rel.byHash,
       files  |-> [n \in IndexNames |->
                     IF Listed(n) = {} THEN rel.files[n]
                     ELSE manifests[CHOOSE i \in Listed(n) : TRUE].packages],
       date   |-> rel.date]

\* Mutant: an index that is listed counts as missing too.
EmptyManifests(rel) ==
  FlattenSeq([i \in DOMAIN rel.components |->
                [j \in DOMAIN StandardArchs |->
                   [component |-> rel.components[i], arch |-> StandardArchs[j],
                    packages |-> <<>>]]])

\* Release.MissingManifests: an empty manifest for each standard architecture
\* of the Release that a component lists no index for.
MissingManifests(rel) ==
  LET Candidates ==
        FlattenSeq([i \in DOMAIN rel.components |->
                      [j \in DOMAIN StandardArchs |->
                         [component |-> rel.components[i],
                          arch      |-> StandardArchs[j],
                          packages  |-> <<>>]]])
  IN  KeepOnly(Candidates,
               {m \in ToSet(Candidates) :
                  /\ Contains(rel.archs, m.arch)
                  /\ rel.files[<<m.component, m.arch, "Packages">>] = NoObject})

\* Mutant: the compressed indexes are forgotten.
PlainArtifacts(manifests) ==
  [i \in DOMAIN manifests |->
     LET m == manifests[i]
     IN  [name |-> <<m.component, m.arch, "Packages">>, body |-> m.packages]]

\* BuildArtifacts: the plain index and the compressed one of each manifest.
Artifacts(manifests) ==
  [i \in 1..(2 * Len(manifests)) |->
     LET m == manifests[(i + 1) \div 2]
     IN  [name |-> <<m.component, m.arch, Forms[2 - (i % 2)]>>,
          body |-> m.packages]]
=============================================================================
