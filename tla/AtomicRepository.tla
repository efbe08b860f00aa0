-------------------------- MODULE AtomicRepository --------------------------
(***************************************************************************)
(* A repository whose commands take effect at once: what the lock and the  *)
(* publication order are for. The state is what each codename lists; a     *)
(* command that succeeds replaces it, in one step, by its effect on what   *)
(* is listed at that moment, and a command that is refused changes         *)
(* nothing.                                                                *)
(***************************************************************************)
EXTENDS Commands

CONSTANTS Runs, Codenames, JobsOf

VARIABLES listed,     \* [codename -> [index name -> packages, or NoObject]]
          jobs,       \* [run -> its command]
          committed   \* the runs whose command has taken effect

atomicVars == <<listed, jobs, committed>>

Empty == [n \in IndexNames |-> NoObject]

Init ==
  /\ listed = [c \in Codenames |-> Empty]
  /\ \A p \in Runs : jobs[p] \in JobsOf[p]
  /\ committed = {}

ComponentsOf(files) == {n[1] : n \in {m \in IndexNames : files[m] # NoObject}}
ArchsOf(files) == {n[2] : n \in {m \in IndexNames : files[m] # NoObject}}

\* A command rewrites the manifests of its component that contents is defined
\* for. Every standard architecture of the codename then has an index in every
\* component.
Rewrite(j, files, contents) ==
  LET allComponents == ComponentsOf(files) \cup {j.component}
      allArchs == ArchsOf(files) \cup DOMAIN contents
  IN  [n \in IndexNames |->
         IF n[1] = j.component /\ n[2] \in DOMAIN contents
         THEN contents[n[2]]
         ELSE IF files[n] = NoObject /\ n[1] \in allComponents
                 /\ n[2] \in allArchs \cap ToSet(StandardArchs)
              THEN <<>>
              ELSE files[n]]

\* The architectures upload writes: the listed ones, those its packages go to,
\* and every standard one when the first package to reach an empty codename
\* is for all of them.
Written(j, files) ==
  ArchsOf(files) \cup {Placement(j, d) : d \in ToSet(j.debs)}
    \cup (IF ArchsOf(files) = {} /\ Placement(j, j.debs[1]) = "all"
          THEN ToSet(StandardArchs) ELSE {})

Manifest(j, files, a) ==
  [component |-> j.component, arch |-> a,
   packages |-> PackagesOf(files[<<j.component, a, "Packages">>])]

Uploaded(j, files, a) == Added(j, Manifest(j, files, a))

UploadEffect(j, files) ==
  Rewrite(j, files, [a \in Written(j, files) |-> Uploaded(j, files, a).packages])

UploadRefused(j, files) ==
  \/ \E d \in ToSet(j.debs) : Misplaced(j, d)
  \/ \E a \in Written(j, files) : ~Uploaded(j, files, a).ok

CopySource(j, all) ==
  Selected(j, PackagesOf(all[j.source[1]][<<j.source[2], j.arch, "Packages">>]))

Copied(j, all) ==
  AddAll(Manifest(j, all[j.codename], j.arch).packages, CopySource(j, all),
         j.preserve, j.failIfExists)

CopyEffect(j, all) ==
  Rewrite(j, all[j.codename], [a \in {j.arch} |-> Copied(j, all).packages])

CopyRefused(j, all) == CopySource(j, all) = <<>> \/ ~Copied(j, all).ok

Left(j, files, a) ==
  DeletePackage(Manifest(j, files, a).packages, j.name, j.all, j.versions)

\* The architectures in which delete finds something.
Shrinking(j, files) ==
  {a \in (IF j.arch = "all" THEN ArchsOf(files) ELSE {j.arch}) :
     Left(j, files, a) # Manifest(j, files, a).packages}

DeleteEffect(j, files) ==
  Rewrite(j, files, [a \in Shrinking(j, files) |-> Left(j, files, a)])

\* One command takes effect.
Commit(p) ==
  LET j == jobs[p]
      c == j.codename
  IN  /\ p \notin committed
      /\ committed' = committed \cup {p}
      /\ UNCHANGED jobs
      /\ \/ /\ j.op = "upload"
            /\ ~UploadRefused(j, listed[c])
            /\ listed' = [listed EXCEPT ![c] = UploadEffect(j, @)]
         \/ /\ j.op = "copy"
            /\ ~CopyRefused(j, listed)
            /\ listed' = [listed EXCEPT ![c] = CopyEffect(j, listed)]
         \/ /\ j.op = "delete"
            /\ Shrinking(j, listed[c]) # {}
            /\ listed' = [listed EXCEPT ![c] = DeleteEffect(j, @)]
         \/ /\ j.op \in {"clean", "list", "show", "exists"}
            /\ UNCHANGED listed

Next == \E p \in Runs : Commit(p)

Spec == Init /\ [][Next]_atomicVars
=============================================================================
