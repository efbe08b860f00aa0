---------------------------- MODULE MCRepository ----------------------------
(***************************************************************************)
(* Scenarios of Repository for TLC: which commands the runs of an instance *)
(* may be, over a few packages, one or two codenames and two               *)
(* architectures.                                                          *)
(***************************************************************************)
EXTENDS RepositoryProperties, TLC

CONSTANTS r1, r2, r3, r4

Standard == <<"amd64", "arm64">>
OneStandard == <<"amd64">>

OneArch == {"amd64"}
TwoArchs == {"amd64", "arm64"}
OneAndAll == {"amd64", "all"}
WithAll == {"amd64", "arm64", "all"}

Deb(name, version, arch, file, sum) ==
  [name |-> name, version |-> <<"", version, "1">>, arch |-> arch,
   file |-> file, sum |-> sum]

a1 == Deb("a", "1", "amd64", "a_1.deb", "a1")
a2 == Deb("a", "2", "amd64", "a_2.deb", "a2")
rebuilt == Deb("a", "1", "amd64", "a_1.deb", "a1'")
renamed == Deb("a", "1", "amd64", "a_1_r.deb", "a1")
b1 == Deb("b", "1", "amd64", "b_1.deb", "b1")
d1 == Deb("d", "1", "all", "d_1.deb", "d1")

\* A command with every option at its default, except that --lock and
\* --fail-if-exists are given.
Default ==
  [op |-> "upload", codename |-> "noble", component |-> "main", arch |-> "",
   debs |-> <<>>, preserve |-> FALSE, failIfExists |-> TRUE,
   skipUpload |-> FALSE, byHash |-> "unset", sign |-> FALSE, lock |-> TRUE,
   name |-> "", all |-> TRUE, versions |-> {}, source |-> <<"noble", "main">>,
   fix |-> FALSE]

Upload(debs) == [Default EXCEPT !.debs = debs]
Delete(name, arch) == [Default EXCEPT !.op = "delete", !.name = name, !.arch = arch]
Copy(name, codename, component) ==
  [Default EXCEPT !.op = "copy", !.name = name, !.arch = "amd64",
                  !.codename = codename, !.component = component]
\* verify has no lock flags.
Verify(fix) == [Default EXCEPT !.op = "verify", !.fix = fix, !.lock = FALSE]
Clean == [Default EXCEPT !.op = "clean"]
\* Nor have the queries.
List(arch) == [Default EXCEPT !.op = "list", !.arch = arch, !.lock = FALSE]
Ask(op, name, v, arch) ==
  [Default EXCEPT !.op = op, !.name = name, !.all = FALSE,
                  !.versions = {<<"", v, "1">>}, !.arch = arch, !.lock = FALSE]

In(component, j) == [j EXCEPT !.component = component]
Signed(j) == [j EXCEPT !.sign = TRUE]
ByHash(j) == [j EXCEPT !.byHash = "on"]
NoLock(j) == [j EXCEPT !.lock = FALSE]
Preserving(j) == [j EXCEPT !.preserve = TRUE]
PlacedIn(arch, j) == [j EXCEPT !.arch = arch]
OnlyVersion(v, j) == [j EXCEPT !.all = FALSE, !.versions = {<<"", v, "">>}]
SkipUpload(j) == [j EXCEPT !.skipUpload = TRUE]

---------------------------------------------------------------------------
(* Scenarios: [run -> the commands it may be], and what runs first. *)

Anytime == [p \in Runs |-> {}]

\* Commands that follow the rules: locked, and uploads that fail if they exist.
LockedJobs ==
  r1 :> {Upload(<<a1>>), Signed(Upload(<<a1, b1>>)), Upload(<<d1>>),
         Upload(<<a1, d1>>)} @@
  r2 :> {Upload(<<a2>>), Preserving(Upload(<<a2>>)), Delete("a", "all"),
         In("contrib", Signed(Upload(<<b1>>))), PlacedIn("arm64", Upload(<<d1>>))} @@
  r3 :> {Clean, Upload(<<renamed>>), Preserving(Copy("a", "noble", "contrib")),
         OnlyVersion("1", Delete("a", "amd64")), PlacedIn("arm64", Upload(<<a1>>))}

\* The same with everything that can go wrong. Two contend from the start; a
\* third command or a query joins once the first one has ended.
FaultyJobs ==
  r1 :> {Upload(<<a1, d1>>)} @@
  r2 :> {Signed(Upload(<<a2>>)), Delete("a", "amd64")} @@
  r3 :> {Clean, Signed(Upload(<<b1>>)), Upload(<<rebuilt>>),
         List(""), Ask("show", "d", "1", "all"), Ask("exists", "d", "1", "all")}

FaultyAfter == r1 :> {} @@ r2 :> {} @@ r3 :> {r1}

\* Commands are given --by-hash, save in another component, and none takes the
\* lock. Two interleave call by call; a third one follows on what they left.
UnlockedJobs ==
  r1 :> {NoLock(ByHash(Upload(<<a1>>))), NoLock(ByHash(Signed(Upload(<<d1, a1>>))))} @@
  r2 :> {NoLock(ByHash(Upload(<<a2, b1>>))), NoLock(ByHash(Delete("a", "all"))),
         NoLock(ByHash(Copy("a", "noble", "contrib"))),
         NoLock(ByHash(Signed(Upload(<<rebuilt>>)))), ByHash(Signed(Verify(TRUE))),
         NoLock(In("contrib", Upload(<<b1>>)))} @@
  r3 :> {NoLock(ByHash(Signed(Upload(<<rebuilt>>)))),
         NoLock(ByHash(Signed(Delete("a", "amd64"))))}

UnlockedAfter == r1 :> {} @@ r2 :> {} @@ r3 :> {r1, r2}

\* Commands that compete for the lock while runs die.
CompetingJobs ==
  r1 :> {Upload(<<a1>>)} @@
  r2 :> {Delete("a", "amd64"), Clean} @@
  r3 :> {Signed(Upload(<<b1>>))}

\* One upload whose signing fails.
UnsignedJobs == r1 :> {Signed(Upload(<<a1>>))}

\* verify repairs an index while an upload holds the lock. The first upload
\* leaves an entry without a body behind, which verify rightly takes out; the
\* second one stores the body of its package, which nothing may take out.
RepairJobs ==
  r1 :> {SkipUpload(Upload(<<a1>>))} @@
  r2 :> {Upload(<<b1>>)} @@
  r3 :> {Verify(TRUE)}

RepairAfter == r1 :> {} @@ r2 :> {r1} @@ r3 :> {r1}

\* clean in the source codename of a copy, everything under its lock.
CrossJobs ==
  r1 :> {Upload(<<a1>>)} @@
  r2 :> {Copy("a", "jammy", "main")} @@
  r3 :> {Delete("a", "amd64")} @@
  r4 :> {Clean}

CrossAfter == r1 :> {} @@ r2 :> {r1} @@ r3 :> {r1} @@ r4 :> {r3}
=============================================================================
