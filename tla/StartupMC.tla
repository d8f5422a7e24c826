----------------------------- MODULE StartupMC ------------------------------
(***************************************************************************)
(* Two nodes and every kind of mistake; tools and skills that clash; the   *)
(* paths of a skill package, of a directory of them, of one reached        *)
(* through a link, of one with a link to the outside and of a blank.       *)
(***************************************************************************)
EXTENDS Startup, TLC

CONSTANTS a, b, s1, s2, s3, s4, k1, k2, k3, k4, p1

MCLinks == {Link(a, b), Link(b, b), Link(a, Empty)}
MCTokenOf == (s1 :> k1) @@ (s2 :> k2) @@ (s3 :> k3) @@ (s4 :> k4)
MCTools == {[name |-> "search", body |-> 1], [name |-> "search", body |-> 2], [name |-> Empty, body |-> 1]}
MCSources == {<<>>, <<"file">>, <<"given">>, <<"blank">>, <<"file", "given">>}

File(path) == [path |-> path, type |-> "file", to |-> "file", place |-> "inside"]
Symlink(path, to, place) == [path |-> path, type |-> "link", to |-> to, place |-> place]

Package(name, linked, entries) ==
  [frontmatter |-> TRUE, name |-> name, description |-> TRUE, ui |-> TRUE, linked |-> linked,
   entries |-> entries]

Dir(package) == [dir |-> TRUE, skill |-> "readable", package |-> package, children |-> <<>>]
NoPackage == Package("", FALSE, {})
Other(isDir, children) ==
  [dir |-> isDir, skill |-> "none", package |-> NoPackage, children |-> children]

Guide == Package("guide", FALSE, {File("a.md"), Symlink("b.md", "file", "inside"), Symlink("c", "dir", "inside")})
Linked == Package("linked", TRUE, {File("a.md")})
Leak == Package("leak", FALSE, {File("a.md"), Symlink("key", "file", "outside")})

MCDisk ==
  ("guide" :> Dir(Guide)) @@ ("linked" :> Dir(Linked)) @@ ("leak" :> Dir(Leak)) @@
  ("all" :> Other(TRUE, <<Dir(Guide), Other(TRUE, <<>>), Other(FALSE, <<>>)>>))
MCPackages == {LoadDir(Guide), [id |-> "mine", resources |-> {}], [id |-> "", resources |-> {}]}
=============================================================================
