----------------------------- MODULE MCClassify -----------------------------
(***************************************************************************)
(* Checks Classify on every input built from a small universe of module    *)
(* layouts: up to two modules with distinct names, each a top-level        *)
(* module, a package or a submodule of a package, found under one of two   *)
(* roots (so a top-level name can span two directories, as namespace       *)
(* packages do), with or without a file, a distribution and a binary       *)
(* loader, and one distribution installed from the index, as an editable  *)
(* install, by conda (whose repacking leaves a direct_url.json naming its  *)
(* build directory) or from a VCS url, that is or is not on the package    *)
(* index, and whose RECORD lists its modules' files and possibly its       *)
(* dist-info and a console script.  The state is the input; it never     *)
(* changes.                                                               *)
(***************************************************************************)
EXTENDS Classify, FiniteSets, SequencesExt

Tops == {"a", "os"}
Subs == {"", "m"}          \* "" : the top-level module or package itself
Roots == {<<"", "site">>, <<"", "home", "src">>}
Dists == {"d1"}

MCStdNames == {"os"}
MCNoDist == "none"
MCLocalFiles == {"file:///home/src/d1"}

Site == <<"", "site">>       \* the site-packages directory d1 is installed in
Installs == {"index", "editable", "conda", "vcs"}

\* What pip or conda writes into direct_url.json for each way of installing.
DirectUrlOf(install) ==
    CASE install = "index"    -> [file |-> FALSE, url |-> ""]
      [] install = "editable" -> [file |-> TRUE, url |-> "file:///home/src/d1"]
      [] install = "conda"    -> [file |-> TRUE, url |-> "file:///work/ci/d1"]
      [] install = "vcs"      -> [file |-> TRUE, url |-> "git+https://host/d1"]

\* RECORD entries besides the modules' files: the dist-info, and a console
\* script, installed in <prefix>/bin next to site-packages.
Extras == {<<"d1-1.0.dist-info", "RECORD">>, <<"..", "bin", "d1">>}

\* Where a module lives and what it is; Python derives its attributes.
Layouts == [top : Tops, sub : Subs, kind : {"module", "package"},
            root : Roots, hasFile : BOOLEAN, dist : Dists \cup {MCNoDist},
            binary : BOOLEAN]

DottedPath(l) == IF l.sub = "" THEN <<l.top>> ELSE <<l.top, l.sub>>

\* The module object the import system makes for a layout.
ModuleOf(l) ==
    LET p == DottedPath(l) IN
    [name |-> p,
     package |-> IF l.kind = "package" THEN p ELSE Front(p),
     file |-> IF ~l.hasFile THEN <<>>
              ELSE IF l.kind = "package" THEN l.root \o p \o <<"__init__.py">>
              ELSE l.root \o Front(p) \o <<Last(p) \o ".py">>,
     binary |-> l.binary,
     dist |-> l.dist]

\* At most two modules, with distinct names as in sys.modules.
Inputs ==
    {{}} \cup {L \in {{x, y} : x, y \in Layouts} :
                \A x, y \in L : x # y => DottedPath(x) # DottedPath(y)}

VARIABLES layouts, install, onPypi, extras

vars == <<layouts, install, onPypi, extras>>

Init ==
    /\ layouts \in Inputs
    /\ install \in [Dists -> Installs]
    /\ onPypi \in [Dists -> BOOLEAN]
    /\ extras \in [Dists -> SUBSET Extras]

\* A file's RECORD entry: its path relative to site-packages.
RecordEntry(file) ==
    IF IsPrefix(Site, file) THEN SubSeq(file, Len(Site) + 1, Len(file))
    ELSE <<"..">> \o Tail(file)

Files == [d \in Dists |->
            {RecordEntry(ModuleOf(l).file) : l \in {x \in layouts : x.dist = d /\ x.hasFile}}
            \cup extras[d]]

Manifest ==
    Classify({ModuleOf(l) : l \in layouts}, [d \in Dists |-> DirectUrlOf(install[d])],
             onPypi, [d \in Dists |-> Site], Files)

Next == UNCHANGED vars

Spec == Init /\ [][Next]_vars

(***************************************************************************)
(* The reference: spec 4.6 and 8, stated over the layouts.                 *)
(***************************************************************************)

\* The directory holding a module's top-level package, or the file of a
\* top-level module.
TruePath(l) ==
    IF l.kind = "module" /\ l.sub = "" THEN ModuleOf(l).file
    ELSE l.root \o <<l.top>>

Reference ==
    LET shipped == {l \in layouts : l.hasFile /\ l.top \notin MCStdNames}
        viaDist == {l \in shipped : l.dist # MCNoDist /\ install[l.dist] # "editable"}
        local == shipped \ viaDist
        dists == {l.dist : l \in viaDist}
    IN  {Package("pypi", d, {}, FALSE, {}) : d \in {x \in dists : onPypi[x]}}
        \cup
        {Package("localdist", d, {}, \E l \in viaDist : l.dist = d /\ l.binary, {})
         : d \in {x \in dists : ~onPypi[x]}}
        \cup
        {Package("localpkg", t, {TruePath(l) : l \in {x \in local : x.top = t}},
                 \E l \in local : l.top = t /\ l.binary, {})
         : t \in {l.top : l \in local}}

TopLevelPathLocatesPackage ==
    \A l \in layouts : l.hasFile => TopLevelPath(ModuleOf(l)) = TruePath(l)

\* A path with its '..' parts resolved, as the file system resolves it.
Resolved(path) ==
    FoldLeft(LAMBDA acc, part : IF part # ".." THEN Append(acc, part)
                                ELSE IF Len(acc) > 1 THEN Front(acc) ELSE acc,
             <<>>, path)

=============================================================================
