------------------------------ MODULE Classify ------------------------------
(***************************************************************************)
(* ModuleClassifier of pylzy/lzy/env/explorer/classify.py: the pure        *)
(* algorithm that sorts the modules a workflow references into the         *)
(* packages shipped to the remote side.                                    *)
(*                                                                         *)
(* A module is a record:                                                   *)
(*   name    - module.__name__ split at '.', a sequence of parts           *)
(*   package - module.__package__ split at '.', <<>> when None or ''       *)
(*   file    - module.__file__ split at os.sep, <<>> when None or ''       *)
(*             (an absolute path starts with the empty part)               *)
(*   binary  - its __loader__ is an ExtensionFileLoader                    *)
(*   dist    - files_to_distributions.get(__file__), or NoDist             *)
(* A distribution d is given by directUrl[d], what read_text and          *)
(* json.loads make of its direct_url.json, location[d], the directory its  *)
(* dist-info lies in (locate_file('')), and files[d], distribution.files:  *)
(* its RECORD entries relative to location[d], each split at '/'.           *)
(* onPypi[d] is _check_distribution_at_pypi for d's name and version.      *)
(***************************************************************************)
EXTENDS Naturals, Sequences, FiniteSetsExt

CONSTANTS
    StdNames,   \* get_stdlib_module_names() \cup get_builtin_module_names()
    NoDist,     \* no distribution owns the file
    LocalFiles  \* urls check_url_is_local_file accepts: file:// urls of
                \* paths that exist (lzy.utils, not in this repository)

Top(m) == m.name[1]

\* A package of the manifest (BasePackage), one record shape for every kind.
Package(kind, name, paths, binary, modules) ==
    [kind |-> kind, name |-> name, paths |-> paths, binary |-> binary,
     modules |-> modules]

(***************************************************************************)
(* Plausible faults of the code below, each used by one mutant run.        *)
(***************************************************************************)
\* _get_top_level_path without the `level -= 1` for a non-package module.
TopLevelPathNoAdjust(m) ==
    IF m.package = <<>> THEN m.file
    ELSE SubSeq(m.file, 1, Len(m.file) - Len(m.name))

\* _classify_modules taking every distribution, editable or not.
ClassifyModuleNoEditableCheck(m, acc, editable) ==
    IF m.file = <<>> \/ Top(m) \in StdNames THEN acc
    ELSE IF m.dist # NoDist
    THEN [acc EXCEPT !.distributions = @ \cup {m.dist},
                     !.binary = IF m.binary THEN @ \cup {m.dist} ELSE @]
    ELSE [acc EXCEPT !.without = @ \cup {m}]

PyDropLast(s, k) == IF k = 0 THEN <<>> ELSE SubSeq(s, 1, Len(s) - k)

TopLevelPath(m) ==
    IF m.package = <<>> THEN m.file
    ELSE LET level == Len(m.name) - (IF m.name # m.package THEN 1 ELSE 0)
         IN  PyDropLast(m.file, level)

\* `if not path`: os.sep.join gives '' for no parts and for one empty part.
NoPath(p) == p \in {<<>>, <<"">>}

(***************************************************************************)
(* _check_distribution_is_editable (lines 171-193): directUrl.file is      *)
(* whether direct_url.json has text, directUrl.url its 'url', "" if none.  *)
(***************************************************************************)
IsEditable(directUrl) ==
    /\ directUrl.file
    /\ directUrl.url # ""
    /\ directUrl.url \in LocalFiles

\* _get_distribution_paths (lines 211-223): locate_file('') / parts[0] of
\* every RECORD entry; pathlib does not resolve a '..' part.
DistributionPaths(location, files) ==
    {location \o <<f[1]>> : f \in files}

(***************************************************************************)
(* _classify_modules (lines 53-86): one step of the loop over modules,     *)
(* accumulating distributions, binary_distributions and                    *)
(* modules_without_distribution.                                           *)
(***************************************************************************)
ClassifyModule(m, acc, editable) ==
    IF m.file = <<>> \/ Top(m) \in StdNames THEN acc
    ELSE IF m.dist # NoDist /\ ~editable[m.dist]
    THEN [acc EXCEPT !.distributions = @ \cup {m.dist},
                     !.binary = IF m.binary THEN @ \cup {m.dist} ELSE @]
    ELSE [acc EXCEPT !.without = @ \cup {m}]

ClassifyModules(mods, editable) ==
    FoldSet(LAMBDA m, acc : ClassifyModule(m, acc, editable),
            [distributions |-> {}, binary |-> {}, without |-> {}], mods)

\* _classify_distributions (lines 88-120).
ClassifyDistributions(acc, onPypi, location, files) ==
    {IF onPypi[d] THEN Package("pypi", d, {}, FALSE, {})
     ELSE Package("localdist", d, DistributionPaths(location[d], files[d]),
                  d \in acc.binary, {})
     : d \in acc.distributions}

\* _classify_modules_without_distributions (lines 122-162): modules with no
\* top-level path are collected into one BrokenModules; the others are
\* grouped by top-level name into LocalPackages.
ClassifyModulesWithoutDistributions(acc) ==
    LET located == {m \in acc.without : ~NoPath(TopLevelPath(m))}
        broken == acc.without \ located
    IN  (IF broken = {} THEN {}
         ELSE {Package("broken", "packages_with_bad_path", {}, FALSE,
                       {<<m.name, m.file>> : m \in broken})})
        \cup
        {Package("localpkg", t,
                 {TopLevelPath(m) : m \in {x \in located : Top(x) = t}},
                 \E m \in located : Top(m) = t /\ m.binary, {})
         : t \in {Top(m) : m \in located}}

\* ModuleClassifier.__call__ (lines 42-51); _classify_modules asks
\* _check_distribution_is_editable of each module's distribution.
Classify(mods, directUrl, onPypi, location, files) ==
    LET editable == [d \in DOMAIN directUrl |-> IsEditable(directUrl[d])]
        acc == ClassifyModules(mods, editable)
    IN  ClassifyDistributions(acc, onPypi, location, files)
        \cup ClassifyModulesWithoutDistributions(acc)

=============================================================================
