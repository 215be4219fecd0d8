------------------------------ MODULE MCCatkin ------------------------------
(* base and app are catkin packages, lib a plain CMake one between them;    *)
(* loop makes a circle with app, bare has no CMakeLists.txt, odd has a     *)
(* build type nobody knows.                                                *)
EXTENDS CatkinIsolated

MCRank == <<"base", "lib", "app", "loop", "bare", "odd">>
MCPackages == ToSet(MCRank)
MCOrder == [s \in SUBSET MCPackages |-> SelectSeq(MCRank, LAMBDA p : p \in s)]
MCBuildType == [p \in {"base", "app", "loop", "bare"} |-> "catkin"]
               @@ [lib |-> "cmake", odd |-> "other"]
MCDepends == [base |-> {}, lib |-> {"base"}, app |-> {"lib", "loop"},
              loop |-> {"app"}, bare |-> {"base"}, odd |-> {}]
MCTestDepends == [p \in MCPackages |-> IF p = "lib" THEN {"app"}
                                          ELSE IF p = "app" THEN {"base"} ELSE {}]
MCFormat2 == {"app"}

Plain == [install |-> FALSE, merge |-> FALSE, force |-> FALSE, build |-> {},
          continue |-> FALSE, only |-> {}, args |-> "A", override |-> FALSE]

MCOptions == {
    Plain,
    [Plain EXCEPT !.args = "B"],
    [Plain EXCEPT !.force = TRUE, !.args = "B"],
    [Plain EXCEPT !.merge = TRUE],
    [Plain EXCEPT !.install = TRUE, !.override = TRUE],
    [Plain EXCEPT !.build = {"lib"}],
    [Plain EXCEPT !.build = {"lib"}, !.continue = TRUE],
    [Plain EXCEPT !.only = {"app"}, !.args = "B"]}

MCWorkspaces == {{"base", "lib", "app"}, {"base", "app"}, {"base", "bare"},
                 {"app", "loop"}, {"odd"}, {}}

=============================================================================
