----------------------------- MODULE MCRosmake ------------------------------
(* Four packages for TLC: top needs left and right, left needs base; the   *)
(* command line names top before left, and again after it.                *)
EXTENDS Rosmake

CONSTANTS base, left, right, top

MCDeps1 == (base :> <<>> @@ left :> <<base>> @@ right :> <<>> @@ top :> <<left, right>>)
MCReach == (base :> {} @@ left :> {base} @@ right :> {} @@ top :> {left, base, right})
MCSpecified == <<top, left, top>>
Plain == [missing |-> {}, blacklist |-> {}, noMakefile |-> {}]
MCTrees == {Plain, [Plain EXCEPT !.missing = {base}], [Plain EXCEPT !.blacklist = {right}],
            [Plain EXCEPT !.noMakefile = {left}]}
Default == NoOption
MCOptions ==
  {Default, [Default EXCEPT !.mode = "best"], [Default EXCEPT !.mode = "everything"],
   [Default EXCEPT !.preClean = TRUE, !.specifiedOnly = TRUE],
   [Default EXCEPT !.build = FALSE, !.test = TRUE, !.markInstalled = TRUE],
   [Default EXCEPT !.test = TRUE, !.markInstalled = TRUE],
   [Default EXCEPT !.markInstalled = TRUE, !.skipBlacklist = TRUE]}
=============================================================================
