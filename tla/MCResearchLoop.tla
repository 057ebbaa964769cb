---------------------------- MODULE MCResearchLoop ----------------------------
(* Instances of ResearchLoop for TLC: an official page and a blog of one   *)
(* event with two fingerprints of one meaning, and a forum that tells of   *)
(* the official page's event under a similar title on another day.         *)
EXTENDS ResearchLoop, TLC

CONSTANTS gov, blog, forum, a, b, d, art, hike

ThreePages == {gov, blog, forum}
ThreePrints == {a, b, d}
PagePrint == [p \in Pages |-> (gov :> a @@ blog :> b @@ forum :> d)[p]]
PageTrust == [p \in Pages |-> IF p = gov THEN 1 ELSE 4]
PrintDay == a :> 1 @@ b :> 1 @@ d :> 2
Titled == {<<a, d>>, <<d, a>>}
Meant == {<<a, b>>, <<b, a>>}
TwoGoals == <<art, hike>>
Plans == {<<>>,
          <<[tool |-> "map_places", goals |-> {hike}]>>}
BothTools == {"web_search", "map_places"}
DatedPages == Pages \ {blog}

\* Pages of one fingerprint, for what is said of twins in section 5 of README.
TwoPages == {gov, blog}
TwoBlogs == {blog, forum}
OnePrint == [p \in Pages |-> a]
=============================================================================
