--------------------------- MODULE MCRoadWorkflow ---------------------------
(***************************************************************************)
(* Drives of up to four samples beside a street with a corner, near it,    *)
(* far from it or malformed; recordings with missing files; and road files *)
(* of up to two ways, with an unknown ref, a path that is not kept, a way  *)
(* without a class, a tag outside of a way and a way of one node.          *)
(***************************************************************************)
EXTENDS RoadWorkflow

Node(id, at) == [kind |-> "node", id |-> id, at |-> at]
Ref(id) == [kind |-> "nd", ref |-> id]
Tag(k, v) == [kind |-> "tag", k |-> k, v |-> v]
StreetWay(refs, class, more) ==
  << [kind |-> "way"] >> \o [i \in DOMAIN refs |-> Ref(refs[i])] \o << Tag("highway", class) >> \o more
    \o << [kind |-> "/way"] >>

\* A corner 1-2-3, and 4 beyond 2; 9 is in no file.
Nodes == << Node(1, << 4, 4 >>), Node(2, << 6, 4 >>), Node(3, << 6, 6 >>), Node(4, << 8, 4 >>) >>
RefLists == { << 1, 2 >>, << 1, 2, 3 >>, << 3, 2, 1 >>, << 1, 2, 4 >>, << 4, 2 >>, << 1, 9, 2, 3 >>, << 2 >> }
Relation == << Tag("highway", "path") >>

\* A way that says neither its class nor, maybe, its speed.
Nameless(refs, more) == << [kind |-> "way"] >> \o [i \in DOMAIN refs |-> Ref(refs[i])] \o more \o << [kind |-> "/way"] >>

\* Away from 1 and back beyond it, which is found before the short way is.
Detour == Nodes \o << Node(5, << 3, 4 >>) >> \o StreetWay(<< 1, 5, 4 >>, "street", << >>)
            \o StreetWay(<< 1, 2, 4 >>, "street", << >>)

MCRoadFiles ==
  { Nodes \o StreetWay(refs, "street", << >>) \o Relation : refs \in RefLists }
  \cup { Nodes \o StreetWay(one, "street", << Tag("maxspeed", 30) >>) \o StreetWay(two, "street", << >>) :
           one \in { << 1, 2 >>, << 1, 2, 3 >> }, two \in { << 3, 2, 1 >>, << 1, 2, 4 >>, << 4, 2 >> } }
  \cup { Nodes \o StreetWay(<< 1, 2 >>, "street", << Tag("maxspeed", 30) >>) \o StreetWay(two, "path", << >>) :
           two \in { << 1, 2, 3 >>, << 4, 2 >> } }
  \cup { Nodes \o StreetWay(<< 1, 2 >>, "street", << Tag("maxspeed", 30) >>) \o Nameless(two, more) :
           two \in { << 2, 3 >>, << 3, 2, 4 >> }, more \in { << >>, << Tag("maxspeed", 70) >> } }
  \cup { << >>, Detour }

MCDefaultSpeed == [c \in {"street"} |-> 50]

\* AtStreet the first street, beside the corner, beyond it, and far away.
AtStreet == << 4, 5 >>
Near == << 6, 5 >>
Beyond == << 8, 5 >>
FarOff == << 9, 9 >>
MCMalformed == << >>

Directory(s) == [n \in 0..Len(s) - 1 |-> s[n + 1]]
Samples(n, places) == UNION { [1..k -> places] : k \in 0..n }
Towards(n, places) == { s \in [1..n -> places] : s[1] # Beyond /\ s[1] # FarOff }
WithoutFile(dir, n) == [k \in DOMAIN dir \ {n} |-> dir[k]]
Scans == { Directory(s) : s \in UNION { [1..k -> {"ok", "mismatch", "cut"}] : k \in 1..3 } }

\* There and back, so that a direction has groups that were not met in its order.
Turning == { << Near, Beyond, AtStreet, Near >>, << Near, Beyond, AtStreet, Near, Beyond >> }

MCOxtsDirectories ==
  { Directory(s) : s \in Samples(2, { AtStreet, Near, Beyond, FarOff, MCMalformed })
                          \cup Towards(3, { AtStreet, Near, Beyond }) \cup Towards(3, { AtStreet, MCMalformed })
                          \cup Towards(3, { AtStreet, FarOff }) \cup Towards(4, { AtStreet, FarOff }) }
  \cup { Directory(s) : s \in Turning \cup { << Near, FarOff, Beyond >> } }
  \cup { WithoutFile(Directory(s), 1) : s \in [1..3 -> { AtStreet, MCMalformed }] \cup { << AtStreet, AtStreet, Near >> } }
MCVelodyneDirectories == Scans \cup { WithoutFile(v, 1) : v \in Scans }
=============================================================================
