--------------------------- MODULE MCSegmentSave ---------------------------
(* Three requests of a partset with two pages and two tags. *)
EXTENDS SegmentSave

CONSTANTS s1, s2, s3, violin, oboe, untagged

Both == {violin, oboe}
MCAllTags == Both \cup {untagged}
MCDocuments == {<<{violin}, Both>>, <<{}, {}>>}

SaveOf(tags) == [kind |-> "save", tags |-> tags]

\* Two tags on one page or both, a combination of the two parts, and a generation.
Asks == << SaveOf(1 :> {violin}), SaveOf(2 :> Both \cup {untagged}),
           SaveOf(1 :> {} @@ 2 :> {oboe}), SaveOf(1 :> Both @@ 2 :> {}),
           [kind |-> "add", row |-> Both], [kind |-> "remove", row |-> Both], [kind |-> "generate"] >>
MCRequests == {Asks[i] : i \in DOMAIN Asks}
Place(s)   == CHOOSE i \in DOMAIN Asks : Asks[i] = request[s]

\* The sessions are alike: one order of each choice of requests is enough.
MCInit == Init /\ Place(s1) <= Place(s2) /\ Place(s2) <= Place(s3)
MCSpec == MCInit /\ [][Next]_vars /\ \A s \in Sessions : WF_vars(Step(s))
============================================================================
