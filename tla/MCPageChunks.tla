---------------------------- MODULE MCPageChunks ----------------------------
(* Documents at the limits of a page; spacings with and without a half pixel. *)
EXTENDS PageChunks

CONSTANTS flute, fluteCue, horn, all

MCNames == {flute, fluteCue, horn}
MCCues == {fluteCue}
MCSpacings == {0, 1, 3, 46}

Line(page, top, bottom, tags) == [page |-> page, top |-> top, bottom |-> bottom, tags |-> tags]
Portrait == [p \in 1..2 |-> 3300]
Landscape == [p \in 1..2 |-> 2550]

MCDocuments == {
  \* Three lines that fill a page exactly at the usual spacing, and one on it too many.
  [orientation |-> "portrait", px |-> Portrait, combined |-> {},
   rows |-> <<Line(1, 0, 170, {flute}), Line(1, 170, 550, {flute}), Line(2, 0, 300, {flute}),
              Line(2, 300, 314, {flute})>>],
  \* A line taller than the paper, one without height, and cues.
  [orientation |-> "portrait", px |-> Portrait, combined |-> {{flute, fluteCue}},
   rows |-> <<Line(1, 0, 1000, {flute}), Line(2, 0, 363, {fluteCue}), Line(2, 363, 363, {all}),
              Line(2, 363, 862, {flute, fluteCue})>>],
  \* Landscape, pages of two heights, lines for all and a combined part.
  [orientation |-> "landscape", px |-> [Landscape EXCEPT ![2] = 2549], combined |-> {{flute, horn}},
   rows |-> <<Line(1, 0, 400, {flute}), Line(1, 400, 751, {all}), Line(2, 10, 386, {horn, flute}),
              Line(2, 386, 1000, {horn})>>],
  \* Two pages where one fits if the spacing is rounded down; a page that is gone.
  [orientation |-> "portrait", px |-> Portrait, combined |-> {},
   rows |-> <<Line(1, 0, 363, {flute}), Line(2, 0, 499, {flute})>>],
  \* Lines that fill a page but for one of a single pixel.
  [orientation |-> "portrait", px |-> Portrait, combined |-> {},
   rows |-> <<Line(1, 0, 363, {flute}), Line(1, 363, 484, {flute}), Line(2, 0, 364, {flute}),
              Line(2, 364, 364, {flute})>>],
  [orientation |-> "portrait", px |-> Portrait, combined |-> {{flute, horn}},
   rows |-> <<Line(1, 0, 363, {flute}), Line(3, 0, 499, {horn})>>] }
============================================================================
