--------------------------- MODULE AudioPlayerMC ---------------------------
EXTENDS AudioPlayer

Shape(cached, reads, late, loops) == [cached |-> cached, reads |-> reads, late |-> late, loops |-> loops]

\* A file that is decoded while it plays, told its end only after its last frame, and twice a cached one.
MCShapes == {Shape(FALSE, 1, TRUE, 1), Shape(TRUE, 1, FALSE, 2)}

\* A range that turns out to hold no frame, played for ever.
MCEmptyShapes == {Shape(FALSE, 0, TRUE, -1)}

FairSpec == PlayerSpec /\ PlayerFairness
=============================================================================
