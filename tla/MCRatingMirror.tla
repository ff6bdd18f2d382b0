---- MODULE MCRatingMirror ----
EXTENDS RatingMirror
MCHome == [r \in Ratings |-> IF r = "r1" THEN From ELSE Into]
====
