--------------------------- MODULE MCAdvanceReview ---------------------------
\* AdvanceReview for TLC: two accounts, the tags of a sequence.
EXTENDS AdvanceReview

CONSTANTS a, b

TwoTags == <<a, b>>
=============================================================================
