\* The offset against the gap of a picture, and against the largest region of any.
CONSTANT
  Pictures <- SomePictures

SPECIFICATION Spec

INVARIANTS
  ResultIsLargestBelowTop
  GapIsFound
