------------------------------- MODULE Slider -------------------------------
(***************************************************************************)
(* MatchSliderOffset of internal/captcha/slider.go: where in a captcha     *)
(* picture is the gap that the slider piece fits into? For each of the     *)
(* five most frequent colours it looks row by row for stretches of columns *)
(* that have that colour for some height, and takes the left edge of the   *)
(* largest one that is nearly square.                                      *)
(*                                                                         *)
(* A picture has one channel. Colours that are equally frequent come in    *)
(* any order: they are taken from a Go map and sorted by a sort that is    *)
(* not stable. Images are decoded by the standard library, which is only   *)
(* modelled by whether it succeeds.                                        *)
(***************************************************************************)
EXTENDS Integers, FiniteSets, Sequences

CONSTANT Pictures  \* [sw, sh: of the piece; pixel: the big image, by row; gap]

ASSUME PicturesAssumption ==
  \A p \in Pictures :
    /\ p.sw \in Nat \ {0} /\ p.sh \in Nat \ {0}
    /\ p.gap \in [x : Nat, y : Nat, w : Nat, h : Nat]
    /\ p.pixel \in Seq(Seq(Nat))
    /\ \A j \in 1..Len(p.pixel) : Len(p.pixel[j]) = Len(p.pixel[1])

VARIABLES
  picture,
  at,      \* where MatchSliderOffset is
  grid,    \* colorID, by row
  tried,   \* the colours of topColors that have been scanned
  color,   \* the one that is being scanned
  row,     \* and the row of the scan
  best,    \* bestArea and bestX
  result   \* what is returned

vars == <<picture, at, grid, tried, color, row, best, result>>

NoGap == [x |-> 0, y |-> 0, w |-> 0, h |-> 0]
NoColor == -1

Init ==
  /\ picture \in Pictures
  /\ at = "decode" /\ grid = <<>> /\ tried = {} /\ color = NoColor /\ row = 0
  /\ best = [area |-> 0, x |-> 0] /\ result = "none"

----------------------------------------------------------------------------
\* Shades are quantised and every second pixel of every second row is kept.
Quantize(v) == (v \div 4) * 4

Downsampled(pixel) ==
  [y \in 0..(Len(pixel) \div 2 - 1) |->
    [x \in 0..(Len(pixel[1]) \div 2 - 1) |-> Quantize(pixel[2 * y + 1][2 * x + 1])]]

Rows == DOMAIN grid
Columns == IF Rows = {} THEN {} ELSE DOMAIN grid[0]
Colors == {grid[y][x] : y \in Rows, x \in Columns}
Count(c) == Cardinality({p \in Rows \X Columns : grid[p[1]][p[2]] = c})

MinSide ==
  LET side == IF picture.sw < picture.sh THEN picture.sw ELSE picture.sh IN
  IF side \div 4 < 1 THEN 1 ELSE side \div 4

DecodeFails ==
  /\ at = "decode"
  /\ at' = "done" /\ result' = "error"
  /\ UNCHANGED <<picture, grid, tried, color, row, best>>

Decode ==
  /\ at = "decode"
  /\ grid' = Downsampled(picture.pixel)
  /\ at' = "colors"
  /\ UNCHANGED <<picture, tried, color, row, best, result>>

\* topNColors: the next most frequent colour.
NextColor ==
  /\ at = "colors" /\ Cardinality(tried) < 5
  /\ \E c \in Colors \ tried :
       /\ \A d \in Colors \ tried : Count(d) <= Count(c)
       /\ color' = c
  /\ row' = MinSide
  /\ at' = "rows"
  /\ UNCHANGED <<picture, grid, tried, best, result>>

----------------------------------------------------------------------------
\* colRun: how far a column has the colour, upwards from row y.
ColRun ==
  LET run[y \in Rows] ==
        LET above == IF y = 0 THEN [x \in Columns |-> 0] ELSE run[y - 1]
        IN [x \in Columns |-> IF grid[y][x] = color THEN above[x] + 1 ELSE 0]
  IN run

\* The loop of findTrueRuns: the stretches that have ended before a column, and
\* whether and where another one has begun.
RunsNext(s, x, isHigh) ==
  IF isHigh /\ ~s.in THEN [segs |-> s.segs, in |-> TRUE, start |-> x]
  ELSE IF ~isHigh /\ s.in
       THEN [segs |-> Append(s.segs, [start |-> s.start, end |-> x]), in |-> FALSE, start |-> s.start]
  ELSE s

Width(high) == Cardinality(DOMAIN high)

RunsSeen(high) ==
  LET seen[n \in 0..Width(high)] ==
        IF n = 0 THEN [segs |-> <<>>, in |-> FALSE, start |-> 0]
        ELSE RunsNext(seen[n - 1], n - 1, high[n - 1])
  IN seen[Width(high)]

\* Faulty variant: a run that reaches the end of the row is forgotten.
FindClosedRuns(high) == RunsSeen(high).segs

\* findTrueRuns: the stretches of a row in which high is true.
FindTrueRuns(high) ==
  LET s == RunsSeen(high) IN
  IF s.in THEN Append(s.segs, [start |-> s.start, end |-> Width(high)]) ELSE s.segs

\* The ratio of the sides is between 0.7 and 1.4, which are not included.
NearSquare(w, h) == 10 * w > 7 * h /\ 10 * w < 14 * h

\* Faulty variant: the left half of the picture is taken for the piece.
IsPieceWide(x) == x <= picture.sw \div 2

\* Too far left: the piece itself.
IsPiece(x) == x <= picture.sw \div 4

\* A stretch counts with the height of its first column.
Better(b, seg) ==
  LET w == seg.end - seg.start
      h == ColRun[row][seg.start]
  IN IF ~IsPiece(seg.start) /\ NearSquare(w, h) /\ w * h > b.area
     THEN [area |-> w * h, x |-> seg.start] ELSE b

BestOf(segs) ==
  LET after[k \in 0..Len(segs)] == IF k = 0 THEN best ELSE Better(after[k - 1], segs[k])
  IN after[Len(segs)]

High == LET run == ColRun[row] IN [x \in Columns |-> run[x] >= MinSide]

ScanRow ==
  /\ at = "rows" /\ row \in Rows
  /\ best' = BestOf(FindTrueRuns(High))
  /\ row' = row + 1
  /\ UNCHANGED <<picture, at, grid, tried, color, result>>

ColorScanned ==
  /\ at = "rows" /\ row \notin Rows
  /\ tried' = tried \cup {color} /\ color' = NoColor /\ row' = 0
  /\ at' = "colors"
  /\ UNCHANGED <<picture, grid, best, result>>

\* The offset is best.x * 2.
Return ==
  /\ at = "colors"
  /\ Cardinality(tried) = 5 \/ tried = Colors
  /\ result' = IF best.area = 0 THEN "no gap" ELSE "offset"
  /\ at' = "done"
  /\ UNCHANGED <<picture, grid, tried, color, row, best>>

Offset == 2 * best.x

Done == at = "done" /\ UNCHANGED vars

Next == DecodeFails \/ Decode \/ NextColor \/ ScanRow \/ ColorScanned \/ Return \/ Done

Spec == Init /\ [][Next]_vars

----------------------------------------------------------------------------
\* Correctness

\* A reference for the scan, without loops and for every row of the picture: the
\* columns x .. x+w-1 all have the colour c in the MinSide rows that end with y,
\* the columns beside them do not, and h is how far the first of them has it.
Solid(c, x, y, n) == n <= y + 1 /\ \A j \in (y - n + 1)..y : grid[j][x] = c

RegionsAt(c, y) ==
  LET high == {x \in Columns : Solid(c, x, y, MinSide)} IN
  {r \in [x : high, w : 1..Cardinality(high), h : MinSide..(y + 1)] :
     /\ r.x >= (picture.sw \div 4) + 1 /\ NearSquare(r.w, r.h)
     /\ r.x..(r.x + r.w - 1) \subseteq high
     /\ {r.x - 1, r.x + r.w} \cap high = {}
     /\ Solid(c, r.x, y, r.h) /\ ~Solid(c, r.x, y, r.h + 1)}

Regions(c) == UNION {RegionsAt(c, y) : y \in Rows}

\* A region that begins in the first row and is no higher than it must be.
AtTop(r, y) == y + 1 = r.h /\ r.h = MinSide

\* What is returned is the left edge of a nearly square region of the five most
\* frequent colours, in whatever order the map gave them. It is at least as large
\* as every other that is not AtTop, and nothing is returned only if there is no
\* such region. The comment on MatchSliderOffset excepts none; the rows that are scanned
\* begin one below the first in which a region can end.
ResultIsLargestBelowTop ==
  at = "done" /\ result # "error" =>
    /\ \A c \in tried, d \in Colors \ tried : Count(d) <= Count(c)
    /\ \A c \in tried, y \in Rows : \A r \in RegionsAt(c, y) :
         AtTop(r, y) \/ (result = "offset" /\ r.w * r.h <= best.area)
    /\ result = "offset" =>
         \E c \in tried : \E r \in Regions(c) : r.x = best.x /\ r.w * r.h = best.area

\* The gap as the downsampled picture shows it, from x to xEnd and y to yEnd.
Shown(g) == [x |-> (g.x + 1) \div 2, xEnd |-> (g.x + g.w + 1) \div 2,
             y |-> (g.y + 1) \div 2, yEnd |-> (g.y + g.h + 1) \div 2]

\* The gap g has one colour, and besides its own no two cells that are side by
\* side or one above the other have the same.
Textured(g) ==
  LET s == Shown(g)
      InGap(y, x) == y \in s.y..(s.yEnd - 1) /\ x \in s.x..(s.xEnd - 1)
  IN /\ s.yEnd - 1 \in Rows /\ s.xEnd - 1 \in Columns
     /\ \A y \in s.y..(s.yEnd - 1), x \in s.x..(s.xEnd - 1) : grid[y][x] = grid[s.y][s.x]
     /\ \A y \in Rows, x \in Columns :
          /\ y + 1 \in Rows /\ grid[y][x] = grid[y + 1][x] => InGap(y, x) /\ InGap(y + 1, x)
          /\ x + 1 \in Columns /\ grid[y][x] = grid[y][x + 1] => InGap(y, x) /\ InGap(y, x + 1)

\* The gap of a textured picture is found within a pixel, at any place right of
\* the piece, although only every second pixel is looked at and its shades vary:
\* if it is nearly square, at least half as high as the piece and more than a
\* cell, does not lie at the very top and has one of the five most frequent colours.
GapIsFound ==
  LET s == Shown(picture.gap)
      w == s.xEnd - s.x
      h == s.yEnd - s.y
  IN at = "done" /\ result # "error" /\ picture.gap # NoGap /\ Textured(picture.gap)
     /\ NearSquare(w, h) /\ h >= MinSide /\ h > 1 /\ s.yEnd > MinSide
     /\ 4 * s.x > picture.sw
     /\ Cardinality({c \in Colors : Count(c) >= Count(grid[s.y][s.x])}) <= 5
     => result = "offset" /\ Offset \in {picture.gap.x, picture.gap.x + 1}

============================================================================
