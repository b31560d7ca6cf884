------------------------------ MODULE MCSlider ------------------------------
(***************************************************************************)
(* Pictures for TLC: gaps of all places and of sizes about that of the     *)
(* piece on textures of two and of six colours, and every small picture of *)
(* two colours.                                                            *)
(***************************************************************************)
EXTENDS Slider

\* The texture has no two neighbours of one colour once it is downsampled; the
\* shades of the gap differ by less than the quantisation.
Texture(n, x, y) == 10 * (((x \div 2) + (3 * (y \div 2))) % n)
Shade(y) == 128 + ((y \div 2) % 4)

WithGap(n, g) ==
  [sw |-> 8, sh |-> 8, gap |-> g,
   pixel |-> [j \in 1..10 |-> [i \in 1..14 |->
     IF i - 1 \in g.x..(g.x + g.w - 1) /\ j - 1 \in g.y..(g.y + g.h - 1)
     THEN Shade(j - 1) ELSE Texture(n, i - 1, j - 1)]]]

Gaps == {g \in [x : 0..9, y : 0..5, w : 5..8, h : {3, 4, 5, 8}] : g.x + g.w <= 14 /\ g.y + g.h <= 10}

\* Each cell stands for the pixel that is looked at and its neighbours.
Small(cells) ==
  [sw |-> 3, sh |-> 3, gap |-> NoGap,
   pixel |-> [j \in 1..6 |-> [i \in 1..8 |-> IF <<(j - 1) \div 2, (i - 1) \div 2>> \in cells THEN 200 ELSE 40]]]

SomePictures ==
  {WithGap(n, g) : n \in {2, 6}, g \in Gaps} \cup {Small(cells) : cells \in SUBSET ((0..2) \X (0..3))}

============================================================================
