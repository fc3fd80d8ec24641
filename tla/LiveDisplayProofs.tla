------------------------- MODULE LiveDisplayProofs -------------------------
(***************************************************************************)
(* Proofs about LiveDisplay, for all views, all states of the engine, all  *)
(* sets of pixels followed and all buffer and chunk sizes.                 *)
(***************************************************************************)
EXTENDS LiveDisplay, WellFoundedInduction, TLAPS

-----------------------------------------------------------------------------
(* Boxes and bands *)

\* A set of natural numbers that has a member has a least one.
LEMMA LeastNatural ==
  ASSUME NEW T \in SUBSET Nat, T # {}
  PROVE  \E x \in T : \A y \in T : x <= y
PROOF
<1>1. PICK x \in T : \A y \in T : ~(<<y, x>> \in OpToRel(<, Nat))
  BY NatLessThanWellFounded, WFMin
<1>2. \A y \in T : y \in Nat /\ ~(y < x)
  BY <1>1 DEF OpToRel
<1>3. \A y \in T : x <= y
  BY <1>2
<1> QED  BY <1>3

\* The bounds of a set of coordinates.
Spans(T, limit) ==
  /\ Min(T) \in 0 .. limit /\ Max(T) \in 0 .. limit
  /\ \A x \in T : Min(T) <= x /\ x <= Max(T)

LEMMA Bounds ==
  ASSUME NEW limit \in Nat, NEW T, T \subseteq 0 .. limit, T # {}
  PROVE  Spans(T, limit)
PROOF
<1>1. \E x \in T : \A y \in T : x <= y
  <2>1. T \in SUBSET Nat
    OBVIOUS
  <2> QED  BY <2>1, LeastNatural
<1>2. \E x \in T : \A y \in T : x >= y
  <2> DEFINE mirror == {limit - x : x \in T}
  <2>1. mirror \in SUBSET Nat /\ mirror # {}
    <3>1. \A x \in T : limit - x \in Nat
      OBVIOUS
    <3> QED  BY <3>1
  <2>2. PICK least \in mirror : \A y \in mirror : least <= y
    <3> HIDE DEF mirror
    <3> QED  BY <2>1, LeastNatural
  <2>3. PICK x \in T : least = limit - x
    BY <2>2
  <2>4. \A y \in T : limit - x <= limit - y
    BY <2>2, <2>3
  <2>5. \A y \in T : x >= y
    BY <2>4
  <2> QED  BY <2>5
<1>3. Min(T) \in T /\ \A x \in T : Min(T) <= x
  BY <1>1 DEF Min
<1>4. Max(T) \in T /\ \A x \in T : Max(T) >= x
  BY <1>2 DEF Max
<1>5. \A x \in T : x \in Int
  OBVIOUS
<1> QED  BY <1>3, <1>4, <1>5 DEF Spans

\* The smaller and the larger of two numbers.
LEMMA OfTwo ==
  ASSUME NEW a \in Int, NEW b \in Int
  PROVE  /\ Min({a, b}) = IF a <= b THEN a ELSE b
         /\ Max({a, b}) = IF a >= b THEN a ELSE b
PROOF
<1>1. Min({a, b}) \in {a, b} /\ \A x \in {a, b} : Min({a, b}) <= x
  <2>1. \E x \in {a, b} : \A y \in {a, b} : x <= y
    OBVIOUS
  <2> QED  BY <2>1 DEF Min
<1>2. Max({a, b}) \in {a, b} /\ \A x \in {a, b} : Max({a, b}) >= x
  <2>1. \E x \in {a, b} : \A y \in {a, b} : x >= y
    OBVIOUS
  <2> QED  BY <2>1 DEF Max
<1> QED  BY <1>1, <1>2

\* The multiple of a number that another one is at or above, by less than the number.
LEMMA MultipleBelow ==
  ASSUME NEW T \in Nat \ {0}, NEW y \in Nat
  PROVE  \E first \in Nat : first % T = 0 /\ first <= y /\ y < first + T
PROOF
<1> DEFINE first == T * (y \div T)
<1>1. first <= y /\ y < first + T /\ first \in Nat /\ y \div T \in Nat
  BY Z3
<1>2. \A k \in Nat : (T * k) % T = 0
  BY Z3
<1>3. first % T = 0
  BY <1>1, <1>2
<1> QED  BY <1>1, <1>3

\* The coordinates are small numbers.
LEMMA PixelType ==
  ASSUME NEW p \in Pixels
  PROVE  p.x \in 0 .. 479 /\ p.y \in 0 .. 319 /\ p = [x |-> p.x, y |-> p.y]
PROOF  BY DisplayAssumption DEF ScreenWidth, ScreenHeight

\* Every region is a rectangle on the screen.
LEMMA RegionFits ==
  ASSUME NEW region \in Regions
  PROVE  /\ Rect(region).x \in Nat /\ Rect(region).y \in Nat
         /\ Rect(region).width \in 1 .. ScreenWidth /\ Rect(region).height \in 1 .. ScreenHeight
         /\ Rect(region).x + Rect(region).width <= ScreenWidth
         /\ Rect(region).y + Rect(region).height <= ScreenHeight
PROOF
  BY DEF Regions, Rect, Quadrants, HeaderRegion, FooterRegion, DeckInset, DeckGap, DeckTop,
         QuadrantWidth, QuadrantHeight, ScreenWidth, ScreenHeight, HeaderHeight, FooterHeight, FooterY

\* No two regions share a pixel.
LEMMA RegionsApart ==
  ASSUME NEW p \in Pixels, NEW one \in Regions, NEW other \in Regions,
         Within(p, Rect(one)), Within(p, Rect(other))
  PROVE  one = other
PROOF
<1>1. p.x \in Int /\ p.y \in Int
  BY PixelType
<1> QED
  BY <1>1 DEF Within, Regions, Rect, Quadrants, HeaderRegion, FooterRegion, DeckInset, DeckGap,
              DeckTop, QuadrantWidth, QuadrantHeight, ScreenWidth, ScreenHeight, HeaderHeight,
              FooterHeight, FooterY

\* A transfer of a region takes at least a row.
LEMMA TransferRowsType ==
  ASSUME NEW region \in Regions
  PROVE  TransferRows(Rect(region)) \in Nat \ {0}
PROOF
<1> DEFINE rows == TilePixels \div Rect(region).width
<1>1. Rect(region).width \in Nat \ {0} /\ TilePixels \in Nat
  BY RegionFits, DisplayAssumption DEF ScreenWidth
<1>2. rows \in Int
  BY <1>1
<1> HIDE DEF rows
<1>3. Max({1, rows}) \in {1, rows} /\ \A y \in {1, rows} : Max({1, rows}) >= y
  <2>1. \E x \in {1, rows} : \A y \in {1, rows} : x >= y
    BY <1>2
  <2> QED  BY <2>1 DEF Max
<1> QED  BY <1>2, <1>3 DEF TransferRows, rows

\* A band has at least a row, and not more than its region has from it on.
LEMMA BandFits ==
  ASSUME NEW region \in Regions, NEW first \in Bands(Rect(region))
  PROVE  /\ first \in Nat /\ first < Rect(region).height
         /\ BandRows(Rect(region), first) \in Nat \ {0}
         /\ first + BandRows(Rect(region), first) <= Rect(region).height
PROOF
<1> DEFINE height == Rect(region).height
           transfer == TransferRows(Rect(region))
<1>1. height \in Nat /\ first \in 0 .. height - 1
  BY RegionFits DEF Bands, ScreenHeight
<1>2. transfer \in Nat \ {0}
  BY TransferRowsType
<1> HIDE DEF height, transfer
<1>3. Min({transfer, height - first}) \in Nat \ {0} /\ first + Min({transfer, height - first}) <= height
  BY <1>1, <1>2, OfTwo
<1> QED  BY <1>1, <1>3 DEF BandRows, height, transfer

\* The bands of a region leave no pixel out.
LEMMA BandOfPixel ==
  ASSUME NEW region \in Regions, NEW p \in Pixels, Within(p, Rect(region))
  PROVE  \E first \in Bands(Rect(region)) : p \in BandPixels(Rect(region), first)
PROOF
<1> DEFINE height == Rect(region).height
           transfer == TransferRows(Rect(region))
           y == p.y - Rect(region).y
<1>1. height \in Nat /\ y \in 0 .. height - 1
  BY RegionFits, PixelType DEF Within, ScreenHeight
<1>2. transfer \in Nat \ {0}
  BY TransferRowsType
<1>3. Bands(Rect(region)) = {first \in 0 .. height - 1 : first % transfer = 0}
  BY DEF Bands
<1>4. \A first : BandPixels(Rect(region), first)
                   = {q \in Pixels : Within(q, Rect(region))
                        /\ q.y - Rect(region).y \in first .. first + Min({transfer, height - first}) - 1}
  BY DEF BandPixels, BandRows
<1> HIDE DEF height, transfer, y
<1>5. PICK first \in Nat : first % transfer = 0 /\ first <= y /\ y < first + transfer
  <2>1. y \in Nat
    BY <1>1
  <2> QED  BY <1>2, <2>1, MultipleBelow
<1>6. y \in first .. first + Min({transfer, height - first}) - 1
  BY <1>1, <1>2, <1>5, OfTwo
<1>7. first \in 0 .. height - 1
  BY <1>1, <1>5
<1> QED  BY <1>3, <1>4, <1>5, <1>6, <1>7 DEF y

-----------------------------------------------------------------------------
(* Drawing *)

\* The ink of a pixel of a region drawn at once.
Drawn(region, view, p) == InkAt(region, view, p, 0, Rect(region).height)

\* A shape covers a pixel, and inks it, in a band as it does in the whole region.
LEMMA BandsShareShapes ==
  ASSUME NEW shape, NEW x, NEW y, NEW rect, NEW one, NEW other, NEW rows, NEW more
  PROVE  /\ Covers(shape, x, y, Canvas(rect, one, rows)) = Covers(shape, x, y, Canvas(rect, other, more))
         /\ Ink(shape, x, Canvas(rect, one, rows)) = Ink(shape, x, Canvas(rect, other, more))
PROOF
<1>1. /\ Canvas(rect, one, rows).width = Canvas(rect, other, more).width
      /\ Canvas(rect, one, rows).totalHeight = Canvas(rect, other, more).totalHeight
  BY DEF Canvas
<1> QED  BY <1>1 DEF Covers, Ink, CharacterAt

\* Drawing in bands gives every pixel the ink it has in the region drawn at once.
LEMMA BandsDrawTheSame ==
  ASSUME NEW region \in Regions, NEW view, NEW first \in Bands(Rect(region)),
         NEW p \in BandPixels(Rect(region), first)
  PROVE  InkAt(region, view, p, first, BandRows(Rect(region), first)) = Drawn(region, view, p)
PROOF
<1> DEFINE rect == Rect(region)
           x == p.x - rect.x
           y == p.y - rect.y
           band == Canvas(rect, first, BandRows(rect, first))
           whole == Canvas(rect, 0, rect.height)
           layers == Layers(region, view)
<1>0. p \in Pixels /\ Within(p, rect) /\ y \in first .. first + BandRows(rect, first) - 1
  BY DEF BandPixels
<1>1. /\ x \in 0 .. rect.width - 1 /\ y \in 0 .. rect.height - 1
      /\ rect.width \in Nat /\ rect.height \in Nat
  <2>1. p.x \in Int /\ p.y \in Int
    BY <1>0, PixelType
  <2>2. rect.x \in Nat /\ rect.y \in Nat /\ rect.width \in Nat /\ rect.height \in Nat
    BY RegionFits DEF ScreenWidth, ScreenHeight
  <2> HIDE DEF rect
  <2> QED  BY <1>0, <2>1, <2>2 DEF Within
<1>2. first \in Nat /\ BandRows(rect, first) \in Nat /\ y \in Int /\ y < rect.height
  BY <1>1, BandFits
<1> HIDE DEF rect, x, y, layers
<1>3. OnCanvas(x, y, band) /\ OnCanvas(x, y, whole)
  BY <1>0, <1>1, <1>2 DEF OnCanvas, Canvas
<1> HIDE DEF band, whole
<1>4. \A shape : /\ Covers(shape, x, y, band) = Covers(shape, x, y, whole)
                 /\ Ink(shape, x, band) = Ink(shape, x, whole)
  BY BandsShareShapes DEF band, whole
<1>5. {i \in DOMAIN layers : OnCanvas(x, y, band) /\ Covers(layers[i], x, y, band)}
      = {i \in DOMAIN layers : OnCanvas(x, y, whole) /\ Covers(layers[i], x, y, whole)}
  BY <1>3, <1>4
<1>6. Top(layers, x, y, band) = Top(layers, x, y, whole)
  BY <1>4, <1>5 DEF Top
<1> QED  BY <1>6 DEF InkAt, Drawn, rect, x, y, layers, band, whole

\* A tile is drawn from the fields of a view that are compared, and from no others.
LEMMA QuadrantByFields ==
  ASSUME NEW old, NEW new, NEW q,
         q \in old.pressedMask <=> q \in new.pressedMask,
         old.positions[q] = new.positions[q],
         old.selectedPositions[q].label = new.selectedPositions[q].label,
         old.selectedPositions[q].accentRgb565 = new.selectedPositions[q].accentRgb565
  PROVE  Quadrant(old, q) = Quadrant(new, q)
PROOF
<1>1. CASE q \in old.pressedMask
  BY <1>1 DEF Quadrant, position_text
<1>2. CASE q \notin old.pressedMask /\ old.positions[q] = 2
  BY <1>2 DEF Quadrant, position_text
<1>3. CASE q \notin old.pressedMask /\ old.positions[q] # 2
  <2>1. new.positions[q] # 2 /\ q \notin new.pressedMask
    BY <1>3
  <2>2. CASE old.selectedPositions[q].accentRgb565 = 0
    BY <1>3, <2>1, <2>2 DEF Quadrant, position_text
  <2>3. CASE old.selectedPositions[q].accentRgb565 # 0
    BY <1>3, <2>1, <2>3 DEF Quadrant, position_text
  <2> QED  BY <2>2, <2>3
<1> QED  BY <1>1, <1>2, <1>3

\* So are the header and the footer.
LEMMA HeaderByFields ==
  ASSUME NEW old, NEW new, HeaderFields(old) = HeaderFields(new)
  PROVE  Layers(HeaderRegion, old) = Layers(HeaderRegion, new)
PROOF
<1>1. Header(old) = Header(new)
  BY DEF HeaderFields, Header, HeaderName, HeaderStatus
<1> QED  BY <1>1 DEF Layers, HeaderRegion, FooterRegion

LEMMA FooterByFields ==
  ASSUME NEW old, NEW new, FooterFields(old) = FooterFields(new)
  PROVE  Layers(FooterRegion, old) = Layers(FooterRegion, new)
PROOF
<1>1. Footer(old) = Footer(new)
  BY DEF FooterFields, Footer, ExpressionValue
<1> QED  BY <1>1 DEF Layers, HeaderRegion, FooterRegion

\* A region that is not drawn again would be drawn from the same layers.
LEMMA NotRedrawn ==
  ASSUME NEW old, NEW new, old # Nil, NEW region \in Regions, region \notin Redrawn(old, new)
  PROVE  Layers(region, old) = Layers(region, new)
PROOF
<1>1. CASE region = HeaderRegion
  BY <1>1, HeaderByFields DEF Redrawn
<1>2. CASE region = FooterRegion
  BY <1>2, FooterByFields DEF Redrawn
<1>3. CASE region \in Quadrants
  <2>1. QuadrantFields(old, region) = QuadrantFields(new, region)
    BY <1>3 DEF Redrawn
  <2>2. /\ region \in old.pressedMask <=> region \in new.pressedMask
        /\ old.positions[region] = new.positions[region]
        /\ old.selectedPositions[region] = new.selectedPositions[region]
    BY <2>1, Zenon DEF QuadrantFields
  <2>3. Quadrant(old, region) = Quadrant(new, region)
    BY <2>2, QuadrantByFields
  <2> QED  BY <1>3, <2>3 DEF Layers, Quadrants, HeaderRegion, FooterRegion
<1> QED  BY <1>1, <1>2, <1>3 DEF Regions

\* Views that render() takes for the same would be drawn from the same layers.
LEMMA SameViewSameLayers ==
  ASSUME NEW old, NEW new, same_view(old, new), NEW region \in Regions
  PROVE  Layers(region, old) = Layers(region, new)
PROOF
<1>1. CASE region = HeaderRegion
  BY <1>1, HeaderByFields DEF same_view
<1>2. CASE region = FooterRegion
  BY <1>2, FooterByFields DEF same_view
<1>3. CASE region \in Quadrants
  <2>1. /\ old.positions = new.positions /\ old.pressedMask = new.pressedMask
        /\ old.selectedPositions[region].label = new.selectedPositions[region].label
        /\ old.selectedPositions[region].accentRgb565 = new.selectedPositions[region].accentRgb565
    BY <1>3 DEF same_view, same_position_view, same_ascii
  <2>2. Quadrant(old, region) = Quadrant(new, region)
    BY <2>1, QuadrantByFields
  <2> QED  BY <1>3, <2>2 DEF Layers, Quadrants, HeaderRegion, FooterRegion
<1> QED  BY <1>1, <1>2, <1>3 DEF Regions

-----------------------------------------------------------------------------
(* Writing *)

\* The box around pixels holds each of them, and is on the screen.
LEMMA BoxHolds ==
  ASSUME NEW changed \in SUBSET Pixels, NEW p \in changed
  PROVE  Within(p, Box(changed)) /\ OnScreen(Box(changed))
PROOF
<1> DEFINE xs == {q.x : q \in changed}
           ys == {q.y : q \in changed}
<1>1. \A q \in changed : q.x \in 0 .. 479 /\ q.y \in 0 .. 319
  BY PixelType
<1>2. p.x \in xs /\ xs \subseteq 0 .. 479 /\ p.y \in ys /\ ys \subseteq 0 .. 319
  BY <1>1
<1> HIDE DEF xs, ys
<1>3. PICK left \in 0 .. 479, right \in 0 .. 479 :
        left = Min(xs) /\ right = Max(xs) /\ left <= p.x /\ p.x <= right
  <2>1. 479 \in Nat /\ xs \subseteq 0 .. 479 /\ xs # {}
    BY <1>2
  <2>2. Spans(xs, 479)
    BY <2>1, Bounds
  <2> QED  BY <1>2, <2>2 DEF Spans
<1>4. PICK top \in 0 .. 319, bottom \in 0 .. 319 :
        top = Min(ys) /\ bottom = Max(ys) /\ top <= p.y /\ p.y <= bottom
  <2>1. 319 \in Nat /\ ys \subseteq 0 .. 319 /\ ys # {}
    BY <1>2
  <2>2. Spans(ys, 319)
    BY <2>1, Bounds
  <2> QED  BY <1>2, <2>2 DEF Spans
<1>5. Box(changed) = [x |-> left, y |-> top, width |-> right - left + 1, height |-> bottom - top + 1]
  BY <1>3, <1>4 DEF Box, xs, ys
<1>6. p.x \in Int /\ p.y \in Int
  BY <1>1
<1>7. Within(p, Box(changed))
  BY <1>3, <1>4, <1>5, <1>6 DEF Within
<1>8. OnScreen(Box(changed))
  BY <1>3, <1>4, <1>5, <1>6 DEF OnScreen, ScreenWidth, ScreenHeight
<1> QED  BY <1>7, <1>8

\* A band writes pixels of its own, with their ink in the new view, and every one of them
\* that looks different, or all the first time.
LEMMA BandWritesDraw ==
  ASSUME NEW region \in Regions, NEW old, NEW new, NEW first \in Bands(Rect(region)),
         NEW p \in Pixels
  PROVE  /\ p \in DOMAIN BandWrites(region, old, new, first) =>
              /\ p \in BandPixels(Rect(region), first)
              /\ BandWrites(region, old, new, first)[p] = Drawn(region, new, p)
         /\ /\ p \in BandPixels(Rect(region), first)
            /\ old = Nil \/ Drawn(region, old, p) # Drawn(region, new, p)
            => p \in DOMAIN BandWrites(region, old, new, first)
PROOF
<1> DEFINE band == BandPixels(Rect(region), first)
           before == BandImage(region, old, first)
           after == BandImage(region, new, first)
           changed == {q \in band : after[q] # before[q]}
           bandRect == [x |-> Rect(region).x, y |-> Rect(region).y + first,
                        width |-> Rect(region).width, height |-> BandRows(Rect(region), first)]
<1>1. DOMAIN before = band /\ DOMAIN after = band
  BY DEF BandImage
<1>2. \A q \in band : before[q] = Drawn(region, old, q) /\ after[q] = Drawn(region, new, q)
  BY BandsDrawTheSame DEF BandImage
<1>3. band \subseteq Pixels /\ changed \subseteq band
  BY DEF BandPixels
<1>4. p \in band => Within(p, bandRect) /\ OnScreen(bandRect)
  <2>1. p.x \in Int /\ p.y \in Int
    BY PixelType
  <2>2. /\ Rect(region).x \in Nat /\ Rect(region).y \in Nat
        /\ Rect(region).width \in Nat \ {0} /\ Rect(region).height \in Nat
        /\ Rect(region).x + Rect(region).width <= ScreenWidth
        /\ Rect(region).y + Rect(region).height <= ScreenHeight
    BY RegionFits DEF ScreenWidth, ScreenHeight
  <2>3. /\ first \in Nat /\ BandRows(Rect(region), first) \in Nat \ {0}
        /\ first + BandRows(Rect(region), first) <= Rect(region).height
    BY BandFits
  <2> QED  BY <2>1, <2>2, <2>3 DEF BandPixels, Within, OnScreen, ScreenWidth, ScreenHeight
<1>5. BandWrites(region, old, new, first)
      = IF old = Nil THEN Part(after, bandRect)
        ELSE IF changed = {} THEN <<>> ELSE Part(after, Box(changed))
  BY <1>1 DEF BandWrites, ChangedPart
<1> HIDE DEF before, after, band, bandRect
<1>6. CASE old = Nil
  <2>1. BandWrites(region, old, new, first) = Part(after, bandRect)
    BY <1>5, <1>6
  <2>2. p \in DOMAIN Part(after, bandRect) =>
          p \in band /\ Part(after, bandRect)[p] = Drawn(region, new, p)
    BY <1>1, <1>2 DEF Part
  <2>3. p \in band => p \in DOMAIN Part(after, bandRect)
    BY <1>1, <1>4 DEF Part
  <2> QED  BY <1>6, <2>1, <2>2, <2>3 DEF band
<1>7. CASE old # Nil /\ changed = {}
  BY <1>2, <1>5, <1>7 DEF band
<1>8. CASE old # Nil /\ changed # {}
  <2>1. BandWrites(region, old, new, first) = Part(after, Box(changed))
    BY <1>5, <1>8
  <2>2. p \in changed => Within(p, Box(changed)) /\ OnScreen(Box(changed))
    <3>1. changed \in SUBSET Pixels
      BY <1>3
    <3> HIDE DEF changed
    <3> QED  BY <3>1, BoxHolds
  <2>3. p \in band /\ Drawn(region, old, p) # Drawn(region, new, p) => p \in changed
    BY <1>2
  <2> HIDE DEF changed
  <2>4. p \in DOMAIN Part(after, Box(changed)) =>
          p \in band /\ Part(after, Box(changed))[p] = Drawn(region, new, p)
    BY <1>1, <1>2 DEF Part
  <2>5. p \in changed => p \in DOMAIN Part(after, Box(changed))
    BY <1>1, <1>3, <2>2 DEF Part, changed
  <2> QED  BY <1>8, <2>1, <2>3, <2>4, <2>5 DEF band
<1> QED  BY <1>6, <1>7, <1>8

\* What render() writes are pixels of regions that it draws again, with their ink in the new
\* view, and every one of them that looks different, or all the first time.
LEMMA ViewWritesDraw ==
  ASSUME NEW old, NEW new, NEW p \in Pixels
  PROVE  /\ p \in DOMAIN ViewWrites(old, new) =>
              \E region \in Redrawn(old, new) :
                 Within(p, Rect(region)) /\ ViewWrites(old, new)[p] = Drawn(region, new, p)
         /\ \A region \in Redrawn(old, new) :
              /\ Within(p, Rect(region))
              /\ old = Nil \/ Drawn(region, old, p) # Drawn(region, new, p)
              => p \in DOMAIN ViewWrites(old, new)
PROOF
<1> DEFINE writes == UNION {RectWrites(region, old, new) : region \in Redrawn(old, new)}
<1>1. Redrawn(old, new) \subseteq Regions
  BY DEF Redrawn, Regions
<1>2. ViewWrites(old, new)
      = [q \in UNION {DOMAIN w : w \in writes} |-> (CHOOSE w \in writes : q \in DOMAIN w)[q]]
  BY DEF ViewWrites
<1>3. \A w \in writes : \E region \in Redrawn(old, new) : \E first \in Bands(Rect(region)) :
        w = BandWrites(region, old, new, first)
  BY DEF RectWrites
<1>4. \A region \in Redrawn(old, new) : \A first \in Bands(Rect(region)) :
        BandWrites(region, old, new, first) \in writes
  BY DEF RectWrites
<1> HIDE DEF writes
<1>5. ASSUME p \in DOMAIN ViewWrites(old, new)
      PROVE  \E region \in Redrawn(old, new) :
               Within(p, Rect(region)) /\ ViewWrites(old, new)[p] = Drawn(region, new, p)
  <2>1. \E w \in writes : p \in DOMAIN w
    BY <1>2, <1>5
  <2> DEFINE w == CHOOSE w \in writes : p \in DOMAIN w
  <2>2. w \in writes /\ p \in DOMAIN w
    BY <2>1
  <2>3. ViewWrites(old, new)[p] = w[p]
    BY <1>2, <1>5
  <2> HIDE DEF w
  <2>4. PICK region \in Redrawn(old, new) :
          \E first \in Bands(Rect(region)) : w = BandWrites(region, old, new, first)
    BY <1>3, <2>2
  <2>5. PICK first \in Bands(Rect(region)) : w = BandWrites(region, old, new, first)
    BY <2>4
  <2>6. p \in BandPixels(Rect(region), first) /\ w[p] = Drawn(region, new, p)
    BY <1>1, <2>2, <2>5, BandWritesDraw
  <2>7. Within(p, Rect(region))
    BY <2>6 DEF BandPixels
  <2> QED  BY <2>3, <2>6, <2>7
<1>6. ASSUME NEW region \in Redrawn(old, new), Within(p, Rect(region)),
             old = Nil \/ Drawn(region, old, p) # Drawn(region, new, p)
      PROVE  p \in DOMAIN ViewWrites(old, new)
  <2>1. PICK first \in Bands(Rect(region)) : p \in BandPixels(Rect(region), first)
    BY <1>1, <1>6, BandOfPixel
  <2>2. p \in DOMAIN BandWrites(region, old, new, first)
    BY <1>1, <1>6, <2>1, BandWritesDraw
  <2> QED  BY <1>2, <1>4, <2>2
<1> QED  BY <1>5, <1>6

-----------------------------------------------------------------------------
(***************************************************************************)
(* The frame. It is what drawing the previous view at once gives: a pixel  *)
(* is in at most one region, and where a view does not write it, it has    *)
(* the ink that the view would give it already.                            *)
(***************************************************************************)
Blank == [p \in Pixels |-> Black]

\* A screen, pixel by pixel.
LEMMA ScreenPixel ==
  ASSUME NEW view, NEW p \in Pixels
  PROVE  /\ \A region \in Regions : Within(p, Rect(region)) => Screen(view)[p] = Drawn(region, view, p)
         /\ (\A region \in Regions : ~Within(p, Rect(region))) => Screen(view)[p] = Black
PROOF
<1> DEFINE here == {region \in Regions : Within(p, Rect(region))}
           chosen == CHOOSE region \in here : TRUE
<1>1. Screen(view)[p] = IF here = {} THEN Black ELSE Drawn(chosen, view, p)
  BY DEF Screen, Drawn
<1>2. ASSUME NEW region \in Regions, Within(p, Rect(region))
      PROVE  Screen(view)[p] = Drawn(region, view, p)
  <2>1. region \in here /\ chosen \in here
    BY <1>2
  <2>2. chosen = region
    BY <1>2, <2>1, RegionsApart
  <2> QED  BY <1>1, <2>1, <2>2
<1>3. ASSUME \A region \in Regions : ~Within(p, Rect(region))
      PROVE  Screen(view)[p] = Black
  <2>1. here = {}
    BY <1>3
  <2> HIDE DEF here
  <2> QED  BY <1>1, <2>1
<1> QED  BY <1>2, <1>3

\* Views with the same layers give the same screen.
LEMMA LayersGiveScreen ==
  ASSUME NEW old, NEW new, \A region \in Regions : Layers(region, old) = Layers(region, new)
  PROVE  Screen(old) = Screen(new)
PROOF
<1>1. ASSUME NEW p \in Pixels PROVE Screen(old)[p] = Screen(new)[p]
  <2>1. CASE \A region \in Regions : ~Within(p, Rect(region))
    BY <2>1, ScreenPixel
  <2>2. ASSUME NEW region \in Regions, Within(p, Rect(region))
        PROVE  Screen(old)[p] = Screen(new)[p]
    <3>1. Drawn(region, old, p) = Drawn(region, new, p)
      BY DEF Drawn, InkAt
    <3> QED  BY <2>2, <3>1, ScreenPixel
  <2> QED  BY <2>1, <2>2
<1> QED  BY <1>1 DEF Screen

\* What is left of the frame and what is written make the screen of the view.
LEMMA WritesMakeScreen ==
  ASSUME NEW old, NEW new, NEW shown, shown = IF old = Nil THEN Blank ELSE Screen(old)
  PROVE  [p \in Pixels |-> IF p \in DOMAIN ViewWrites(old, new) THEN ViewWrites(old, new)[p]
                           ELSE shown[p]] = Screen(new)
PROOF
<1>1. ASSUME NEW p \in Pixels
      PROVE  (IF p \in DOMAIN ViewWrites(old, new) THEN ViewWrites(old, new)[p] ELSE shown[p])
             = Screen(new)[p]
  <2>1. Redrawn(old, new) \subseteq Regions
    BY DEF Redrawn, Regions
  <2>2. CASE p \in DOMAIN ViewWrites(old, new)
    <3>1. PICK region \in Redrawn(old, new) :
            Within(p, Rect(region)) /\ ViewWrites(old, new)[p] = Drawn(region, new, p)
      BY <2>2, ViewWritesDraw
    <3> QED  BY <2>1, <2>2, <3>1, ScreenPixel
  <2>3. CASE p \notin DOMAIN ViewWrites(old, new)
    <3>1. CASE \A region \in Regions : ~Within(p, Rect(region))
      <4>1. shown[p] = Black
        BY <3>1, ScreenPixel DEF Blank
      <4> QED  BY <2>3, <3>1, <4>1, ScreenPixel
    <3>2. ASSUME NEW region \in Regions, Within(p, Rect(region))
          PROVE  shown[p] = Screen(new)[p]
      <4>1. CASE old = Nil
        BY <2>3, <3>2, <4>1, ViewWritesDraw DEF Redrawn
      <4>2. CASE old # Nil /\ region \in Redrawn(old, new)
        <5>1. Drawn(region, old, p) = Drawn(region, new, p)
          BY <2>3, <3>2, <4>2, ViewWritesDraw
        <5> QED  BY <3>2, <4>2, <5>1, ScreenPixel
      <4>3. CASE old # Nil /\ region \notin Redrawn(old, new)
        <5>1. Drawn(region, old, p) = Drawn(region, new, p)
          BY <4>3, NotRedrawn DEF Drawn, InkAt
        <5> QED  BY <3>2, <4>3, <5>1, ScreenPixel
      <4> QED  BY <4>1, <4>2, <4>3
    <3> QED  BY <2>3, <3>1, <3>2
  <2> QED  BY <2>2, <2>3
<1> QED  BY <1>1 DEF Screen

\* Between ticks the frame is the screen of the view drawn last, and the view presented last
\* has the same layers.
FrameInvariant ==
  /\ pressed_mask \in Masks
  /\ previous \in Views \cup {Nil} /\ last_view \in Views \cup {Nil}
  /\ previous = Nil <=> last_view = Nil
  /\ frame = IF previous = Nil THEN Blank ELSE Screen(previous)
  /\ previous # Nil =>
       \A region \in Regions : Layers(region, previous) = Layers(region, last_view)

\* The view of a state of the engine is one of the views.
LEMMA RenderedIsView ==
  ASSUME NEW state \in Runtimes, NEW mask \in Masks
  PROVE  RenderedView(state, mask) \in Views /\ RenderedView(state, mask) # Nil
PROOF  BY DisplayAssumption

\* What drawing does to the frame and to dirty_pending.
LEMMA RenderDraws ==
  ASSUME FrameInvariant, NEW view \in Views, Render(view)
  PROVE  /\ previous' = view /\ frame' = Screen(view)
         /\ dirty_pending' = (dirty_pending \/ DOMAIN ViewWrites(previous, view) # {})
         /\ DOMAIN ViewWrites(previous, view) = {} => frame' = frame /\ previous # Nil
PROOF
<1>1. Writes[previous][view] = ViewWrites(previous, view)
  BY DEF FrameInvariant, Writes
<1> DEFINE writes == ViewWrites(previous, view)
<1>2. /\ frame' = [p \in Pixels |-> IF p \in DOMAIN writes THEN writes[p] ELSE frame[p]]
      /\ dirty_pending' = (dirty_pending \/ DOMAIN writes # {})
      /\ previous' = view
  BY <1>1 DEF Render
<1>3. frame' = Screen(view)
  <2>1. frame = IF previous = Nil THEN Blank ELSE Screen(previous)
    BY DEF FrameInvariant
  <2> QED  BY <1>2, <2>1, WritesMakeScreen
<1>4. ASSUME DOMAIN writes = {}  PROVE frame' = frame
  <2>1. frame = [p \in Pixels |-> frame[p]]
    <3>1. Screen(previous) = [p \in Pixels |-> Screen(previous)[p]]
      BY DEF Screen
    <3>2. Blank = [p \in Pixels |-> Blank[p]]
      BY DEF Blank
    <3> QED  BY <3>1, <3>2 DEF FrameInvariant
  <2> HIDE DEF writes
  <2> QED  BY <1>2, <1>4, <2>1
<1>5. ASSUME previous = Nil  PROVE DOMAIN writes # {}
  <2>1. PICK p \in Pixels, region \in Regions : Within(p, Rect(region))
    BY DisplayAssumption
  <2>2. region \in Redrawn(previous, view)
    BY <1>5 DEF Redrawn
  <2>3. p \in DOMAIN writes
    BY <1>5, <2>1, <2>2, ViewWritesDraw
  <2> QED  BY <2>3
<1> QED  BY <1>2, <1>3, <1>4, <1>5

\* The end of a tick leaves the frame that of the view presented; without a view to send, it
\* leaves the frame alone.
LEMMA PresentKeepsFrame ==
  ASSUME FrameInvariant, NEW view \in Views, view # Nil, Present(view), pressed_mask' \in Masks,
         dirty_pending \in BOOLEAN
  PROVE  /\ FrameInvariant'
         /\ dirty_pending' \in BOOLEAN
         /\ ~dirty_pending' => ~dirty_pending /\ frame' = frame /\ previous # Nil
PROOF
<1>1. last_view' = view
  BY DEF Present
<1>2. CASE last_view # Nil /\ same_view(last_view, view)
  <2>1. UNCHANGED <<previous, frame, dirty_pending>>
    BY <1>2 DEF Present
  <2>2. \A region \in Regions : Layers(region, previous) = Layers(region, view)
    BY <1>2, SameViewSameLayers DEF FrameInvariant
  <2>3. previous # Nil
    BY <1>2 DEF FrameInvariant
  <2>4. FrameInvariant'
    BY <1>1, <2>1, <2>2, <2>3 DEF FrameInvariant, Blank
  <2> QED  BY <2>1, <2>3, <2>4
<1>3. CASE ~(last_view # Nil /\ same_view(last_view, view))
  <2>1. Render(view)
    BY <1>3 DEF Present
  <2>2. /\ previous' = view /\ frame' = Screen(view)
        /\ dirty_pending' = (dirty_pending \/ DOMAIN ViewWrites(previous, view) # {})
        /\ DOMAIN ViewWrites(previous, view) = {} => frame' = frame /\ previous # Nil
    BY <2>1, RenderDraws
  <2>3. FrameInvariant'
    BY <1>1, <2>2 DEF FrameInvariant
  <2> QED  BY <2>2, <2>3
<1> QED  BY <1>2, <1>3

\* Nothing else draws.
LEMMA OthersKeepFrame ==
  ASSUME FrameInvariant, UNCHANGED view_vars
  PROVE  FrameInvariant'
PROOF  BY DEF FrameInvariant, view_vars, Blank

\* A reset clears the frame.
LEMMA BootClearsFrame ==
  ASSUME Booted
  PROVE  FrameInvariant'
PROOF  BY DisplayAssumption DEF Booted, FrameInvariant, Blank

\* What it holds shows that the frame is fresh.
LEMMA FrameInvariantFresh == FrameInvariant => FrameIsFresh
PROOF
<1> SUFFICES ASSUME FrameInvariant, last_view # Nil  PROVE frame = Screens[last_view]
  BY DEF FrameIsFresh
<1>1. frame = Screen(previous) /\ last_view \in Views
  BY DEF FrameInvariant
<1>2. Screen(previous) = Screen(last_view)
  BY LayersGiveScreen DEF FrameInvariant
<1> QED  BY <1>1, <1>2 DEF Screens

-----------------------------------------------------------------------------
(***************************************************************************)
(* The panel. After initialize() it is on and readable and stays so; a     *)
(* transfer fills it from the top, a chunk at a time, and the rows sent    *)
(* are those of the frame unless something was drawn since it began, and   *)
(* then another transfer is due.                                           *)
(***************************************************************************)
Fields == {"pixels", "receiving", "received", "awake", "on", "madctl", "pixel_format", "columns", "rows"}

\* What each command but reset does to the panel.
Follows(state, order, after) ==
  /\ DOMAIN after = Fields
  /\ after.pixels = state.pixels
  /\ after.receiving = Is(order, \h2C)
  /\ after.received = Set(order, \h2C, 0, state.received)
  /\ after.awake = Set(order, \h11, TRUE, state.awake)
  /\ after.on = Set(order, \h29, TRUE, state.on)
  /\ after.madctl = Set(order, \h36, order.parameters[1], state.madctl)
  /\ after.pixel_format = Set(order, \h3A, order.parameters[1], state.pixel_format)
  /\ after.columns = Set(order, \h2A, Ends(order.parameters), state.columns)
  /\ after.rows = Set(order, \h2B, Ends(order.parameters), state.rows)

LEMMA Obeys ==
  ASSUME NEW state, NEW order, ~Is(order, \h01)
  PROVE  Follows(state, order, state ++ order)
PROOF
<1> DEFINE after == state ++ order
<1>1. after = [pixels |-> state.pixels,
        receiving |-> Is(order, \h2C), received |-> Set(order, \h2C, 0, state.received),
        awake |-> Set(order, \h11, TRUE, state.awake), on |-> Set(order, \h29, TRUE, state.on),
        madctl |-> Set(order, \h36, order.parameters[1], state.madctl),
        pixel_format |-> Set(order, \h3A, order.parameters[1], state.pixel_format),
        columns |-> Set(order, \h2A, Ends(order.parameters), state.columns),
        rows |-> Set(order, \h2B, Ends(order.parameters), state.rows)]
  <2>1. after = Followed(state, order)
    BY DEF ++
  <2> QED  BY <2>1 DEF Followed
<1> HIDE DEF after
<1>2. DOMAIN after = Fields
  BY <1>1 DEF Fields
<1>3. after.pixels = state.pixels
  BY <1>1
<1>4. after.receiving = Is(order, \h2C) /\ after.received = Set(order, \h2C, 0, state.received)
  BY <1>1
<1>5. Follows(state, order, after)
  BY <1>1, <1>2, <1>3, <1>4 DEF Follows
<1> QED  BY <1>5 DEF after

LEMMA ResetObeys ==
  ASSUME NEW state, NEW order, Is(order, \h01)
  PROVE  state ++ order = Reset(state)
PROOF  BY Zenon DEF ++

\* The fields that show whether the panel is readable, and its memory.
Reads(state, madctl, format, awake, on, pixels) ==
  /\ DOMAIN state = Fields
  /\ state.madctl = madctl /\ state.pixel_format = format
  /\ state.awake = awake /\ state.on = on
  /\ state.pixels = pixels

\* Commands that leave them.
Other(order) ==
  /\ ~Is(order, \h01) /\ ~Is(order, \h11) /\ ~Is(order, \h29)
  /\ ~Is(order, \h36) /\ ~Is(order, \h3A)

LEMMA OtherCommands ==
  ASSUME NEW value, NEW parameters, value # \h01, value # \h11, value # \h29, value # \h36, value # \h3A
  PROVE  Other(command(value, parameters))
PROOF
<1>1. command(value, parameters).value = value
  BY DEF command
<1> QED  BY <1>1 DEF Other, Is

LEMMA OthersLeaveReads ==
  ASSUME NEW state, NEW madctl, NEW format, NEW awake, NEW on, NEW pixels,
         Reads(state, madctl, format, awake, on, pixels), NEW order, Other(order)
  PROVE  Reads(state ++ order, madctl, format, awake, on, pixels)
PROOF
<1> DEFINE after == state ++ order
<1>1. Follows(state, order, after)
  BY Obeys DEF Other
<1> HIDE DEF after
<1>2. Reads(after, madctl, format, awake, on, pixels)
  BY <1>1 DEF Other, Follows, Set, Reads
<1> QED  BY <1>2 DEF after

\* After initialize() the panel is on and reads the bytes as they are sent; its memory is left.
LEMMA InitializedReads ==
  ASSUME NEW state, NEW after, after = Initialized(state)
  PROVE  Readable(after) /\ DOMAIN after = Fields /\ after.pixels = state.pixels
PROOF
<1> DEFINE unlocked == Reset(state) ++ SoftwareReset
                         ++ command(\hF0, <<\hC3>>) ++ command(\hF0, <<\h96>>) ++ command(\hC5, <<\h1C>>)
           turned == unlocked ++ command(\h36, <<MadctlLandscape>>)
           formatted == turned ++ command(\h3A, <<PixelFormatRgb565>>)
           tuned == formatted ++ command(\hB0, <<\h80>>) ++ command(\hB4, <<\h00>>)
                      ++ command(\hB6, <<\h80, \h02, \h3B>>) ++ command(\hB7, <<\hC6>>)
                      ++ command(\hF0, <<\h69>>) ++ command(\hF0, <<\h3C>>)
           awake == tuned ++ SleepOut
           normal == awake ++ command(\h13, <<>>) ++ command(\h20, <<>>)
<1>1. after = normal ++ DisplayOn
  BY DEF Initialized
<1>2. \A value, parameters : /\ command(value, parameters).value = value
                             /\ command(value, parameters).parameters = parameters
  BY DEF command
<1>0. /\ Other(command(\hF0, <<\hC3>>)) /\ Other(command(\hF0, <<\h96>>))
      /\ Other(command(\hC5, <<\h1C>>)) /\ Other(command(\hB0, <<\h80>>))
      /\ Other(command(\hB4, <<\h00>>)) /\ Other(command(\hB6, <<\h80, \h02, \h3B>>))
      /\ Other(command(\hB7, <<\hC6>>)) /\ Other(command(\hF0, <<\h69>>))
      /\ Other(command(\hF0, <<\h3C>>)) /\ Other(command(\h13, <<>>)) /\ Other(command(\h20, <<>>))
  BY OtherCommands
<1>3. Reads(unlocked, 0, \h66, FALSE, FALSE, state.pixels)
  <2> DEFINE blank == Reset(state) ++ SoftwareReset
  <2>1. blank = Powered(state.pixels)
    <3>1. Is(SoftwareReset, \h01)
      BY DEF Is, SoftwareReset, command
    <3>2. blank = Reset(Reset(state))
      BY <3>1, ResetObeys
    <3>3. Reset(Reset(state)) = Powered(Powered(state.pixels).pixels)
      BY Zenon DEF Reset
    <3>4. Powered(state.pixels).pixels = state.pixels
      BY DEF Powered
    <3> QED  BY <3>2, <3>3, <3>4
  <2>2. Reads(blank, 0, \h66, FALSE, FALSE, state.pixels)
    BY <2>1 DEF Powered, Reads, Fields
  <2> HIDE DEF blank
  <2> DEFINE first == blank ++ command(\hF0, <<\hC3>>)
             second == first ++ command(\hF0, <<\h96>>)
             Still(now) == Reads(now, 0, \h66, FALSE, FALSE, state.pixels)
  <2>3. unlocked = second ++ command(\hC5, <<\h1C>>)
    BY DEF blank
  <2> HIDE DEF blank, unlocked
  <2>4. Still(first)   BY <1>0, <2>2, OthersLeaveReads
  <2> HIDE DEF first
  <2>5. Still(second)  BY <1>0, <2>4, OthersLeaveReads
  <2> HIDE DEF second
  <2> QED  BY <1>0, <2>3, <2>5, OthersLeaveReads
<1> HIDE DEF unlocked
<1>4. Reads(turned, MadctlLandscape, \h66, FALSE, FALSE, state.pixels)
  <2> DEFINE order == command(\h36, <<MadctlLandscape>>)
  <2>1. order.value = \h36 /\ order.parameters[1] = MadctlLandscape
    BY <1>2
  <2>2. Follows(unlocked, order, turned)
    BY <2>1, Obeys DEF Is
  <2> HIDE DEF order, turned
  <2> QED  BY <1>3, <2>1, <2>2 DEF Follows, Reads, Is, Set
<1> HIDE DEF turned
<1>5. Reads(formatted, MadctlLandscape, PixelFormatRgb565, FALSE, FALSE, state.pixels)
  <2> DEFINE order == command(\h3A, <<PixelFormatRgb565>>)
  <2>1. order.value = \h3A /\ order.parameters[1] = PixelFormatRgb565
    BY <1>2
  <2>2. Follows(turned, order, formatted)
    BY <2>1, Obeys DEF Is
  <2> HIDE DEF order, formatted
  <2> QED  BY <1>4, <2>1, <2>2 DEF Follows, Reads, Is, Set
<1> HIDE DEF formatted
<1>6. Reads(tuned, MadctlLandscape, PixelFormatRgb565, FALSE, FALSE, state.pixels)
  <2> DEFINE first == formatted ++ command(\hB0, <<\h80>>)
             second == first ++ command(\hB4, <<\h00>>)
             third == second ++ command(\hB6, <<\h80, \h02, \h3B>>)
             fourth == third ++ command(\hB7, <<\hC6>>)
             fifth == fourth ++ command(\hF0, <<\h69>>)
             Still(now) == Reads(now, MadctlLandscape, PixelFormatRgb565, FALSE, FALSE, state.pixels)
  <2>1. Still(first)   BY <1>0, <1>5, OthersLeaveReads
  <2> HIDE DEF first
  <2>2. Still(second)  BY <1>0, <2>1, OthersLeaveReads
  <2> HIDE DEF second
  <2>3. Still(third)   BY <1>0, <2>2, OthersLeaveReads
  <2> HIDE DEF third
  <2>4. Still(fourth)  BY <1>0, <2>3, OthersLeaveReads
  <2> HIDE DEF fourth
  <2>5. Still(fifth)   BY <1>0, <2>4, OthersLeaveReads
  <2>6. tuned = fifth ++ command(\hF0, <<\h3C>>)
    BY DEF first, second, third, fourth
  <2> HIDE DEF fifth, tuned
  <2> QED  BY <1>0, <2>5, <2>6, OthersLeaveReads
<1> HIDE DEF tuned
<1>7. Reads(awake, MadctlLandscape, PixelFormatRgb565, TRUE, FALSE, state.pixels)
  <2>1. SleepOut.value = \h11
    BY DEF SleepOut, command
  <2>2. Follows(tuned, SleepOut, awake)
    BY <2>1, Obeys DEF Is
  <2> HIDE DEF awake
  <2> QED  BY <1>6, <2>1, <2>2 DEF Follows, Reads, Is, Set
<1> HIDE DEF awake
<1>8. Reads(normal, MadctlLandscape, PixelFormatRgb565, TRUE, FALSE, state.pixels)
  <2>1. Reads(awake ++ command(\h13, <<>>), MadctlLandscape, PixelFormatRgb565, TRUE, FALSE,
              state.pixels)
    BY <1>0, <1>7, OthersLeaveReads
  <2> QED  BY <1>0, <2>1, OthersLeaveReads
<1> HIDE DEF normal
<1>9. Reads(after, MadctlLandscape, PixelFormatRgb565, TRUE, TRUE, state.pixels)
  <2>1. DisplayOn.value = \h29
    BY DEF DisplayOn, command
  <2>2. Follows(normal, DisplayOn, after)
    BY <1>1, <2>1, Obeys DEF Is
  <2> QED  BY <1>8, <2>1, <2>2 DEF Follows, Reads, Is, Set
<1> QED  BY <1>9 DEF Reads, Readable

\* The pixels sent next fill the whole screen from its first one on.
Filling(state) ==
  /\ state.receiving
  /\ state.columns = <<0, 479>> /\ state.rows = <<0, 319>>

\* So they do after the commands that begin a transfer.
LEMMA WindowFills ==
  ASSUME NEW state, Readable(state), DOMAIN state = Fields,
         NEW after, after = set_window(state, FullScreen) ++ MemoryWrite
  PROVE  /\ Readable(after) /\ DOMAIN after = Fields /\ after.pixels = state.pixels
         /\ Filling(after) /\ after.received = 0
PROOF
<1> DEFINE across == command(\h2A, EndBytes(0, 0 + 480 - 1))
           down == command(\h2B, EndBytes(0, 0 + 320 - 1))
           wide == state ++ across
           full == wide ++ down
<1>1. after = full ++ MemoryWrite
  BY Zenon DEF set_window, FullScreen, ScreenWidth, ScreenHeight
<1>2. across.value = \h2A /\ Ends(across.parameters) = <<0, 479>>
  BY DEF command, EndBytes, Ends
<1>3. down.value = \h2B /\ Ends(down.parameters) = <<0, 319>>
  BY DEF command, EndBytes, Ends
<1>4. MemoryWrite.value = \h2C
  BY DEF MemoryWrite, command
<1>5. wide = state ++ across
  OBVIOUS
<1>6. full = wide ++ down
  OBVIOUS
<1> HIDE DEF across, down, wide, full
<1> DEFINE Known(now) == Reads(now, MadctlLandscape, PixelFormatRgb565, state.awake, state.on,
                               state.pixels)
<1>0. Other(across) /\ Other(down) /\ Other(MemoryWrite)
  BY <1>2, <1>3, <1>4 DEF Other, Is
<1>7. Known(state)
  BY DEF Readable, Reads
<1>8. Known(wide) /\ wide.columns = <<0, 479>>
  <2>1. Known(wide)
    BY <1>0, <1>5, <1>7, OthersLeaveReads
  <2>2. Follows(state, across, wide)
    BY <1>2, <1>5, Obeys DEF Is
  <2>3. wide.columns = <<0, 479>>
    BY <1>2, <2>2 DEF Follows, Is, Set
  <2> QED  BY <2>1, <2>3
<1>9. Known(full) /\ full.columns = <<0, 479>> /\ full.rows = <<0, 319>>
  <2>1. Known(full)
    BY <1>0, <1>6, <1>8, OthersLeaveReads
  <2>2. Follows(wide, down, full)
    BY <1>3, <1>6, Obeys DEF Is
  <2>3. full.columns = <<0, 479>> /\ full.rows = <<0, 319>>
    BY <1>3, <1>8, <2>2 DEF Follows, Is, Set
  <2> QED  BY <2>1, <2>3
<1>10. Known(after)
  BY <1>0, <1>1, <1>9, OthersLeaveReads
<1>11. Filling(after) /\ after.received = 0
  <2>1. Follows(full, MemoryWrite, after)
    BY <1>1, <1>4, Obeys DEF Is
  <2>2. after.columns = full.columns /\ after.rows = full.rows
    BY <1>4, <2>1 DEF Follows, Is, Set
  <2>3. after.receiving /\ after.received = 0
    BY <1>4, <2>1 DEF Follows, Is, Set
  <2> QED  BY <1>9, <2>2, <2>3 DEF Filling
<1> QED  BY <1>10, <1>11 DEF Reads, Readable

\* The rows from the top that the panel has got.
SentRows == IF busy THEN transfer_row ELSE transfer_row + chunk_rows

\* What holds while a transfer is on its way.
TransferInvariant ==
  /\ transfer_row \in Nat /\ chunk_rows \in Nat \ {0}
  /\ transfer_row + chunk_rows <= ScreenHeight
  /\ DOMAIN transfer_bytes = RowsOf(transfer_row, chunk_rows)
  /\ Filling(panel) /\ panel.received = ScreenWidth * SentRows
  /\ ~dirty_pending =>
       /\ \A p \in Pixels : p.y < SentRows => panel.pixels[p] = frame[p]
       /\ busy => \A p \in DOMAIN transfer_bytes : transfer_bytes[p] = frame[p]

\* A transfer is on its way, or due, or the panel shows the frame.
PanelInvariant ==
  /\ Readable(panel) /\ DOMAIN panel = Fields
  /\ panel.pixels = [p \in Pixels |-> panel.pixels[p]]
  /\ dirty_pending \in BOOLEAN /\ busy \in BOOLEAN
  /\ transfer_active = chunk_pending /\ chunk_pending \in BOOLEAN
  /\ busy => chunk_pending
  /\ chunk_pending => TransferInvariant
  /\ previous # Nil /\ ~dirty_pending /\ ~chunk_pending => panel.pixels = frame

\* A pixel is one of the chunk's when its row is, and its place in the chunk gives its row and
\* column back.
InChunkByRow(order, y, row, rows) ==
  order \in 480 * row .. 480 * row + rows * 480 - 1 <=> y \in row .. row + rows - 1

LEMMA RowsInOrder ==
  ASSUME NEW x \in 0 .. 479, NEW y \in Int, NEW row \in Int, NEW rows \in Int
  PROVE  InChunkByRow(y * 480 + x, y, row, rows)
PROOF  BY DEF InChunkByRow

Placed(order, x, y, row) ==
  (order - 480 * row) % 480 = x /\ row + (order - 480 * row) \div 480 = y

LEMMA PlaceInChunk ==
  ASSUME NEW x \in 0 .. 479, NEW y \in Int, NEW row \in Int, row <= y
  PROVE  Placed(y * 480 + x, x, y, row)
PROOF
<1> DEFINE down == y - row
<1>1. down \in Nat /\ y * 480 + x - 480 * row = 480 * down + x /\ y = row + down
  OBVIOUS
<1> HIDE DEF down
<1>2. (480 * down + x) % 480 = x /\ (480 * down + x) \div 480 = down
  BY <1>1
<1> QED  BY <1>1, <1>2 DEF Placed

\* The panel puts the pixels of the chunk into its rows.
LEMMA ChunkArrives ==
  ASSUME PanelInvariant, FinishDma
  PROVE  /\ DOMAIN panel' = Fields /\ Readable(panel)' /\ Filling(panel)'
         /\ panel'.received = ScreenWidth * (transfer_row + chunk_rows)
         /\ panel'.pixels = [p \in Pixels |->
              IF p.y \in transfer_row .. transfer_row + chunk_rows - 1
              THEN transfer_bytes[p] ELSE panel.pixels[p]]
PROOF
<1>1. /\ transfer_row \in Nat /\ chunk_rows \in Nat \ {0}
      /\ DOMAIN transfer_bytes = RowsOf(transfer_row, chunk_rows)
      /\ Filling(panel) /\ panel.received = 480 * transfer_row
      /\ DOMAIN panel = Fields /\ Readable(panel)
      /\ panel.pixels = [p \in Pixels |-> panel.pixels[p]]
  BY DEF PanelInvariant, TransferInvariant, FinishDma, SentRows, ScreenWidth
<1> DEFINE count == chunk_rows * 480
           arrived(p) == /\ Addressed(panel, p)
                         /\ OrderOf(panel, p) \in panel.received .. panel.received + count - 1
           memory == [p \in DOMAIN panel.pixels |->
                        IF arrived(p) THEN SentPixel(OrderOf(panel, p) - panel.received)
                        ELSE panel.pixels[p]]
<1>2. panel' = [panel EXCEPT !.pixels = memory, !.received = panel.received + count]
  BY <1>1 DEF FinishDma, Receiving, Filling, ScreenWidth
<1>3. ASSUME NEW p \in Pixels
      PROVE  /\ arrived(p) <=> p.y \in transfer_row .. transfer_row + chunk_rows - 1
             /\ arrived(p) => SentPixel(OrderOf(panel, p) - panel.received) = transfer_bytes[p]
  <2>1. p.x \in 0 .. 479 /\ p.y \in 0 .. 319 /\ p = [x |-> p.x, y |-> p.y]
    BY PixelType
  <2>2. Addressed(panel, p) /\ OrderOf(panel, p) = p.y * 480 + p.x
    <3>1. /\ panel.columns[1] = 0 /\ panel.columns[2] = 479
          /\ panel.rows[1] = 0 /\ panel.rows[2] = 319
      BY <1>1 DEF Filling
    <3> QED  BY <2>1, <3>1 DEF Addressed, OrderOf, Width
  <2> DEFINE order == OrderOf(panel, p)
  <2>3. order = p.y * 480 + p.x
    BY <2>2
  <2> HIDE DEF order
  <2>4. InChunkByRow(order, p.y, transfer_row, chunk_rows)
    <3>1. p.x \in 0 .. 479 /\ p.y \in Int /\ transfer_row \in Int /\ chunk_rows \in Int
      BY <1>1, <2>1
    <3>2. InChunkByRow(p.y * 480 + p.x, p.y, transfer_row, chunk_rows)
      BY <3>1, RowsInOrder
    <3> QED  BY <2>3, <3>2, Zenon
  <2>5. ASSUME p.y \in transfer_row .. transfer_row + chunk_rows - 1
        PROVE  SentPixel(order - 480 * transfer_row) = transfer_bytes[p]
    <3> DEFINE n == order - 480 * transfer_row
    <3>1. n % 480 = p.x /\ transfer_row + n \div 480 = p.y
      <4>1. p.x \in 0 .. 479 /\ p.y \in Int /\ transfer_row \in Int /\ transfer_row <= p.y
        BY <1>1, <2>1, <2>5
      <4>2. Placed(p.y * 480 + p.x, p.x, p.y, transfer_row)
        BY <4>1, PlaceInChunk
      <4> QED  BY <2>3, <4>2, Zenon DEF Placed
    <3> HIDE DEF n
    <3>2. p \in DOMAIN transfer_bytes
      BY <1>1, <2>5 DEF RowsOf
    <3>3. SentPixel(n) = transfer_bytes[p]
      BY <2>1, <3>1, <3>2 DEF SentPixel, ScreenWidth
    <3> QED  BY <3>3 DEF n
  <2> QED  BY <1>1, <2>2, <2>4, <2>5 DEF order, InChunkByRow
<1> HIDE DEF arrived
<1>4. memory = [p \in Pixels |-> IF p.y \in transfer_row .. transfer_row + chunk_rows - 1
                                 THEN transfer_bytes[p] ELSE panel.pixels[p]]
  BY <1>1, <1>3
<1> HIDE DEF memory
<1>5. /\ DOMAIN panel' = Fields
      /\ panel'.pixels = memory /\ panel'.received = panel.received + count
      /\ panel'.awake = panel.awake /\ panel'.on = panel.on /\ panel'.madctl = panel.madctl
      /\ panel'.pixel_format = panel.pixel_format /\ panel'.receiving = panel.receiving
      /\ panel'.columns = panel.columns /\ panel'.rows = panel.rows
  BY <1>1, <1>2 DEF Fields
<1>6. Readable(panel)' /\ Filling(panel)'
  BY <1>1, <1>5 DEF Readable, Filling
<1>7. panel'.received = ScreenWidth * (transfer_row + chunk_rows)
  BY <1>1, <1>5 DEF ScreenWidth
<1> QED  BY <1>4, <1>5, <1>6, <1>7

\* The next rows are of the frame, and on the screen.
LEMMA ChunkIsSent ==
  ASSUME NEW row \in Nat, row < ScreenHeight, SendChunk(row)
  PROVE  /\ transfer_row' = row /\ transfer_active' /\ chunk_pending' /\ busy'
         /\ chunk_rows' \in Nat \ {0} /\ row + chunk_rows' <= ScreenHeight
         /\ transfer_bytes' = [p \in RowsOf(row, chunk_rows') |-> frame[p]]
PROOF
<1>1. RowsPerService \in Nat \ {0} /\ ScreenHeight - row \in Nat \ {0}
  BY DisplayAssumption DEF ScreenHeight
<1>2. Min({RowsPerService, ScreenHeight - row}) \in {RowsPerService, ScreenHeight - row}
      /\ Min({RowsPerService, ScreenHeight - row}) <= ScreenHeight - row
  BY <1>1, OfTwo
<1>3. chunk_rows' = Min({RowsPerService, ScreenHeight - row})
  BY DEF SendChunk
<1>4. chunk_rows' \in Nat \ {0} /\ row + chunk_rows' <= ScreenHeight
  BY <1>1, <1>2, <1>3 DEF ScreenHeight
<1> QED  BY <1>4 DEF SendChunk

\* The step of drawing: a frame that changed is due.
LEMMA DrawingKeepsPanel ==
  ASSUME PanelInvariant, UNCHANGED <<transfer_vars, panel>>, dirty_pending' \in BOOLEAN,
         ~dirty_pending' => ~dirty_pending /\ frame' = frame /\ previous # Nil
  PROVE  PanelInvariant'
PROOF
<1>1. chunk_pending => TransferInvariant'
  BY DEF PanelInvariant, TransferInvariant, transfer_vars, SentRows, RowsOf
<1> QED  BY <1>1 DEF PanelInvariant, transfer_vars

LEMMA EndKeepsPanel ==
  ASSUME PanelInvariant, FrameInvariant, EndTransfer, ~busy, UNCHANGED view_vars
  PROVE  PanelInvariant'
PROOF
<1>1. ASSUME ~dirty_pending  PROVE panel.pixels = frame
  <2>1. /\ transfer_row + chunk_rows = 320
        /\ \A p \in Pixels : p.y < transfer_row + chunk_rows => panel.pixels[p] = frame[p]
    BY <1>1 DEF PanelInvariant, TransferInvariant, EndTransfer, SentRows, ScreenHeight
  <2>2. \A p \in Pixels : panel.pixels[p] = frame[p]
    BY <2>1, PixelType
  <2>3. frame = [p \in Pixels |-> frame[p]]
    <3>1. Screen(previous) = [p \in Pixels |-> Screen(previous)[p]]
      BY DEF Screen
    <3>2. Blank = [p \in Pixels |-> Blank[p]]
      BY DEF Blank
    <3> QED  BY <3>1, <3>2 DEF FrameInvariant
  <2>4. panel.pixels = [p \in Pixels |-> panel.pixels[p]]
    BY DEF PanelInvariant
  <2> QED  BY <2>2, <2>3, <2>4
<1>2. /\ ~chunk_pending' /\ chunk_pending' \in BOOLEAN /\ transfer_active' = chunk_pending'
      /\ UNCHANGED <<busy, dirty_pending, panel, previous, frame>>
  BY DEF EndTransfer, Idle, view_vars
<1> QED  BY <1>1, <1>2 DEF PanelInvariant

LEMMA ContinueKeepsPanel ==
  ASSUME PanelInvariant, ContinueTransfer, ~busy, UNCHANGED view_vars
  PROVE  PanelInvariant'
PROOF
<1> DEFINE row == transfer_row + chunk_rows
<1>1. /\ row \in Nat /\ row < ScreenHeight /\ Filling(panel) /\ panel.received = ScreenWidth * row
      /\ ~dirty_pending => \A p \in Pixels : p.y < row => panel.pixels[p] = frame[p]
  BY DEF PanelInvariant, TransferInvariant, ContinueTransfer, SentRows, ScreenHeight
<1>2. SendChunk(row) /\ UNCHANGED <<dirty_pending, panel, previous, frame>>
  BY DEF ContinueTransfer, view_vars
<1> HIDE DEF row
<1>3. /\ transfer_row' = row /\ transfer_active' /\ chunk_pending' /\ busy'
      /\ chunk_rows' \in Nat \ {0} /\ row + chunk_rows' <= ScreenHeight
      /\ transfer_bytes' = [p \in RowsOf(row, chunk_rows') |-> frame[p]]
  BY <1>1, <1>2, ChunkIsSent
<1>4. TransferInvariant'
  BY <1>1, <1>2, <1>3 DEF TransferInvariant, SentRows, RowsOf, ScreenHeight
<1>5. transfer_active' = TRUE /\ chunk_pending' = TRUE /\ busy' = TRUE
  BY <1>2 DEF SendChunk
<1> QED  BY <1>2, <1>4, <1>5 DEF PanelInvariant

LEMMA BeginKeepsPanel ==
  ASSUME PanelInvariant, BeginTransfer, UNCHANGED view_vars
  PROVE  PanelInvariant'
PROOF
<1>1. /\ Readable(panel') /\ DOMAIN panel' = Fields /\ panel'.pixels = panel.pixels
      /\ Filling(panel') /\ panel'.received = 0
  BY WindowFills DEF PanelInvariant, BeginTransfer
<1>2. /\ transfer_row' = 0 /\ transfer_active' /\ chunk_pending' /\ busy'
      /\ chunk_rows' \in Nat \ {0} /\ 0 + chunk_rows' <= ScreenHeight
      /\ transfer_bytes' = [p \in RowsOf(0, chunk_rows') |-> frame[p]]
  BY ChunkIsSent DEF BeginTransfer, ScreenHeight
<1>3. dirty_pending' = FALSE /\ UNCHANGED <<previous, frame>>
  BY DEF BeginTransfer, view_vars
<1>4. TransferInvariant'
  <2>1. \A p \in Pixels : ~(p.y < 0)
    BY PixelType
  <2>2. busy' = TRUE /\ SentRows' = 0
    BY <1>2, Zenon DEF BeginTransfer, SendChunk, SentRows
  <2>3. ScreenWidth * 0 = 0
    BY DEF ScreenWidth
  <2>4. RowsOf(transfer_row, chunk_rows)' = RowsOf(0, chunk_rows')
    BY <1>2 DEF RowsOf
  <2>5. DOMAIN transfer_bytes' = RowsOf(transfer_row, chunk_rows)'
    BY <1>2, <2>4
  <2>6. \A p \in DOMAIN transfer_bytes' : transfer_bytes'[p] = frame'[p]
    BY <1>2, <1>3
  <2> QED  BY <1>1, <1>2, <2>1, <2>2, <2>3, <2>5, <2>6 DEF TransferInvariant
<1>5. transfer_active' = TRUE /\ chunk_pending' = TRUE /\ busy' = TRUE
  BY DEF BeginTransfer, SendChunk
<1> QED  BY <1>1, <1>3, <1>4, <1>5 DEF PanelInvariant

LEMMA FinishKeepsPanel ==
  ASSUME PanelInvariant, FinishDma
  PROVE  PanelInvariant'
PROOF
<1>1. /\ busy' = FALSE
      /\ UNCHANGED <<previous, frame, dirty_pending, transfer_active, transfer_row, chunk_pending,
                     chunk_rows, transfer_bytes>>
  BY DEF FinishDma, view_vars
<1>2. chunk_pending /\ TransferInvariant /\ busy
  BY DEF FinishDma, PanelInvariant
<1>3. /\ DOMAIN panel' = Fields /\ Readable(panel)' /\ Filling(panel)'
      /\ panel'.received = ScreenWidth * (transfer_row + chunk_rows)
      /\ panel'.pixels = [p \in Pixels |->
           IF p.y \in transfer_row .. transfer_row + chunk_rows - 1
           THEN transfer_bytes[p] ELSE panel.pixels[p]]
  BY ChunkArrives
<1>4. ASSUME ~dirty_pending, NEW p \in Pixels, p.y < transfer_row + chunk_rows
      PROVE  panel'.pixels[p] = frame[p]
  <2>1. transfer_row \in Nat /\ chunk_rows \in Nat /\ p.y \in Nat
    BY <1>2, PixelType DEF TransferInvariant
  <2>2. CASE p.y < transfer_row
    <3>1. panel.pixels[p] = frame[p]
      BY <1>2, <1>4, <2>2 DEF TransferInvariant, SentRows
    <3> QED  BY <1>3, <2>1, <2>2, <3>1
  <2>3. CASE p.y \in transfer_row .. transfer_row + chunk_rows - 1
    <3>1. p \in DOMAIN transfer_bytes
      BY <1>2, <2>3 DEF TransferInvariant, RowsOf
    <3>2. transfer_bytes[p] = frame[p]
      BY <1>2, <1>4, <3>1 DEF TransferInvariant
    <3> QED  BY <1>3, <2>3, <3>2
  <2> QED  BY <1>4, <2>1, <2>2, <2>3
<1>5. TransferInvariant'
  BY <1>1, <1>2, <1>3, <1>4 DEF TransferInvariant, SentRows, RowsOf
<1>6. panel'.pixels = [p \in Pixels |-> panel'.pixels[p]]
  BY <1>3
<1> QED  BY <1>1, <1>2, <1>3, <1>5, <1>6 DEF PanelInvariant

-----------------------------------------------------------------------------
(* The specification *)

DisplayInvariant == FrameInvariant /\ PanelInvariant

LEMMA DisplayStarts == Init => DisplayInvariant
PROOF
<1> SUFFICES ASSUME Init  PROVE DisplayInvariant
  OBVIOUS
<1> DEFINE memory == [p \in Pixels |-> <<>>]
<1>1. FrameInvariant
  BY DisplayAssumption DEF Init, FrameInvariant, Blank
<1>2. panel = Initialized(Powered(memory))
  BY DEF Init
<1>3. Powered(memory).pixels = memory
  BY DEF Powered
<1>4. Readable(panel) /\ DOMAIN panel = Fields /\ panel.pixels = memory
  BY <1>2, <1>3, InitializedReads
<1>5. PanelInvariant
  BY <1>4 DEF PanelInvariant, Init
<1> QED  BY <1>1, <1>5 DEF DisplayInvariant

LEMMA DisplayGoesOn == DisplayInvariant /\ [Next]_vars => DisplayInvariant'
PROOF
<1> SUFFICES ASSUME DisplayInvariant, [Next]_vars  PROVE DisplayInvariant'
  OBVIOUS
<1> USE DEF DisplayInvariant
<1>0. dirty_pending \in BOOLEAN /\ pressed_mask \in Masks
  BY DEF PanelInvariant, FrameInvariant
<1>1. ASSUME NEW state \in Runtimes, Initialize(state)  PROVE DisplayInvariant'
  <2> DEFINE view == RenderedView(state, pressed_mask)
  <2>1. view \in Views /\ view # Nil
    BY <1>0, RenderedIsView
  <2>2. Present(view) /\ pressed_mask' \in Masks /\ UNCHANGED <<transfer_vars, panel>>
    BY <1>0, <1>1 DEF Initialize
  <2> HIDE DEF view
  <2>3. /\ FrameInvariant' /\ dirty_pending' \in BOOLEAN
        /\ ~dirty_pending' => ~dirty_pending /\ frame' = frame /\ previous # Nil
    BY <1>0, <2>1, <2>2, PresentKeepsFrame
  <2> QED  BY <2>2, <2>3, DrawingKeepsPanel
<1>2. ASSUME NEW state \in Runtimes, NEW mask \in Masks, Tick(state, mask)
      PROVE  DisplayInvariant'
  <2> DEFINE view == RenderedView(state, pressed_mask')
  <2>1. pressed_mask' \in Masks
    BY <1>0, <1>2, DisplayAssumption DEF Tick
  <2>2. view \in Views /\ view # Nil
    BY <2>1, RenderedIsView
  <2>3. Present(view) /\ UNCHANGED <<transfer_vars, panel>>
    BY <1>2 DEF Tick
  <2> HIDE DEF view
  <2>4. /\ FrameInvariant' /\ dirty_pending' \in BOOLEAN
        /\ ~dirty_pending' => ~dirty_pending /\ frame' = frame /\ previous # Nil
    BY <1>0, <2>1, <2>2, <2>3, PresentKeepsFrame
  <2> QED  BY <2>3, <2>4, DrawingKeepsPanel
<1>3. CASE Service
  <2>1. UNCHANGED view_vars /\ FrameInvariant'
    BY <1>3, OthersKeepFrame DEF Service
  <2>2. chunk_pending => ~busy
    BY <1>3 DEF Service, PanelInvariant
  <2>3. CASE EndTransfer
    BY <2>1, <2>2, <2>3, EndKeepsPanel DEF EndTransfer
  <2>4. CASE ContinueTransfer
    BY <2>1, <2>2, <2>4, ContinueKeepsPanel DEF ContinueTransfer
  <2>5. CASE BeginTransfer
    BY <2>1, <2>5, BeginKeepsPanel
  <2> QED  BY <1>3, <2>3, <2>4, <2>5 DEF Service
<1>4. CASE FinishDma
  BY <1>4, OthersKeepFrame, FinishKeepsPanel DEF FinishDma
<1>5. CASE Restart
  <2>1. FrameInvariant'
    BY <1>5, BootClearsFrame DEF Restart
  <2>2. panel' = Initialized(panel)
    BY <1>5 DEF Restart
  <2>3. Readable(panel') /\ DOMAIN panel' = Fields /\ panel'.pixels = panel.pixels
    BY <2>2, InitializedReads
  <2>4. PanelInvariant'
    BY <1>5, <2>3 DEF PanelInvariant, Restart, Booted
  <2> QED  BY <2>1, <2>4
<1>6. CASE UNCHANGED vars
  <2>1. UNCHANGED view_vars /\ UNCHANGED <<transfer_vars, panel>> /\ UNCHANGED dirty_pending
    BY <1>6 DEF vars
  <2>2. FrameInvariant'
    BY <2>1, OthersKeepFrame
  <2>3. PanelInvariant'
    BY <2>1 DEF view_vars, transfer_vars, PanelInvariant, TransferInvariant, SentRows, RowsOf
  <2> QED  BY <2>2, <2>3
<1> QED  BY <1>1, <1>2, <1>3, <1>4, <1>5, <1>6 DEF Next

\* FrameIsFresh of every reachable state: redrawing only what changed gives the screen that
\* drawing the view presented last at once would, for all views and all buffer sizes.
THEOREM FramesAreFresh == Spec => []FrameIsFresh
PROOF
<1>1. DisplayInvariant => FrameIsFresh
  BY FrameInvariantFresh DEF DisplayInvariant
<1> QED  BY <1>1, DisplayStarts, DisplayGoesOn, PTL DEF Spec

\* PanelShowsFrame of every reachable state: with nothing left to send the panel shows the
\* frame, whatever was drawn or reset while a transfer was on its way.
THEOREM PanelsShowFrames == Spec => []PanelShowsFrame
PROOF
<1>1. DisplayInvariant => PanelShowsFrame
  BY DEF DisplayInvariant, PanelInvariant, PanelShowsFrame, Shows
<1> QED  BY <1>1, DisplayStarts, DisplayGoesOn, PTL DEF Spec
=============================================================================
