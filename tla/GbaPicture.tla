----------------------------- MODULE GbaPicture ------------------------------
(***************************************************************************)
(* How a frame of the Game Boy Advance is drawn (src/core/gba/ppu.cpp).  A *)
(* line l is the record of the registers kept for it, v the three video    *)
(* memories: v.map[block][cell] is an entry of a tile map, and             *)
(* v.texel[wide][slot][y][x] a dot of the tile that begins at a slot of 32 *)
(* bytes, with 256 colours when wide.  A colour is <<r, g, b>>; index 0 of *)
(* a tile is transparent.                                                  *)
(***************************************************************************)
EXTENDS Integers, Sequences

LOCAL INSTANCE SequencesExt

CONSTANTS ScreenWidth, ScreenHeight,   \* 240 and 160
          HalfWidth, HalfHeight,       \* the bitmap of mode 5: 160 and 128
          TileSize,                    \* 8
          MapTiles,                    \* tiles in a row of a map's block (32)
          CharSlots,                   \* slots between two bases of tiles (512)
          CharLimit,                   \* slots a background reaches (2048)
          ObjSlots,                    \* slots of the objects (1024)
          ObjRow,                      \* slots in a row of them in two dimensions (32)
          AffineSize,                  \* dots of the smallest affine map (128)
          AffineOne,                   \* 1 in the affine parameters (256)
          Intensity,                   \* largest component of a colour (31)
          Blends                       \* parts of a blend (16)

ASSUME GbaPictureAssumption ==
    /\ ScreenWidth \in Nat \ {0} /\ ScreenHeight \in Nat \ {0} /\ TileSize \in Nat \ {0} /\ MapTiles \in Nat \ {0}
    /\ HalfWidth <= ScreenWidth /\ HalfHeight <= ScreenHeight
    /\ AffineSize \in Nat \ {0} /\ AffineOne \in Nat \ {0} /\ Blends \in Nat \ {0}

ObjLayer == 5
Backdrop == 4
EffectBit == 5
ObjWindow == 2   \* the third of the windows
AllLayers == 0..5
LayerBit(layer) == CASE layer \in 0..3 -> layer [] layer = ObjLayer -> 4 [] layer = Backdrop -> 5
Largest(a, b) == IF a > b THEN a ELSE b
Smallest(a, b) == IF a < b THEN a ELSE b

(* mosaicSampleCoord and wrapCoordinate                                    *)
Mosaic(at, on, span) == IF on THEN at - (at % span) ELSE at

-----------------------------------------------------------------------------
(* pointInsideWindowRange, pointInsideWindowRect and                       *)
(* windowMaskForPixelUncached: window 0 before window 1, then the objects' *)
InRange(value, first, last, limit) ==
    LET a == Smallest(first, limit)
        b == Smallest(last, limit)
    IN  IF a <= b THEN value \in a .. b - 1 ELSE value >= a \/ value < b

InRect(x, y, r) == InRange(x, r.left, r.right, ScreenWidth) /\ InRange(y, r.top, r.bottom, ScreenHeight)

WindowMask(l, x, y, inObjWindow) ==
    IF l.windows = {} THEN AllLayers
    ELSE IF 0 \in l.windows /\ InRect(x, y, l.rect[0]) THEN l.inside[0]
    ELSE IF 1 \in l.windows /\ InRect(x, y, l.rect[1]) THEN l.inside[1]
    ELSE IF ObjWindow \in l.windows /\ inObjWindow THEN l.inObjects
    ELSE l.outside

-----------------------------------------------------------------------------
(* renderTextBackground, and decodeTextBgSample: the palette's index of    *)
(* the dot, or 0.                                                          *)
BlocksWide(size) == IF size \in {1, 3} THEN 2 ELSE 1
BlocksHigh(size) == IF size \in {2, 3} THEN 2 ELSE 1
ScreenBlock(size, bx, by) == CASE size = 0 -> 0 [] size = 1 -> bx [] size = 2 -> by [] size = 3 -> by * 2 + bx

Flipped(at, flip, length) == IF flip THEN length - 1 - at ELSE at
InPalette(wide, bank, index) == IF wide \/ index = 0 THEN index ELSE bank * 16 + index

TextDot(v, l, n, x, y) ==
    LET b     == l.bg[n]
        block == TileSize * MapTiles
        sx    == (Mosaic(x, b.mosaic, l.mosaicX) + b.hofs) % (BlocksWide(b.size) * block)
        sy    == (Mosaic(y, b.mosaic, l.mosaicY) + b.vofs) % (BlocksHigh(b.size) * block)
        tx    == sx \div TileSize
        ty    == sy \div TileSize
        entry == v.map[b.screen + ScreenBlock(b.size, tx \div MapTiles, ty \div MapTiles)]
                      [(ty % MapTiles) * MapTiles + (tx % MapTiles)]
        slot  == b.char * CharSlots + entry.tile * (IF b.wide THEN 2 ELSE 1)
    IN  IF slot >= CharLimit THEN 0
        ELSE InPalette(b.wide, entry.bank,
                       v.texel[b.wide][slot][Flipped(sy % TileSize, entry.vflip, TileSize)]
                                            [Flipped(sx % TileSize, entry.hflip, TileSize)])

(* renderAffineBackground: a line begins where the last one did plus       *)
(* (pb, pd), or at the reference point when the program wrote a new one.   *)
LineStart(lines, n, y) ==
    LET start[k \in 0..y] ==
            LET a == lines[k].affine[n]
                p == lines[k - 1].affine[n]
            IN  IF k = 0 THEN <<a.x, a.y>>
                ELSE IF a.x # p.x \/ a.y # p.y THEN <<a.x, a.y>>
                ELSE <<start[k - 1][1] + p.pb, start[k - 1][2] + p.pd>>
    IN  start[y]

AffineDot(v, lines, n, x, y) ==
    LET l    == lines[y]
        b    == l.bg[n]
        from == Mosaic(y, b.mosaic, l.mosaicY)
        a    == lines[from].affine[n]
        at   == LineStart(lines, n, from)
        sx   == (at[1] + a.pa * Mosaic(x, b.mosaic, l.mosaicX)) \div AffineOne
        sy   == (at[2] + a.pc * Mosaic(x, b.mosaic, l.mosaicX)) \div AffineOne
        size == AffineSize * 2 ^ b.size
        wx   == sx % size
        wy   == sy % size
        tile == v.affineMap[b.screen][(wy \div TileSize) * (size \div TileSize) + (wx \div TileSize)]
    IN  IF ~b.wrap /\ (sx # wx \/ sy # wy) THEN 0
        ELSE v.texel[TRUE][b.char * CharSlots + 2 * tile][wy % TileSize][wx % TileSize]

-----------------------------------------------------------------------------
(* decodeObjSize, in tiles                                                 *)
ObjSizes(shape) ==
    CASE shape = 0 -> <<<<1, 1>>, <<2, 2>>, <<4, 4>>, <<8, 8>>>>
      [] shape = 1 -> <<<<2, 1>>, <<4, 1>>, <<4, 2>>, <<8, 4>>>>
      [] shape = 2 -> <<<<1, 2>>, <<1, 4>>, <<2, 4>>, <<4, 8>>>>
ObjWidth(o) == ObjSizes(o.shape)[o.size + 1][1] * TileSize
ObjHeight(o) == ObjSizes(o.shape)[o.size + 1][2] * TileSize
DrawnWidth(o) == IF o.affine /\ o.double THEN 2 * ObjWidth(o) ELSE ObjWidth(o)
DrawnHeight(o) == IF o.affine /\ o.double THEN 2 * ObjHeight(o) ELSE ObjHeight(o)

(* The nine and the eight bits of a position, which may lie off the screen *)
ObjLeft(o) == IF o.x >= 256 THEN o.x - 512 ELSE o.x
ObjTop(o) == IF o.y >= ScreenHeight THEN o.y - 256 ELSE o.y

Drawn(o) == o.shape # 3 /\ (o.affine \/ ~o.double)
Covers(o, x, y) ==
    /\ Drawn(o)
    /\ x - ObjLeft(o) \in 0 .. DrawnWidth(o) - 1 /\ y - ObjTop(o) \in 0 .. DrawnHeight(o) - 1

(* resolveObjTileNumber and resolveObj2DTexelOffset                        *)
FirstTile(o) == IF o.wide THEN o.tile - (o.tile % 2) ELSE o.tile
ObjSlot(l, o, tx, ty) ==
    LET step  == IF o.wide THEN 2 ELSE 1
        slots == IF l.mode >= 3 THEN ObjSlots \div 2 ELSE ObjSlots
        row   == IF l.oneDimension THEN (ObjWidth(o) \div TileSize) * step ELSE ObjRow
    IN  ((FirstTile(o) + ty * row + tx * step) % slots) + (ObjSlots - slots)

(* Where in the object the dot comes from, renderObjects                   *)
ObjSource(l, o, x, y) ==
    LET px == Mosaic(x - ObjLeft(o), o.mosaic, l.objMosaicX)
        py == Mosaic(y - ObjTop(o), o.mosaic, l.objMosaicY)
        dx == px - (DrawnWidth(o) \div 2)
        dy == py - (DrawnHeight(o) \div 2)
    IN  IF ~o.affine THEN <<Flipped(px, o.hflip, ObjWidth(o)), Flipped(py, o.vflip, ObjHeight(o))>>
        ELSE <<(o.pa * dx + o.pb * dy) \div AffineOne + (ObjWidth(o) \div 2),
               (o.pc * dx + o.pd * dy) \div AffineOne + (ObjHeight(o) \div 2)>>

ObjDot(v, l, o, x, y) ==
    LET s == ObjSource(l, o, x, y)
        slot == ObjSlot(l, o, s[1] \div TileSize, s[2] \div TileSize)
    IN  IF \/ ~Covers(o, x, y)
           \/ l.mode >= 3 /\ o.tile < ObjSlots \div 2
           \/ s[1] \notin 0 .. ObjWidth(o) - 1
           \/ s[2] \notin 0 .. ObjHeight(o) - 1
        THEN 0
        ELSE InPalette(o.wide, o.bank, v.objTexel[o.wide][slot][s[2] % TileSize][s[1] % TileSize])

(* buildObjWindowMask                                                      *)
InObjWindow(v, l, x, y) ==
    /\ ObjWindow \in l.windows
    /\ \E i \in DOMAIN v.objects : v.objects[i].kind = "window" /\ ObjDot(v, l, v.objects[i], x, y) # 0

-----------------------------------------------------------------------------
(* composeLayer: the two highest of the layers at a dot.  An object is     *)
(* above a background of its priority, the first of two objects above the  *)
(* second, and a background above those of a higher number.                *)
Dot(layer, priority, colour, semi) == [layer |-> layer, priority |-> priority, colour |-> colour, semi |-> semi]
BackdropDot(v) == Dot(Backdrop, 4, v.backdrop, FALSE)

Outranks(c, d) ==
    \/ c.priority < d.priority
    \/ /\ c.priority = d.priority
       /\ IF c.layer = ObjLayer THEN d.layer # ObjLayer ELSE d.layer # ObjLayer /\ c.layer < d.layer

(* Mutant: the dot that was on top does not become the second.             *)
ComposedWithoutDemotion(px, c) ==
    IF Outranks(c, px.top) THEN [px EXCEPT !.top = c]
    ELSE IF px.second = <<>> \/ Outranks(c, px.second[1]) THEN [px EXCEPT !.second = <<c>>]
    ELSE px

Composed(px, c) ==
    IF Outranks(c, px.top) THEN [top |-> c, second |-> <<px.top>>]
    ELSE IF px.second = <<>> \/ Outranks(c, px.second[1]) THEN [px EXCEPT !.second = <<c>>]
    ELSE px

(* applyColorEffect, blendAlpha555, brighten555 and darken555              *)
Blended(a, b, eva, evb) == [i \in 1..3 |-> Smallest(Intensity, (a[i] * eva + b[i] * evb) \div Blends)]
Brightened(a, evy) == [i \in 1..3 |-> Smallest(Intensity, a[i] + ((Intensity - a[i]) * evy) \div Blends)]
Darkened(a, evy) == [i \in 1..3 |-> a[i] - ((a[i] * evy) \div Blends)]

Under(v, px) ==
    IF px.second # <<>> THEN (IF px.top.semi /\ px.second[1].layer = ObjLayer THEN <<>> ELSE px.second)
    ELSE IF px.top.layer # Backdrop THEN <<BackdropDot(v)>> ELSE <<>>

ColourOf(v, l, px, mask) ==
    LET first  == LayerBit(px.top.layer) \in l.first
        under  == Under(v, px)
        asked  == px.top.semi \/ (l.effect = "blend" /\ first)
        blends == asked /\ under # <<>> /\ LayerBit(under[1].layer) \in l.second
    IN  CASE EffectBit \notin mask -> px.top.colour
          [] EffectBit \in mask /\ blends -> Blended(px.top.colour, under[1].colour, l.eva, l.evb)
          [] EffectBit \in mask /\ ~blends /\ first /\ ~px.top.semi /\ l.effect = "brighten" -> Brightened(px.top.colour, l.evy)
          [] EffectBit \in mask /\ ~blends /\ first /\ ~px.top.semi /\ l.effect = "darken" -> Darkened(px.top.colour, l.evy)
          [] OTHER -> px.top.colour

-----------------------------------------------------------------------------
(* renderMode0 to renderMode5.  The mode is line 0's; a bitmap is drawn    *)
(* whether background 2 is on or not, and none of it is transparent.       *)
TextLayers(mode) == CASE mode = 0 -> {0, 1, 2, 3} [] mode = 1 -> {0, 1} [] OTHER -> {}
AffineLayers(mode) == CASE mode = 1 -> {2} [] mode = 2 -> {2, 3} [] OTHER -> {}

BitmapDots(v, lines, x, y) ==
    LET l  == lines[y]
        sx == Mosaic(x, l.bg[2].mosaic, l.mosaicX)
        sy == Mosaic(y, l.bg[2].mosaic, l.mosaicY)
    IN  IF lines[0].mode = 5 /\ (x >= HalfWidth \/ y >= HalfHeight) THEN <<>>
        ELSE <<Dot(2, l.bg[2].priority, v.bitmap[IF lines[0].mode = 3 THEN 0 ELSE l.page][sy][sx], FALSE)>>

TileDots(v, lines, x, y) ==
    LET l == lines[y]
        mode == lines[0].mode
        index(n) == IF n \notin l.on THEN 0
                    ELSE IF n \in TextLayers(mode) THEN TextDot(v, l, n, x, y)
                    ELSE IF n \in AffineLayers(mode) THEN AffineDot(v, lines, n, x, y) ELSE 0
        dot(n) == IF index(n) = 0 THEN <<>> ELSE <<Dot(n, l.bg[n].priority, v.palette[index(n)], FALSE)>>
    IN  dot(0) \o dot(1) \o dot(2) \o dot(3)

ObjDots(v, l, x, y) ==
    IF 4 \notin l.on THEN <<>>
    ELSE LET shown(i) == v.objects[i].kind # "window" /\ ObjDot(v, l, v.objects[i], x, y) # 0
             dot(i)   == Dot(ObjLayer, v.objects[i].priority, v.objPalette[ObjDot(v, l, v.objects[i], x, y)],
                             v.objects[i].kind = "semi")
         IN  FoldLeft(LAMBDA s, i : IF shown(i) THEN Append(s, dot(i)) ELSE s, <<>>, [i \in DOMAIN v.objects |-> i])

DotsAt(v, lines, x, y, mask) ==
    LET behind == IF lines[0].mode >= 3 THEN BitmapDots(v, lines, x, y) ELSE TileDots(v, lines, x, y)
    IN  SelectSeq(behind \o ObjDots(v, lines[y], x, y), LAMBDA d : LayerBit(d.layer) \in mask)

MaskAt(v, lines, x, y) ==
    LET built == \E k \in DOMAIN lines : 4 \in lines[k].on /\ ObjWindow \in lines[k].windows
    IN  WindowMask(lines[y], x, y, built /\ InObjWindow(v, lines[y], x, y))

PixelAt(v, lines, x, y) ==
    FoldLeft(Composed, [top |-> BackdropDot(v), second |-> <<>>], DotsAt(v, lines, x, y, MaskAt(v, lines, x, y)))

DrawnColour(v, lines, x, y) ==
    IF lines[y].forcedBlank THEN [i \in 1..3 |-> Intensity]
    ELSE ColourOf(v, lines[y], PixelAt(v, lines, x, y), MaskAt(v, lines, x, y))
=============================================================================
