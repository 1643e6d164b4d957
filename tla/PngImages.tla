----------------------------- MODULE PngImages -----------------------------
(***************************************************************************)
(* PNG pictures: llc/gpk_png.cpp reads the chunks of a file one after the  *)
(* other, undoes the filter of every row and takes the pixels out of the   *)
(* bytes; an interlaced file holds seven smaller pictures that             *)
(* llc/gpk_adam7 puts together.                                            *)
(*                                                                         *)
(* The file is what a writer that follows the format makes of a picture:   *)
(* external, and written from the format, not from the reader.  A row is a *)
(* sequence of bytes, a pixel the sequence of its samples; the scaling of  *)
(* samples to 8 bits and the order of colours in memory are left out.      *)
(***************************************************************************)
EXTENDS Integers, Sequences, SequencesExt

CONSTANT PngPictures  \* the pictures written: width, height, type, depth, interlaced, filters, pieces

VARIABLES
    pngPicture,  \* the picture the file was written from
    pngFile,     \* the chunks that have not been read
    pngData      \* header, palette and Deflated; at the end the image

pngVars == <<pngPicture, pngFile, pngData>>

PngChannels(type) == CASE type \in {0, 3} -> 1 [] type = 4 -> 2 [] type = 2 -> 3 [] type = 6 -> 4
PngSample(p, x, y, c) == (37 * x + 91 * y + 11 * c + 5 * x * y + 129) % 2 ^ (IF p.type = 3 THEN 2 ELSE p.depth)
PngColours == <<"black", "red", "green", "blue">>

\* What the reader is to find at x, y: samples, or the colour of the palette.
PngPixel(p, x, y) ==
    IF p.type = 3 THEN <<PngColours[PngSample(p, x, y, 1) + 1]>>
    ELSE [c \in 1..PngChannels(p.type) |-> PngSample(p, x, y, c)]

----------------------------------------------------------------------------
\* The writer: filters, packs and cuts as the format says.

\* The pass of a pixel of an interlaced picture, from the 8 by 8 pattern of the format.
PngPattern == <<<<1, 6, 4, 6, 2, 6, 4, 6>>, <<7, 7, 7, 7, 7, 7, 7, 7>>, <<5, 6, 5, 6, 5, 6, 5, 6>>, <<7, 7, 7, 7, 7, 7, 7, 7>>,
                <<3, 6, 4, 6, 3, 6, 4, 6>>, <<7, 7, 7, 7, 7, 7, 7, 7>>, <<5, 6, 5, 6, 5, 6, 5, 6>>, <<7, 7, 7, 7, 7, 7, 7, 7>>>>
PngPass(x, y) == PngPattern[(y % 8) + 1][(x % 8) + 1]

\* The rows of a pass: those of its pixels, none empty.
PngPassRows(p, pass) ==
    LET row(y) == SelectSeq([i \in 1..p.width |-> <<i - 1, y>>], LAMBDA at : ~p.interlaced \/ PngPass(at[1], at[2]) = pass)
    IN  SelectSeq([j \in 1..p.height |-> row(j - 1)], LAMBDA r : r # <<>>)

PngStep(type, depth) == IF depth < 8 THEN 1 ELSE PngChannels(type) * (depth \div 8)
PngRowBytes(p, row) ==
    LET n == 8 \div p.depth
        sample(i) == IF i <= Len(row) THEN PngSample(p, row[i][1], row[i][2], 1) ELSE 0
        byte(k) == FoldLeft(LAMBDA b, i : b * 2 ^ p.depth + sample(n * (k - 1) + i), 0, [i \in 1..n |-> i])
        samples(i) == [c \in 1..PngChannels(p.type) |-> PngSample(p, row[i][1], row[i][2], c)]
    IN  IF p.depth < 8 THEN [k \in 1..(Len(row) + n - 1) \div n |-> byte(k)]
        ELSE FlattenSeq([i \in DOMAIN row |-> FlattenSeq([c \in DOMAIN samples(i) |->
                 IF p.depth = 8 THEN <<samples(i)[c]>> ELSE <<samples(i)[c] \div 256, samples(i)[c] % 256>>])])

\* Of the three neighbours, the first that is nearest to left + above - corner.
PngNearest(left, above, corner) ==
    LET far(n) == IF left + above - corner > n THEN left + above - corner - n ELSE n - (left + above - corner)
    IN  SelectSeq(<<left, above, corner>>, LAMBDA n : \A m \in {left, above, corner} : far(n) <= far(m))[1]
PngFiltered(filter, bytes, above, bpp) ==
    LET left(i)   == IF i > bpp THEN bytes[i - bpp] ELSE 0
        over(i)   == IF above = <<>> THEN 0 ELSE above[i]
        corner(i) == IF above = <<>> \/ i <= bpp THEN 0 ELSE above[i - bpp]
        predicted(i) == CASE filter = 0 -> 0
                          [] filter = 1 -> left(i)
                          [] filter = 2 -> over(i)
                          [] filter = 3 -> (left(i) + over(i)) \div 2
                          [] filter = 4 -> PngNearest(left(i), over(i), corner(i))
    IN  [i \in DOMAIN bytes |-> (bytes[i] - predicted(i)) % 256]
PngPassBytes(p, pass) ==
    LET rows == PngPassRows(p, pass)
        bytes(r) == PngRowBytes(p, rows[r])
        filter(r) == p.filters[((r - 1) % Len(p.filters)) + 1]
        line(r) == <<filter(r)>> \o PngFiltered(filter(r), bytes(r), IF r = 1 THEN <<>> ELSE bytes(r - 1), PngStep(p.type, p.depth))
    IN  FlattenSeq([r \in DOMAIN rows |-> line(r)])
PngStream(p) == IF p.interlaced THEN FlattenSeq([pass \in 1..7 |-> PngPassBytes(p, pass)]) ELSE PngPassBytes(p, 1)

\* A compressed stream is read to its end or not at all; 256 and 257 are no bytes.
PngDeflate(bytes) == <<256>> \o bytes \o <<257>>
PngInflate(stream) == IF stream # <<>> /\ stream[1] = 256 /\ Last(stream) = 257 THEN SubSeq(stream, 2, Len(stream) - 1) ELSE <<>>

PngChunk(type, data) == [type |-> type, data |-> data]
PngWritten(p) ==
    LET stream == PngDeflate(PngStream(p))
        cut(k) == (k * Len(stream)) \div p.pieces
    IN  <<PngChunk("IHDR", [k \in {"width", "height", "type", "depth", "interlaced"} |-> p[k]])>>
        \o (IF p.type = 3 THEN <<PngChunk("PLTE", PngColours)>> ELSE <<PngChunk("tEXt", <<>>)>>)
        \o [k \in 1..p.pieces |-> PngChunk("IDAT", SubSeq(stream, cut(k - 1) + 1, cut(k)))]
        \o <<PngChunk("tEXt", <<>>), PngChunk("IEND", <<>>)>>

----------------------------------------------------------------------------
\* Rows

\* scanLineSizeFromFormat
PngRowSize(type, depth, width) ==
    LET n == 8 \div depth
        samples == CASE type = 2 -> 3 [] type = 4 -> 2 [] type = 6 -> 4 [] OTHER -> 1
    IN  CASE depth < 8 -> width \div n + (IF width % n # 0 THEN 1 ELSE 0)
          [] depth = 8 -> width * samples
          [] depth = 16 -> 2 * width * samples

PngBytesPerPixel(type, depth) ==
    LET wide == depth = 16
    IN  CASE type = 3 -> 1
          [] type = 0 -> IF wide THEN 2 ELSE 1
          [] type = 2 -> IF wide THEN 6 ELSE 3
          [] type = 4 -> IF wide THEN 4 ELSE 2
          [] type = 6 -> IF wide THEN 8 ELSE 4

PngAbs(n) == IF n < 0 THEN -n ELSE n
PngPaeth(left, above, upperleft) ==
    LET p == left + above - upperleft
        pa == PngAbs(p - left)  pb == PngAbs(p - above)  pc == PngAbs(p - upperleft)
    IN  IF pa <= pb /\ pa <= pc THEN left ELSE IF pb <= pc THEN above ELSE upperleft

\* A row in place, from the left; previous is empty for the first row.
PngDefilter(filter, row, previous, bpp) ==
    LET up(i) == IF previous = <<>> THEN 0 ELSE previous[i]
        upperleft(i) == IF previous = <<>> THEN 0 ELSE previous[i - bpp]
        raw[i \in DOMAIN row] ==
            (row[i] + CASE filter = 0 -> 0
                        [] filter = 1 -> IF i > bpp THEN raw[i - bpp] ELSE 0
                        [] filter = 2 -> up(i)
                        [] filter = 3 -> (IF i > bpp THEN raw[i - bpp] + up(i) ELSE up(i)) \div 2
                        [] filter = 4 -> IF i > bpp THEN PngPaeth(raw[i - bpp], up(i), upperleft(i)) ELSE PngPaeth(0, up(i), 0)) % 256
    IN  raw

\* pngScanlineDefilter: the rows that need no other first, then passes downwards over those whose row
\* above is done; every row is defiltered once, with the row above in its final form.
BugPngDefiltered(filters, rows, bpp) ==
    [y \in DOMAIN rows |-> PngDefilter(filters[y], rows[y], IF y = 1 THEN <<>> ELSE rows[y - 1], bpp)]
PngDefiltered(filters, rows, bpp) ==
    LET done[y \in DOMAIN rows] == PngDefilter(filters[y], rows[y], IF y = 1 THEN <<>> ELSE done[y - 1], bpp)
    IN  [y \in DOMAIN rows |-> done[y]]

\* The lines of one image of the inflated data: a filter and a row each.
PngLines(inflated, offset, size, count, bpp) ==
    LET at(y) == offset + (y - 1) * (size + 1)
    IN  PngDefiltered([y \in 1..count |-> inflated[at(y) + 1]],
                      [y \in 1..count |-> SubSeq(inflated, at(y) + 2, at(y) + 1 + size)], bpp)

----------------------------------------------------------------------------
\* Pixels

\* reverse_bitfield: the fields of a byte in the opposite order.
PngReversed(byte, depth) ==
    FoldLeft(LAMBDA b, k : b + ((byte \div 2 ^ (depth * k)) % 2 ^ depth) * 2 ^ (8 - depth - depth * k), 0, [k \in 1..8 \div depth |-> k - 1])

\* Below 8 bits the field of a pixel is read from the lowest bit of a byte that scanlineBitDecodeOrder
\* reversed, an index past the palette is black; above, samples have their high byte first.
PngField(row, x, depth) ==
    LET n == 8 \div depth IN (PngReversed(row[x \div n + 1], depth) \div 2 ^ (depth * (x % n))) % 2 ^ depth
PngBytes(row, x, channels) == SubSeq(row, channels * x + 1, channels * x + channels)
PngWords(row, x, channels) ==
    [k \in 1..channels |-> 256 * row[2 * (channels * x + k) - 1] + row[2 * (channels * x + k)]]
PngIndexed(index, palette) == <<IF index >= Len(palette) THEN "black" ELSE palette[index + 1]>>

\* pngDecode: a pngScanlineDecode function for each type and depth.
PngDecoded(row, x, type, depth, palette) ==
    LET c == PngBytesPerPixel(type, depth)
    IN  CASE type = 3 /\ depth < 8 -> PngIndexed(PngField(row, x, depth), palette)
          [] type = 3 /\ depth = 8 -> <<palette[row[x + 1] + 1]>>
          [] type # 3 /\ depth < 8 -> <<PngField(row, x, depth)>>
          [] type # 3 /\ depth = 8 -> PngBytes(row, x, c)
          [] type # 3 /\ depth = 16 -> PngWords(row, x, c \div 2)

\* adam7ScaleIndex: where the pixels of an image lie, <<multiplier, base>> of x and y.
PngScale == <<<<8, 8, 0, 0>>, <<8, 8, 4, 0>>, <<4, 8, 0, 4>>, <<4, 4, 2, 0>>, <<2, 4, 0, 2>>, <<2, 2, 1, 0>>, <<1, 2, 0, 1>>>>

PngRoundUp(n, d) == (n + d - 1) \div d
PngRest(n, base, d) == (n - base) \div d + (IF (n - base) % d # 0 THEN 1 ELSE 0)
PngAdam7Sizes(w, h) ==
    LET unless(none, size) == IF none THEN 0 ELSE size
    IN  <<<<unless(w <= 4, PngRoundUp(w, 8)), unless(h <= 4, PngRoundUp(h, 8))>>,
          <<unless(w <= 4, PngRest(w, 4, 8)), unless(h <= 4, PngRoundUp(h, 8))>>,
          <<unless(w <= 4, PngRoundUp(w, 4)), unless(h <= 4, PngRest(h, 4, 8))>>,
          <<unless(w <= 2, PngRest(w, 2, 4)), unless(h <= 4, PngRoundUp(h, 4))>>,
          <<unless(w < 2, PngRoundUp(w, 2)), unless(h <= 2, PngRest(h, 2, 4))>>,
          <<unless(w < 2, PngRest(w, 1, 2)), unless(h < 2, PngRoundUp(h, 2))>>,
          <<w, h \div 2>>>>

----------------------------------------------------------------------------
\* Files

PngNoImage == <<>>
PngReset == [header |-> [width |-> 0], palette |-> <<>>, deflated |-> <<>>, image |-> PngNoImage]

PngInit ==
    /\ pngPicture \in PngPictures
    /\ pngFile = PngWritten(pngPicture) /\ pngData = PngReset

\* pngActualFileLoad, one chunk; what is not known is passed over.
PngReadChunk ==
    /\ pngFile # <<>> /\ UNCHANGED pngPicture
    /\ LET chunk == Head(pngFile)
       IN  /\ pngFile' = IF chunk.type = "IEND" THEN <<>> ELSE Tail(pngFile)
           /\ pngData' = CASE chunk.type = "IHDR" -> [pngData EXCEPT !.header = chunk.data]
                           [] chunk.type = "PLTE" -> [pngData EXCEPT !.palette = chunk.data]
                           [] chunk.type = "IDAT" -> [pngData EXCEPT !.deflated = @ \o chunk.data]
                           [] OTHER -> pngData

\* Where the lines of an image of an interlaced file begin in the inflated data: an image without
\* width or without rows takes no place.
PngOffset(sizes, row, image) ==
    FoldLeft(LAMBDA n, i : IF row[i] = 0 THEN n ELSE n + (row[i] + 1) * sizes[i][2], 0, [i \in 1..image - 1 |-> i])

\* The images in order, each over the pixels the ones before it wrote; what lies outside is dropped.
PngInterlaced(h, inflated, palette) ==
    LET sizes == PngAdam7Sizes(h.width, h.height)
        row   == [i \in 1..7 |-> PngRowSize(h.type, h.depth, sizes[i][1])]
        lines == [i \in 1..7 |-> PngLines(inflated, PngOffset(sizes, row, i), row[i], sizes[i][2], PngBytesPerPixel(h.type, h.depth))]
        hits(i, x, y) ==
            LET s == PngScale[i] IN /\ x >= s[3] /\ (x - s[3]) % s[1] = 0 /\ (x - s[3]) \div s[1] < sizes[i][1]
                                    /\ y >= s[4] /\ (y - s[4]) % s[2] = 0 /\ (y - s[4]) \div s[2] < sizes[i][2]
        pixel(x, y) ==
            LET found == SelectSeq([i \in 1..7 |-> i], LAMBDA i : hits(i, x, y))
                i == Last(found)
            IN  IF found = <<>> THEN <<>>
                ELSE PngDecoded(lines[i][(y - PngScale[i][4]) \div PngScale[i][2] + 1], (x - PngScale[i][3]) \div PngScale[i][1],
                                h.type, h.depth, palette)
    IN  [at \in (0..h.width - 1) \X (0..h.height - 1) |-> pixel(at[1], at[2])]

PngPlain(h, inflated, palette) ==
    LET lines == PngLines(inflated, 0, PngRowSize(h.type, h.depth, h.width), h.height, PngBytesPerPixel(h.type, h.depth))
    IN  [at \in (0..h.width - 1) \X (0..h.height - 1) |-> PngDecoded(lines[at[2] + 1], at[1], h.type, h.depth, palette)]

PngDecode ==
    /\ pngFile = <<>> /\ pngData.image = PngNoImage
    /\ LET inflated == PngInflate(pngData.deflated)
           h == pngData.header
       IN  pngData' = [pngData EXCEPT !.image = IF h.interlaced THEN PngInterlaced(h, inflated, pngData.palette)
                                                ELSE PngPlain(h, inflated, pngData.palette)]
    /\ UNCHANGED <<pngPicture, pngFile>>

PngNext == PngReadChunk \/ PngDecode

----------------------------------------------------------------------------
\* Properties

PngTypeOK == pngPicture \in PngPictures /\ Len(pngFile) <= Len(PngWritten(pngPicture))

\* The image a file gives is the picture it was written from, pixel for pixel, whatever the filters,
\* the depth, the interlacing and the cuts of the compressed stream; of the interlaced pictures this
\* is so above 4 by 4 pixels, below it adam7Sizes takes images that have pixels for empty.
PngReadsPictures ==
    pngData.image # PngNoImage =>
        pngData.image = [at \in (0..pngPicture.width - 1) \X (0..pngPicture.height - 1) |-> PngPixel(pngPicture, at[1], at[2])]
=============================================================================
