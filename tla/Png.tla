-------------------------------- MODULE Png --------------------------------
(***************************************************************************)
(* The PNG decoder of QG/Image.cpp.  A file is a signature and a sequence  *)
(* of chunks, the last of which may be cut short; the bytes of the IDAT    *)
(* chunks together are one zlib stream, whose inflation is miniz's work.   *)
(***************************************************************************)
EXTENDS Integers, Sequences, FiniteSets

NoHeader == [w |-> 0, h |-> 0, depth |-> 0, colour |-> 0, method |-> 0]
Refused == [ok |-> FALSE, w |-> 0, h |-> 0, pixels |-> <<>>]
\* Grey, RGB and RGBA; a palette, or grey with alpha, is refused.
BytesPerPixel(colour) == CASE colour = 0 -> 1 [] colour = 2 -> 3 [] colour = 6 -> 4 [] OTHER -> 0

\* The loop over the chunks: state n is the one before chunk n + 1.
Chunks(file) ==
  LET Cut(n) == n = Len(file.chunks) /\ file.cut
      state[n \in 0..Len(file.chunks)] ==
        IF n = 0 THEN [ok |-> TRUE, end |-> FALSE, seen |-> FALSE, header |-> NoHeader, data |-> <<>>]
        ELSE LET s == state[n - 1]  k == file.chunks[n]
             IN CASE s.end \/ ~s.ok -> s
                  [] s.ok /\ ~s.end /\ Cut(n) -> [s EXCEPT !.ok = FALSE]
                  [] OTHER ->
                       CASE k.type = "IHDR" -> [s EXCEPT !.seen = TRUE, !.header = k.header]
                         [] k.type = "IDAT" -> [s EXCEPT !.ok = s.seen, !.data = s.data \o k.data]
                         [] k.type = "IEND" -> [s EXCEPT !.end = TRUE]
                         [] OTHER -> s
  IN state[Len(file.chunks)]

\* A complete stream of the expected size, or nothing.
Inflate(data, size) == IF Len(data) = size THEN data ELSE <<>>

Distance(a, b) == IF a > b THEN a - b ELSE b - a
Paeth(a, b, c) ==
  LET pa == Distance(b, c)  pb == Distance(a, c)  pc == Distance(a + b, 2 * c)
  IN IF pa <= pb /\ pa <= pc THEN a ELSE IF pb <= pc THEN b ELSE c
\* What a filter adds to a byte: from the one on its left, above it, and above on its left.
Predicted(filter, left, up, upLeft) ==
  CASE filter = 0 -> 0 [] filter = 1 -> left [] filter = 2 -> up
    [] filter = 3 -> (left + up) \div 2 [] filter = 4 -> Paeth(left, up, upLeft)
\* The bytes of the rows, each of which begins with its filter.
Reconstructed(raw, stride, h, bpp) ==
  LET b[y \in -1..h - 1, x \in -bpp..stride - 1] ==
        IF y < 0 \/ x < 0 THEN 0
        ELSE (raw[y * (stride + 1) + x + 2]
               + Predicted(raw[y * (stride + 1) + 1], b[y, x - bpp], b[y - 1, x], b[y - 1, x - bpp])) % 256
  IN [p \in (0..h - 1) \X (0..stride - 1) |-> b[p[1], p[2]]]
PixelAt(b, y, x, bpp) ==
  CASE bpp = 1 -> <<b[y, x], b[y, x], b[y, x], 255>>
    [] bpp = 3 -> <<b[y, 3 * x], b[y, 3 * x + 1], b[y, 3 * x + 2], 255>>
    [] bpp = 4 -> <<b[y, 4 * x], b[y, 4 * x + 1], b[y, 4 * x + 2], b[y, 4 * x + 3]>>

DecodePNG(file) ==
  LET s == Chunks(file)
      bpp == BytesPerPixel(s.header.colour)
      w == s.header.w  h == s.header.h  stride == w * bpp
      raw == Inflate(s.data, (stride + 1) * h)
      filters == {raw[y * (stride + 1) + 1] : y \in 0..h - 1}
      b == Reconstructed(raw, stride, h, bpp)
  IN IF \/ ~file.signature \/ ~s.ok \/ ~s.seen \/ s.data = <<>>
        \/ s.header.depth # 8 \/ s.header.method # 0 \/ bpp = 0
        \/ raw = <<>> \/ ~filters \subseteq 0..4 \/ w = 0
     THEN Refused
     ELSE [ok |-> TRUE, w |-> w, h |-> h,
           pixels |-> [i \in 1..w * h |-> PixelAt(b, (i - 1) \div w, (i - 1) % w, bpp)]]

-----------------------------------------------------------------------------
\* The encoder: the bytes img[y, x] of h rows, each with its filter.
Encoded(img, stride, h, bpp, filter) ==
  LET At(y, x) == IF y < 0 \/ x < 0 THEN 0 ELSE img[y, x]
      Byte(y, x) == IF x < 0 THEN filter[y]
                    ELSE (img[y, x] - Predicted(filter[y], At(y, x - bpp), At(y - 1, x), At(y - 1, x - bpp))) % 256
  IN [i \in 1..(stride + 1) * h |-> Byte((i - 1) \div (stride + 1), ((i - 1) % (stride + 1)) - 1)]
FileOf(w, h, colour, data, k) ==
  [signature |-> TRUE, cut |-> FALSE,
   chunks |-> <<[type |-> "IHDR", header |-> [w |-> w, h |-> h, depth |-> 8, colour |-> colour, method |-> 0]],
                [type |-> "IDAT", data |-> SubSeq(data, 1, k)], [type |-> "text"],
                [type |-> "IDAT", data |-> SubSeq(data, k + 1, Len(data))], [type |-> "IEND"]>>]

\* Whatever filters the rows have and wherever the stream is cut into chunks, the decoded
\* pixels are those that were encoded; a file that ends early is refused, and so is one
\* with a byte of data missing.
ImagesDecode(sizes, bytes) ==
  \A s \in sizes, colour \in {0, 2, 6} :
    LET w == s[1]  h == s[2]  bpp == BytesPerPixel(colour)  stride == w * bpp
    IN \A img \in {[p \in (0..h - 1) \X (0..stride - 1) |-> bytes[((p[1] * k + p[2]) % Len(bytes)) + 1]] : k \in 1..2},
          filter \in [0..h - 1 -> 0..4] :
         \A data \in {Encoded(img, stride, h, bpp, filter)} :
           /\ \A k \in {0, 1, Len(data)} :
                \A f \in {FileOf(w, h, colour, data, k)} :
                  /\ DecodePNG(f) = [ok |-> TRUE, w |-> w, h |-> h,
                                     pixels |-> [i \in 1..w * h |-> PixelAt(img, (i - 1) \div w, (i - 1) % w, bpp)]]
                  /\ ~DecodePNG([f EXCEPT !.cut = TRUE]).ok
                  /\ ~DecodePNG([f EXCEPT !.chunks = Tail(@)]).ok
           /\ ~DecodePNG(FileOf(w, h, colour, Tail(data), 0)).ok
=============================================================================
