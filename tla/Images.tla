------------------------------- MODULE Images -------------------------------
(***************************************************************************)
(* Images: samples and bytes (internal/sampling, model/image.go), JPEG and *)
(* JBIG2 as stream encodings (core/encoding.go), image XObjects            *)
(* (model/xobject.go) and what the optimizer does to them (optimize/       *)
(* image.go, image_ppi.go).                                                *)
(*                                                                         *)
(* An XObjectImage holds the fields of an image and, apart from them, the  *)
(* stream object they were read from and are written to.  Bytes are        *)
(* numbers; what JPEG makes of pixels is taken to be lossless.             *)
(***************************************************************************)
EXTENDS Integers, Sequences, FiniteSets
LOCAL INSTANCE SequencesExt
LOCAL INSTANCE TLC

CONSTANTS
  Pictures,     \* images of a client: [w, h, bpc, comps, data, alpha]
  ImgEncoders,  \* its encoders: [kind, comps, bpc, w, h], of which only DCT has the last four
  Sources,      \* image streams of a document: [dict, stream]
  Targets,      \* bits per component to resample to
  Scales,       \* the optimizer's scales: [num, den]
  MaxImageCalls

VARIABLE xim  \* [step, x, prim, want, alpha, ok, whole, calls]; want, alpha and whole are not in the code

(***************************************************************************)
(* Samples.                                                                *)
(***************************************************************************)
Pow2[n \in Nat] == IF n = 0 THEN 1 ELSE 2 * Pow2[n - 1]
BitsOf(v, n) == [i \in 1 .. n |-> (v \div Pow2[n - i]) % 2]
Value(bits) == LET from[i \in 0 .. Len(bits)] == IF i = 0 THEN 0 ELSE 2 * from[i - 1] + bits[i] IN from[Len(bits)]
Groups(bits, n) == [i \in 1 .. Len(bits) \div n |-> Value(SubSeq(bits, n * (i - 1) + 1, n * i))]
AllBits(samples, n) == FlattenSeq([i \in 1 .. Len(samples) |-> BitsOf(samples[i], n)])

\* Bits that make no whole sample are dropped.
ResampleBytes(data, bps) == Groups(AllBits(data, 8), bps)
\* Here they are padded, but when they are the rest of one that was begun.
ResampleUint32(samples, in, out) ==
  LET bits == AllBits(samples, in)
      rest == Len(bits) % out
      padded == IF rest >= in THEN bits \o [i \in 1 .. out - rest |-> 0] ELSE bits
  IN  Groups(padded, out)

RowSamples(p) == p.w * p.comps
\* It does not know that rows begin on a byte: what fills the last byte of one
\* is taken for samples.
GetSamples(p) == LET all == ResampleBytes(p.data, p.bpc)
                     expected == p.h * RowSamples(p)
                 IN  IF Len(all) > expected THEN SubSeq(all, 1, expected) ELSE all
SetSamples(p, samples) == [p EXCEPT !.data = ResampleUint32(samples, p.bpc, 8)]

\* Mutant of ResampledRow.
ResampledRowOfPixels(p, samples, i, target) ==
  ResampleUint32(SubSeq(samples, i * p.w + 1, (i + 1) * RowSamples(p) - 1), target, 8)

\* The samples of row i of an image with the bits of a byte: all but the last.
ResampledRow(p, samples, i, target) ==
  ResampleUint32(SubSeq(samples, i * RowSamples(p) + 1, (i + 1) * RowSamples(p) - 1), target, 8)
Resample(p, target) ==
  LET shifted(v) == IF target < p.bpc THEN v \div Pow2[p.bpc - target] ELSE v * Pow2[target - p.bpc]
      samples == [i \in 1 .. Len(GetSamples(p)) |-> shifted(GetSamples(p)[i])]
  IN  IF target = p.bpc THEN p
      ELSE [p EXCEPT !.bpc = target,
                     !.data = FlattenSeq([i \in 1 .. p.h |-> ResampledRow(p, samples, i - 1, target)])]

\* The samples that an image has, for the properties: if all data is
\* there, each row begins on a byte.
Filled(p) == p.h > 1 /\ (RowSamples(p) * p.bpc) % 8 # 0
TrueSamples(p) ==
  LET bytes == (RowSamples(p) * p.bpc + 7) \div 8
      row(i) == ResampleBytes(SubSeq(p.data, (i - 1) * bytes + 1, i * bytes), p.bpc)
  IN  IF Len(p.data) < p.h * bytes THEN GetSamples(p)
      ELSE FlattenSeq([i \in 1 .. p.h |-> SubSeq(row(i), 1, RowSamples(p))])

(***************************************************************************)
(* Pixels of a Go image: a colour model, and width times height of them.   *)
(***************************************************************************)
GoModel(comps, bpc) ==
  CASE comps = 1 -> IF bpc = 16 THEN "Gray16" ELSE "Gray"
    [] comps = 3 -> IF bpc = 16 THEN "RGBA64" ELSE "RGBA"
    [] comps = 4 -> "CMYK"
    [] OTHER -> "none"
Blank(n) == [i \in 1 .. n |-> 0]
Painted(w, h, pixels) == [i \in 1 .. w * h |-> IF i <= Len(pixels) THEN pixels[i] ELSE << >>]
Pixels(s, n) == [i \in 1 .. Len(s) \div n |-> SubSeq(s, n * (i - 1) + 1, n * i)]

\* Only grey images are stretched to a byte.
GoImage(p, samples) ==
  LET shown(v) == IF p.comps = 1 THEN (v * 255) \div (Pow2[p.bpc] - 1) ELSE v % 256
      pixels == Pixels([i \in 1 .. Len(samples) |-> shown(samples[i])], p.comps)
  IN  [model |-> GoModel(p.comps, p.bpc), w |-> p.w, h |-> p.h, pixels |-> Painted(p.w, p.h, pixels)]
ToGoImage(p) == GoImage(p, GetSamples(p))
\* Samples of 16 bits are taken for pairs of bytes, of which the last pixel has
\* too few: the index is out of range.
GoImagePanics(p) == p.bpc = 16 /\ p.comps \in {1, 3} /\ Len(GetSamples(p)) >= p.comps
NewImageFromGoImage(g, alpha) ==
  LET comps == IF g.model \in {"Gray", "Gray16"} THEN 1 ELSE 3
  IN  [w |-> g.w, h |-> g.h, bpc |-> 8, comps |-> comps, alpha |-> alpha,
       data |-> FlattenSeq([i \in 1 .. g.w * g.h |-> IF g.pixels[i] = << >> THEN Blank(comps) ELSE g.pixels[i]])]

(***************************************************************************)
(* Encoded data: the method, and the bytes or, of JPEG, the Go image.      *)
(***************************************************************************)
NoData == [by |-> "none", data |-> << >>, model |-> "none", w |-> 0, h |-> 0]
\* DCTEncoder.EncodeBytes; the library writes grey as it is and all else as YCbCr.
EncodeDCT(e, data) ==
  LET bits == IF e.bpc < 8 THEN 8 ELSE e.bpc
      per == (e.comps * bits) \div 8
      model == GoModel(e.comps, bits)
      pixels == Painted(e.w, e.h, Pixels(data, per))
      full == [i \in 1 .. Len(pixels) |-> IF pixels[i] = << >> THEN Blank(per) ELSE pixels[i]]
      \* a colour of 16 bits is left with its first eight
      high(px) == IF model = "Gray16" THEN <<px[1], px[1], px[1]>>
                  ELSE IF model = "RGBA64" THEN <<px[1], px[3], px[5]>> ELSE px
  IN  IF model = "none" THEN NoData
      ELSE [by |-> "DCT", model |-> IF model = "Gray" THEN "Gray" ELSE "YCbCr", w |-> e.w, h |-> e.h,
            data |-> FlattenSeq([i \in DOMAIN full |-> high(full[i])])]
\* What newDCTEncoderFromStream finds in the JPEG itself.
newDCTEncoderFromStream(s) ==
  [kind |-> "DCT", bpc |-> 8, w |-> s.w, h |-> s.h,
   comps |-> CASE s.model = "Gray" -> 1 [] s.model = "CMYK" -> 4 [] OTHER -> 3]
\* A colour of another type than the encoder expects is an error.
DecodeDCT(e, s) ==
  LET fits == \/ e.comps = 1 /\ e.bpc = 8 /\ s.model = "Gray"
              \/ e.comps = 3 /\ e.bpc = 8 /\ s.model \in {"RGBA", "YCbCr"}
              \/ e.comps = 4 /\ s.model = "CMYK"
  IN  [ok |-> s.by = "DCT" /\ fits, data |-> s.data]
\* Mutant of DCTUpdateParams.
DCTUpdateSize(e, p) == [e EXCEPT !.bpc = p.bpc, !.w = p.w]

DCTUpdateParams(e, p) == [e EXCEPT !.comps = p.comps, !.bpc = p.bpc, !.w = p.w, !.h = p.h]

\* JBIG2 is read and not written; a page is white on 0 or, with Decode [1 0], on 1.
setChocolateData(decode) == decode = <<1, 0>>
JBIG2Decode(s, decode) ==
  [ok |-> s.by = "JBIG2",
   data |-> IF setChocolateData(decode) THEN [i \in 1 .. Len(s.data) |-> 255 - s.data[i]] ELSE s.data]

Encoded(e, data) ==
  CASE e.kind = "DCT" -> EncodeDCT(e, data)
    [] e.kind = "JBIG2" -> NoData
    [] OTHER -> [NoData EXCEPT !.by = e.kind, !.data = data]
Decoded(e, s, decode) ==
  CASE e.kind = "DCT" -> DecodeDCT(e, s)
    [] e.kind = "JBIG2" -> JBIG2Decode(s, decode)
    [] OTHER -> [ok |-> s.by = e.kind, data |-> s.data]
\* NewEncoderFromStream: JPEG speaks for itself.
EncoderOf(prim) ==
  CASE prim.dict.filter = "DCT" -> newDCTEncoderFromStream(prim.stream)
    [] OTHER -> [kind |-> prim.dict.filter, comps |-> 0, bpc |-> 0, w |-> 0, h |-> 0]

(***************************************************************************)
(* XObjectImage: its fields, x, and its stream object, prim.               *)
(***************************************************************************)
NewXObjectImageFromStream(prim) ==
  [w |-> prim.dict.w, h |-> prim.dict.h, bpc |-> prim.dict.bpc, comps |-> prim.dict.comps,
   decode |-> prim.dict.decode, smask |-> prim.dict.smask, filter |-> EncoderOf(prim), stream |-> prim.stream]

NoMask == [w |-> 0, h |-> 0, bpc |-> 0, stream |-> NoData]
\* Mutant of NewXObjectImageFromImage.
NewXObjectImageNoAlpha(p, e) ==
  [w |-> p.w, h |-> p.h, bpc |-> p.bpc, comps |-> p.comps, decode |-> << >>, filter |-> e,
   smask |-> IF p.alpha = << >> THEN NoMask ELSE [w |-> p.w, h |-> p.h, bpc |-> p.bpc, stream |-> Encoded(e, p.data)],
   stream |-> Encoded(e, p.data)]

\* UpdateXObjectImageFromImage: the encoder of the image encodes its alpha too.
NewXObjectImageFromImage(p, e) ==
  [w |-> p.w, h |-> p.h, bpc |-> p.bpc, comps |-> p.comps, decode |-> << >>, filter |-> e,
   smask |-> IF p.alpha = << >> THEN NoMask ELSE [w |-> p.w, h |-> p.h, bpc |-> p.bpc, stream |-> Encoded(e, p.alpha)],
   stream |-> Encoded(e, p.data)]

ImgToPdfObject(x) ==
  [dict |-> [filter |-> x.filter.kind, w |-> x.w, h |-> x.h, bpc |-> x.bpc, comps |-> x.comps,
             decode |-> x.decode, smask |-> x.smask],
   stream |-> x.stream]
\* ToImage has the fields of the model and the data of the stream object.
ToImage(x, prim) ==
  LET d == Decoded(EncoderOf(prim), prim.stream, prim.dict.decode)
  IN  [ok |-> d.ok, image |-> [w |-> x.w, h |-> x.h, bpc |-> x.bpc, comps |-> x.comps, data |-> d.data, alpha |-> << >>]]
\* Mutant of SetFields.
SetFieldsWide(x, p) == [x EXCEPT !.stream = Encoded(x.filter, p.data), !.w = p.w, !.bpc = p.bpc, !.comps = p.comps]

SetFields(x, p) == [x EXCEPT !.stream = Encoded(x.filter, p.data), !.w = p.w, !.h = p.h, !.bpc = p.bpc, !.comps = p.comps]

Bare(p) == [p EXCEPT !.alpha = << >>]
ImgIdle == xim = [step |-> "idle"]
\* JPEG with the parameters of the picture.
Fits(e, p) == e.kind = "DCT" => e.comps = p.comps /\ p.comps \in {1, 3} /\ e.bpc = 8 /\ p.bpc = 8 /\ e.w = p.w /\ e.h = p.h
\* want is the picture that was last given, alpha that of the mask, whole whether
\* the stream is of the filter and has had parameters that fit.
Held(x, prim, want, alpha) ==
  [step |-> "held", x |-> x, prim |-> prim, want |-> want, alpha |-> alpha, ok |-> TRUE,
   whole |-> Fits(x.filter, want), calls |-> 0]
Called(s) == [s EXCEPT !.calls = @ + 1]
CanCall == xim.step = "held" /\ xim.calls < MaxImageCalls

\* A client makes an image of a picture, or reads one; what it writes is in prim.
MakeImage(p, e) ==
  /\ xim.step = "idle" /\ Encoded(e, p.data) # NoData
  /\ LET x == NewXObjectImageFromImage(p, e) IN xim' = Held(x, ImgToPdfObject(x), Bare(p), p.alpha)
LoadImage(s) ==
  /\ xim.step = "idle"
  /\ LET x == NewXObjectImageFromStream(s)
         r == ToImage(x, s)
     IN  xim' = IF r.ok THEN Held(x, s, r.image, << >>) ELSE [step |-> "refused"]

\* SetImage encodes first, so that a failure changes nothing.
SetImage(p) ==
  /\ CanCall
  /\ xim' = Called(IF Encoded(xim.x.filter, p.data) = NoData THEN [xim EXCEPT !.ok = FALSE]
                   ELSE [xim EXCEPT !.x = SetFields(@, p), !.want = Bare(p), !.ok = TRUE,
                                        !.whole = Fits(xim.x.filter, p)])
\* Mutant of SetFilter.
SetFilterNew(e) ==
  /\ CanCall
  /\ LET d == Decoded(e, xim.x.stream, xim.x.decode)
         failed == Encoded(e, d.data) = NoData
     IN  xim' = Called(
           IF ~d.ok THEN [xim EXCEPT !.ok = FALSE, !.x.filter = e]
           ELSE IF failed THEN [xim EXCEPT !.ok = FALSE, !.x.filter = e, !.whole = FALSE]
           ELSE [xim EXCEPT !.ok = TRUE, !.x.filter = e, !.x.stream = Encoded(e, d.data),
                             !.whole = @ /\ Fits(e, xim.want)])

\* SetFilter takes the new encoder before it is known to encode the data.
SetFilter(e) ==
  /\ CanCall
  /\ LET d == Decoded(xim.x.filter, xim.x.stream, xim.x.decode)
         failed == Encoded(e, d.data) = NoData
     IN  xim' = Called(
           IF ~d.ok THEN [xim EXCEPT !.ok = FALSE]
           ELSE IF failed THEN [xim EXCEPT !.ok = FALSE, !.x.filter = e, !.whole = FALSE]
           ELSE [xim EXCEPT !.ok = TRUE, !.x.filter = e, !.x.stream = Encoded(e, d.data),
                             !.whole = @ /\ Fits(e, xim.want)])
WriteImage == CanCall /\ xim' = Called([xim EXCEPT !.prim = ImgToPdfObject(xim.x)])
ResampleImage(p, target) ==
  /\ xim.step = "idle"
  /\ xim' = [step |-> "resampled", from |-> p, to |-> Resample(p, target), same |-> SetSamples(p, GetSamples(p))]

(***************************************************************************)
(* The optimizer.                                                          *)
(***************************************************************************)
\* Image.Optimize: JPEG with what the dictionary says, which keeps the rest of it.
OptimizeImage ==
  /\ CanCall /\ xim.prim.dict.comps \in {1, 3}
  /\ LET r == ToImage(NewXObjectImageFromStream(xim.prim), xim.prim)
         e == [kind |-> "DCT", comps |-> xim.prim.dict.comps, bpc |-> xim.prim.dict.bpc,
               w |-> xim.prim.dict.w, h |-> xim.prim.dict.h]
         new == [dict |-> [xim.prim.dict EXCEPT !.filter = "DCT"], stream |-> EncodeDCT(e, r.image.data)]
     IN  r.ok /\ xim' = [xim EXCEPT !.step = "optimized", !.prim = new, !.want = r.image, !.whole = TRUE]

Rounded(n, s) == LET q == (n * s.num) \div s.den
                     r == 2 * ((n * s.num) % s.den)
                 IN  IF r > s.den \/ (r = s.den /\ q % 2 = 1) THEN q + 1 ELSE q
\* The scaled picture: each pixel is one of the old ones.
Scaled(g, s) ==
  LET w == Rounded(g.w, s)
      h == Rounded(g.h, s)
      old(i) == ((((i - 1) \div w) * s.den) \div s.num) * g.w + ((((i - 1) % w) * s.den) \div s.num) + 1
  IN  [model |-> IF g.model = "Gray16" THEN "Gray" ELSE g.model, w |-> w, h |-> h,
       pixels |-> [i \in 1 .. w * h |-> g.pixels[IF old(i) > Len(g.pixels) THEN Len(g.pixels) ELSE old(i)]]]
\* scaleImage, for what ImagePPI found to be shown with more pixels than asked
\* for.  A side may be rounded to nothing, and what is left has no pixels.
Small(g, s) == NewImageFromGoImage(Scaled(g, s), << >>)
scaleImage(s) ==
  /\ CanCall /\ xim.prim.dict.comps \in {1, 3}
  /\ LET x == NewXObjectImageFromStream(xim.prim)
         r == ToImage(x, xim.prim)
         small == Small(ToGoImage(r.image), s)
         e == IF x.filter.kind = "DCT" THEN DCTUpdateParams(x.filter, small) ELSE x.filter
         y == SetFields([x EXCEPT !.filter = e], small)
     IN  /\ r.ok
         /\ xim' = IF GoImagePanics(r.image) THEN [xim EXCEPT !.step = "panicked", !.want = r.image]
                   ELSE IF y.stream = NoData THEN [xim EXCEPT !.step = "kept"]
                   ELSE [xim EXCEPT !.step = "optimized", !.prim = ImgToPdfObject(y),
                                     !.want = Small(GoImage(r.image, TrueSamples(r.image)), s),
                                     !.whole = ~Filled(r.image)]

ImgNext ==
  \/ \E p \in Pictures, e \in ImgEncoders : MakeImage(p, e)
  \/ \E s \in Sources : LoadImage(s)
  \/ \E p \in Pictures : SetImage(p)
  \/ \E e \in ImgEncoders : SetFilter(e)
  \/ WriteImage
  \/ \E p \in Pictures, target \in Targets : ResampleImage(p, target)
  \/ OptimizeImage
  \/ \E s \in Scales : scaleImage(s)

(***************************************************************************)
(* Properties.                                                             *)
(***************************************************************************)
ReadAgain(prim) == ToImage(NewXObjectImageFromStream(prim), prim)

\* After any calls, an image that has been written (ToPdfObject) is read again
\* as the picture last given, unless a JPEG filter had not the parameters of
\* that picture (SetImage does not update them) or a SetFilter failed half way.
ImageReadBack ==
  xim.step = "held" /\ xim.whole /\ xim.prim = ImgToPdfObject(xim.x) =>
    ReadAgain(xim.prim) = [ok |-> TRUE, image |-> xim.want]

\* At any time, written or not, the filter an image holds decodes the stream it
\* holds to the picture last given: a call that fails leaves both as they were
\* (SetImage), but for SetFilter.
FilterOfStream ==
  xim.step = "held" /\ xim.whole =>
    Decoded(xim.x.filter, xim.x.stream, xim.x.decode) = [ok |-> TRUE, data |-> xim.want.data]

\* The mask made of a picture's alpha is read again as that alpha, unless the
\* encoder is JPEG with other parameters than those of the mask.
MaskReadable ==
  xim.step = "held" /\ xim.alpha # << >> =>
    LET m == xim.prim.dict.smask
    IN  (m.stream.by = "DCT" => m.stream.model = "Gray" /\ m.stream.w = m.w /\ m.stream.h = m.h) =>
          m.stream.data = xim.alpha /\ m.w * m.h = Len(xim.alpha)

\* What the optimizer made of an image, as JPEG of eight bits to a component or
\* scaled down, is an image of the size in its dictionary with the pixels meant,
\* unless rows of the image end within a byte (GetSamples); and it does not
\* panic unless its samples have 16 bits (ToGoImage).
OptimizedReadable ==
  /\ xim.step = "optimized" /\ xim.whole /\ xim.want.bpc = 8
       /\ Len(xim.want.data) = xim.want.h * RowSamples(xim.want) =>
     ReadAgain(xim.prim) = [ok |-> TRUE, image |-> Bare(xim.want)]
  /\ xim.step = "panicked" => xim.want.bpc = 16

\* Each row of a resampled image begins on a byte and has the samples of the
\* row it was, but for the last of each, which is lost (Resample); and the
\* samples of an image, set again, are its data (GetSamples, SetSamples).  Of an
\* image whose rows end within a byte that is so of the first row only.
RowsResampled ==
  xim.step = "resampled" =>
    LET p == xim.from
        q == xim.to
        bytes == ((RowSamples(p) - 1) * q.bpc + 7) \div 8
        row(i) == ResampleBytes(SubSeq(q.data, (i - 1) * bytes + 1, i * bytes), q.bpc)
        v(i, k) == TrueSamples(p)[(i - 1) * RowSamples(p) + k]
    IN  /\ p.bpc # q.bpc =>
             \A i \in 1 .. (IF Filled(p) THEN 1 ELSE p.h), k \in 1 .. RowSamples(p) - 1 :
               row(i)[k] = IF q.bpc < p.bpc THEN v(i, k) \div Pow2[p.bpc - q.bpc] ELSE v(i, k) * Pow2[q.bpc - p.bpc]
        /\ (RowSamples(p) * p.bpc) % 8 = 0 => xim.same = p

\* Images keep their pixels through every call, and are readable throughout.
ImagesSound == ImageReadBack /\ FilterOfStream /\ MaskReadable /\ OptimizedReadable /\ RowsResampled
=============================================================================
