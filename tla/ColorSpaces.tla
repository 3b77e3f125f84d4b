----------------------------- MODULE ColorSpaces -----------------------------
(***************************************************************************)
(* Colour spaces (model/colorspace.go) and the functions that make tints   *)
(* into colours (model/functions.go).                                      *)
(*                                                                         *)
(* Colours of single marks and of images go different ways through each    *)
(* space: ColorFromFloats and ColorToRGB, and ImageToRGB with a formula of *)
(* its own.  A number in [0, 1] is an integer of 1/Unit; Unit is divisible *)
(* by the greatest sample of one, two, four and eight bits.  A space is a  *)
(* record with its name; an image has samples in place of bytes.           *)
(***************************************************************************)
EXTENDS Integers, Sequences, FiniteSets
LOCAL INSTANCE SequencesExt

CONSTANTS
  Unit,
  ToneCurve(_, _),  \* what the formulas of a CIE based space give for components: red, green, blue
  SpaceObjects,     \* objects that are used as colour spaces
  ColourInputs,     \* tuples of numbers
  ColourImages      \* images: [bpc, comps, samples, decode]

ASSUME UnitAssumption == Unit = 255

VARIABLE clr  \* [step, cs, obj, given, color, img, out]

(***************************************************************************)
(* Functions.  << >> is an error.                                          *)
(***************************************************************************)
Between(v, lo, hi) == IF v < lo THEN lo ELSE IF v > hi THEN hi ELSE v
\* interpolate.
Line(x, xmin, xmax, ymin, ymax) == IF xmax = xmin THEN ymin ELSE ymin + (((x - xmin) * (ymax - ymin)) \div (xmax - xmin))
Full(bits) == 2 ^ bits - 1

\* A table outside of which the program stops.
Outside == <<0, 0>>

\* PdfFunctionType0.Evaluate: the nearest sample; the first input varies
\* fastest.  A coordinate may be as large as the size.
Sampled(f, x) ==
  LET at(i) ==
        LET xi == Between(x[i], f.domain[2 * i - 1], f.domain[2 * i])
            e == Between(Line(xi, f.domain[2 * i - 1], f.domain[2 * i], f.encode[2 * i - 1], f.encode[2 * i]), 0, f.size[i] * Unit)
        IN  (2 * e + Unit) \div (2 * Unit)
      stride[i \in Nat] == IF i = 1 THEN 1 ELSE stride[i - 1] * f.size[i - 1]
      place == FoldLeft(LAMBDA m, i : m + at(i) * stride[i], 0, [i \in 1 .. Len(x) |-> i])
      out(j) == Line(f.table[place * f.n + j], 0, 2 ^ f.bps, f.decode[2 * j - 1], f.decode[2 * j])
  IN  IF Len(x) # Len(f.size) THEN << >>
      ELSE IF (place + 1) * f.n > Len(f.table) THEN Outside
      ELSE <<[j \in 1 .. f.n |-> Between(out(j), f.range[2 * j - 1], f.range[2 * j])]>>

\* PdfFunctionType2.Evaluate, for the exponents 1 and 2; nothing is clipped.
Exponential(f, x) ==
  LET power == IF f.exp = 1 THEN x[1] ELSE (x[1] * x[1]) \div Unit
  IN  IF Len(x) # 1 THEN << >> ELSE <<[j \in 1 .. Len(f.c0) |-> f.c0[j] + ((power * (f.c1[j] - f.c0[j])) \div Unit)]>>

\* PdfFunctionType3 is not implemented.
Tinted(f, x) ==
  CASE f.type = 0 -> Sampled(f, x) [] f.type = 2 -> Exponential(f, x) [] OTHER -> << >>

(***************************************************************************)
(* Objects.                                                                *)
(***************************************************************************)
NamedObject(name) == [name |-> name]
ArrayObject(elems) == [array |-> elems]
IsName(o) == "name" \in DOMAIN o
IsRef(o) == "ref" \in DOMAIN o
RECURSIVE Traced(_)
Traced(o) == IF IsRef(o) THEN Traced(o.ref) ELSE o

Devices == {"DeviceGray", "DeviceRGB", "DeviceCMYK"}
CieBased == {"CalGray", "CalRGB", "Lab"}
Families == Devices \cup CieBased \cup {"ICCBased", "Pattern", "Indexed", "Separation", "DeviceN"}

\* DetermineColorspaceNameFromPdfObject: references are followed to the array
\* and not in it.
NameOf(o) ==
  LET d == IF IsRef(o) THEN o.ref ELSE o
  IN  IF IsName(d) THEN (IF d.name \in Devices \cup {"Pattern"} THEN d.name ELSE "")
      ELSE IF "array" \in DOMAIN d /\ d.array # << >> /\ IsName(d.array[1])
              /\ d.array[1].name \in Families /\ (d.array[1].name \in Devices => Len(d.array) = 1)
           THEN d.array[1].name ELSE ""

Components0(cs) ==
  CASE cs.name \in {"DeviceGray", "CalGray", "Indexed", "Separation"} -> 1
    [] cs.name \in {"DeviceRGB", "CalRGB", "Lab"} -> 3
    [] cs.name = "DeviceCMYK" -> 4
    [] cs.name \in {"ICCBased", "DeviceN"} -> cs.n
\* GetNumComponents; a Pattern asks the space under it, and stops the program if it has none.
RECURSIVE GetNumComponents(_)
GetNumComponents(cs) == IF cs.name = "Pattern" THEN GetNumComponents(cs.under[1]) ELSE Components0(cs)

RECURSIVE LoadSpace(_)

LoadICC(args) ==
  IF Len(args) # 2 \/ "icc" \notin DOMAIN Traced(args[2]) THEN << >>
  ELSE LET s == Traced(args[2]).icc
           alt == IF s.alt = << >> THEN << >> ELSE LoadSpace(s.alt[1])
       IN  IF s.n \notin {1, 3, 4} \/ (s.alt # << >> /\ alt = << >>) THEN << >>
           ELSE <<[name |-> "ICCBased", n |-> s.n, alt |-> alt]>>

LoadPattern(args) ==
  IF Len(args) \notin {1, 2} THEN << >>
  ELSE IF Len(args) = 1 THEN <<[name |-> "Pattern", under |-> << >>]>>
  ELSE LET under == LoadSpace(Traced(args[2]))
       IN  IF under = << >> THEN << >> ELSE <<[name |-> "Pattern", under |-> under]>>

\* The table is cut to the colours there can be.
LoadIndexed(args) ==
  IF Len(args) # 4 \/ ~IsName(args[1]) \/ NameOf(args[2]) \in {"Indexed", "Pattern"} THEN << >>
  ELSE LET base == LoadSpace(args[2])
           size == GetNumComponents(base[1]) * (args[3].int + 1)
           data == Traced(args[4]).bytes
       IN  IF base = << >> \/ args[3].int > Unit THEN << >>
           ELSE <<[name |-> "Indexed", base |-> base[1], hival |-> args[3].int, raw |-> data,
                   lookup |-> IF Len(data) < size THEN data ELSE SubSeq(data, 1, size)]>>

\* Separation, and DeviceN with its names or attributes.
LoadTinted(args) ==
  IF ~IsName(args[1]) \/ Len(args) \notin (IF args[1].name = "DeviceN" THEN {4, 5} ELSE {4}) THEN << >>
  ELSE LET alt == LoadSpace(args[3])
       IN  IF alt = << >> THEN << >>
           ELSE <<[name |-> args[1].name, n |-> Traced(args[2]).colorants, alt |-> alt[1], tint |-> Traced(args[4]).fun]>>

\* NewPdfColorspaceFromPdfObject.
LoadSpace(o) ==
  LET d == Traced(o)
  IN  IF IsName(d)
      THEN (IF d.name \in Devices THEN <<[name |-> d.name]>>
            ELSE IF d.name = "Pattern" THEN <<[name |-> "Pattern", under |-> << >>]>> ELSE << >>)
      ELSE IF "array" \notin DOMAIN d \/ d.array = << >> THEN << >>
      ELSE LET args == d.array
               head == Traced(args[1])
           IN  IF ~IsName(head) THEN << >>
               ELSE CASE head.name \in Devices -> IF Len(args) = 1 THEN <<[name |-> head.name]>> ELSE << >>
                      [] head.name \in CieBased -> IF Len(args) # 2 THEN << >> ELSE <<Traced(args[2]).dict>>
                      [] head.name = "ICCBased" -> LoadICC(args)
                      [] head.name = "Pattern" -> LoadPattern(args)
                      [] head.name = "Indexed" -> LoadIndexed(args)
                      [] head.name \in {"Separation", "DeviceN"} -> LoadTinted(args)
                      [] OTHER -> << >>

\* Mutant of SpaceObject: an uncoloured pattern without the space of its colour.
RECURSIVE SpaceObjectPlain(_)
SpaceObjectPlain(cs) ==
  CASE cs.name \in Devices \cup {"Pattern"} -> NamedObject(cs.name)
    [] cs.name \in CieBased -> ArrayObject(<<NamedObject(cs.name), [dict |-> cs]>>)
    [] OTHER -> ArrayObject(<<NamedObject(cs.name)>>)

\* ToPdfObject.
RECURSIVE SpaceObject(_)
SpaceObject(cs) ==
  CASE cs.name \in Devices -> NamedObject(cs.name)
    [] cs.name \in CieBased -> ArrayObject(<<NamedObject(cs.name), [dict |-> cs]>>)
    [] cs.name = "ICCBased" ->
         ArrayObject(<<NamedObject(cs.name),
                       [icc |-> [n |-> cs.n, alt |-> IF cs.alt = << >> THEN << >> ELSE <<SpaceObject(cs.alt[1])>>]]>>)
    [] cs.name = "Pattern" ->
         IF cs.under = << >> THEN NamedObject(cs.name) ELSE ArrayObject(<<NamedObject(cs.name), SpaceObject(cs.under[1])>>)
    [] cs.name = "Indexed" ->
         ArrayObject(<<NamedObject(cs.name), SpaceObject(cs.base), [int |-> cs.hival], [bytes |-> cs.raw]>>)
    [] cs.name \in {"Separation", "DeviceN"} ->
         ArrayObject(<<NamedObject(cs.name), [colorants |-> cs.n], SpaceObject(cs.alt), [fun |-> cs.tint]>>)

(***************************************************************************)
(* Colours: a space and its components.                                    *)
(***************************************************************************)
Colour(of, vals) == <<[of |-> of, vals |-> vals]>>
InUnit(vals) == \A i \in DOMAIN vals : vals[i] \in 0 .. Unit
\* The device space that stands for a profile.
ForProfile(n) == [name |-> CASE n = 1 -> "DeviceGray" [] n = 3 -> "DeviceRGB" [] n = 4 -> "DeviceCMYK"]

RECURSIVE ColorFromFloats(_, _), ColorToRGB(_, _)

\* ColorFromFloats of each family.  Grey is clamped, all else is refused out
\* of its range.
GrayFromFloats(vals) == IF Len(vals) # 1 THEN << >> ELSE Colour("DeviceGray", <<Between(vals[1], 0, Unit)>>)
Exact(name, n, vals) == IF Len(vals) # n \/ ~InUnit(vals) THEN << >> ELSE Colour(name, vals)
RGBFromFloats(vals) == Exact("DeviceRGB", 3, vals)
CMYKFromFloats(vals) == Exact("DeviceCMYK", 4, vals)
CalGrayFromFloats(vals) == Exact("CalGray", 1, vals)
CalRGBFromFloats(vals) == Exact("CalRGB", 3, vals)
LabFromFloats(cs, vals) ==
  IF /\ Len(vals) = 3 /\ vals[1] \in 0 .. 100 * Unit
     /\ vals[2] \in cs.range[1] .. cs.range[2] /\ vals[3] \in cs.range[3] .. cs.range[4]
  THEN Colour("Lab", vals) ELSE << >>
ICCFromFloats(cs, vals) == ColorFromFloats(IF cs.alt = << >> THEN ForProfile(cs.n) ELSE cs.alt[1], vals)
PatternFromFloats(cs, vals) == IF cs.under = << >> THEN << >> ELSE ColorFromFloats(cs.under[1], vals)

\* The colour in the base space, of bytes of the table.
IndexedFromFloats(cs, vals) ==
  LET n == GetNumComponents(cs.base)
      at == (vals[1] \div Unit) * n
  IN  IF Len(vals) # 1 THEN << >> ELSE IF at < 0 \/ at + n > Len(cs.lookup) THEN << >>
      ELSE ColorFromFloats(cs.base, SubSeq(cs.lookup, at + 1, at + n))

\* The colour in the alternate space.
OfTint(cs, tint) == IF tint \in {<< >>, Outside} THEN tint ELSE ColorFromFloats(cs.alt, tint[1])
SeparationFromFloats(cs, vals) == IF Len(vals) # 1 THEN << >> ELSE OfTint(cs, Tinted(cs.tint, vals))
DeviceNFromFloats(cs, vals) == IF Len(vals) # cs.n THEN << >> ELSE OfTint(cs, Tinted(cs.tint, vals))

ColorFromFloats(cs, vals) ==
  CASE cs.name = "DeviceGray" -> GrayFromFloats(vals)
    [] cs.name = "DeviceRGB" -> RGBFromFloats(vals)
    [] cs.name = "DeviceCMYK" -> CMYKFromFloats(vals)
    [] cs.name = "CalGray" -> CalGrayFromFloats(vals)
    [] cs.name = "CalRGB" -> CalRGBFromFloats(vals)
    [] cs.name = "Lab" -> LabFromFloats(cs, vals)
    [] cs.name = "ICCBased" -> ICCFromFloats(cs, vals)
    [] cs.name = "Pattern" -> PatternFromFloats(cs, vals)
    [] cs.name = "Indexed" -> IndexedFromFloats(cs, vals)
    [] cs.name = "Separation" -> SeparationFromFloats(cs, vals)
    [] cs.name = "DeviceN" -> DeviceNFromFloats(cs, vals)

\* ColorToRGB of each family; each knows its own colours.
GrayToRGB(color) == Colour("DeviceRGB", <<color.vals[1], color.vals[1], color.vals[1]>>)
\* The formulas of DeviceCMYK.
CmykToRgb(v) == [i \in 1 .. 3 |-> Unit - (((v[i] * (Unit - v[4])) \div Unit) + v[4])]
Clipped(v) == [i \in DOMAIN v |-> Between(v[i], 0, Unit)]
\* Mutant of CieToRGB.
CieToRGBUnclipped(cs, color) == Colour("DeviceRGB", ToneCurve(cs, color.vals))

CieToRGB(cs, color) == Colour("DeviceRGB", Clipped(ToneCurve(cs, color.vals)))
ICCToRGB(cs, color) ==
  IF cs.alt # << >> THEN ColorToRGB(cs.alt[1], color)
  ELSE IF cs.n = 3 THEN <<color>> ELSE ColorToRGB(ForProfile(cs.n), color)
PatternToRGB(cs, color) ==
  IF color.of # "Pattern" THEN << >>
  ELSE IF color.under = << >> THEN <<color>>
  ELSE IF cs.under = << >> THEN << >> ELSE ColorToRGB(cs.under[1], color.under[1])
OwnToRGB(cs, color) ==
  IF color.of # cs.name THEN << >>
  ELSE CASE cs.name = "DeviceGray" -> GrayToRGB(color)
         [] cs.name = "DeviceRGB" -> <<color>>
         [] cs.name = "DeviceCMYK" -> Colour("DeviceRGB", CmykToRgb(color.vals))
         [] OTHER -> CieToRGB(cs, color)
ColorToRGB(cs, color) ==
  CASE cs.name \in Devices \cup CieBased -> OwnToRGB(cs, color)
    [] cs.name = "ICCBased" -> ICCToRGB(cs, color)
    [] cs.name = "Pattern" -> PatternToRGB(cs, color)
    [] cs.name = "Indexed" -> ColorToRGB(cs.base, color)
    [] cs.name \in {"Separation", "DeviceN"} -> ColorToRGB(cs.alt, color)

\* ToInteger.
ToInteger(vals, bits) == [i \in DOMAIN vals |-> (vals[i] * Full(bits)) \div Unit]
\* ToGray.
ToGray(vals) == Between((30 * vals[1] + 59 * vals[2] + 11 * vals[3]) \div 100, 0, Unit)

(***************************************************************************)
(* Images: [bpc, comps, samples, decode, spoilt].                          *)
(***************************************************************************)
Good(img) == [ok |-> TRUE, panics |-> FALSE, img |-> img]
Bad(img) == [ok |-> FALSE, panics |-> FALSE, img |-> img]
\* A sample is looked for beyond the last.
Panic(img) == [ok |-> FALSE, panics |-> TRUE, img |-> img]
Samples(img, n) == [i \in 1 .. Len(img.samples) \div n |-> SubSeq(img.samples, n * (i - 1) + 1, n * i)]
Fractions(img, s) == [i \in DOMAIN s |-> (s[i] * Unit) \div Full(img.bpc)]
\* SetSamples: what is too large for the bits runs into its neighbours.
WithSamples(img, samples) ==
  [img EXCEPT !.samples = samples, !.spoilt = @ \/ \E i \in DOMAIN samples : samples[i] > Full(img.bpc)]
WithColours(img, colours) == [WithSamples(img, FlattenSeq(colours)) EXCEPT !.comps = 3]

DeviceDecode(n) == [i \in 1 .. 2 * n |-> IF i % 2 = 1 THEN 0 ELSE Unit]
\* DecodeArray.
DecodeArray(cs) ==
  CASE cs.name = "Lab" -> <<0, 100 * Unit>> \o cs.range
    [] cs.name = "Indexed" -> <<0, cs.hival * Unit>>
    [] cs.name = "Pattern" -> << >>
    [] OTHER -> DeviceDecode(GetNumComponents(cs))
Ranged(v, decode) == [i \in DOMAIN v |-> Line(v[i], 0, Unit, decode[2 * i - 1], decode[2 * i])]

GrayImage(img) ==
  LET grey(s) == (s * 255) \div Full(img.bpc)
  IN  Good([WithColours([img EXCEPT !.bpc = 8], [i \in DOMAIN img.samples |->
              <<grey(img.samples[i]), grey(img.samples[i]), grey(img.samples[i])>>]) EXCEPT !.comps = 3])

\* Mutant of CmykImage.
CmykImageNoBlack(img) ==
  LET rgb(s) == ToInteger([i \in 1 .. 3 |-> Unit - Fractions(img, s)[i]], img.bpc)
  IN  IF Len(img.samples) % 4 # 0 THEN Bad(img)
      ELSE Good(WithColours(img, [i \in DOMAIN Samples(img, 4) |-> rgb(Samples(img, 4)[i])]))

CmykImage(img) ==
  LET decode == IF img.decode = << >> THEN DeviceDecode(4) ELSE img.decode
      rgb(s) == ToInteger(CmykToRgb(Ranged(Fractions(img, s), decode)), img.bpc)
  IN  IF Len(img.samples) % 4 # 0 \/ Len(decode) # 8 THEN Bad(img)
      ELSE Good(WithColours(img, [i \in DOMAIN Samples(img, 4) |-> rgb(Samples(img, 4)[i])]))

\* CalGray and Lab; the decode array is heeded by Lab.
CieImage(cs, img) ==
  LET n == GetNumComponents(cs)
      decode == IF cs.name = "Lab" THEN (IF Len(img.decode) = 6 THEN img.decode ELSE DecodeArray(cs)) ELSE DeviceDecode(n)
      rgb(s) == ToInteger(Clipped(ToneCurve(cs, Ranged(Fractions(img, s), decode))), img.bpc)
  IN  IF Len(img.samples) % n # 0 THEN Panic(img)
      ELSE Good(WithColours(img, [i \in DOMAIN Samples(img, n) |-> rgb(Samples(img, n)[i])]))

\* CalRGB takes three samples from every sample on.
CalRGBImage(cs, img) ==
  LET rgb(s) == ToInteger(Clipped(ToneCurve(cs, Fractions(img, s))), img.bpc)
  IN  Good(WithColours(img, [i \in 1 .. Len(img.samples) - 2 |-> rgb(SubSeq(img.samples, i, i + 2))]))

\* The image in the base space: bytes of the table as samples of as many bits
\* as the index had; beyond the table, those before its last.
IndexedBase(cs, img) ==
  LET n == GetNumComponents(cs.base)
      place(s) == IF s * n + n > Len(cs.lookup) THEN Len(cs.lookup) - n - 1 ELSE s * n
      upTo == SelectInSeq(img.samples, LAMBDA s : place(s) < 0)
      seen == IF upTo = 0 THEN img.samples ELSE SubSeq(img.samples, 1, upTo - 1)
  IN  [WithSamples([img EXCEPT !.decode = << >>],
                   FlattenSeq([i \in DOMAIN seen |-> SubSeq(cs.lookup, place(seen[i]) + 1, place(seen[i]) + n)]))
       EXCEPT !.comps = n]

\* Separation.
AltImage(cs, img) ==
  LET decode == DecodeArray(cs.alt)
      tint(s) == Tinted(cs.tint, Fractions(img, <<s>>))
      sample(v) == ToInteger([i \in DOMAIN v |-> Line(v[i], decode[2 * i - 1], decode[2 * i], 0, Unit)], img.bpc)
  IN  IF \E i \in DOMAIN img.samples : tint(img.samples[i]) \in {<< >>, Outside} THEN Bad(img)
      ELSE Good([WithSamples(img, FlattenSeq([i \in DOMAIN img.samples |-> sample(tint(img.samples[i])[1])]))
                 EXCEPT !.comps = GetNumComponents(cs.alt), !.decode = decode])

\* DeviceN leaves the number of components, and with it the samples that are
\* looked at, and the decode array.
AltImageN(cs, img) ==
  LET inks == Samples(img, cs.n)
      tint(s) == Tinted(cs.tint, Fractions(img, s))
      samples == FlattenSeq([i \in DOMAIN inks |-> ToInteger(Clipped(tint(inks[i])[1]), img.bpc)])
  IN  IF \E i \in DOMAIN inks : tint(inks[i]) \in {<< >>, Outside} THEN Bad(img)
      ELSE IF Len(img.samples) % cs.n # 0 THEN Panic(img)
      ELSE Good(WithSamples(img, IF Len(samples) > Len(img.samples) THEN SubSeq(samples, 1, Len(img.samples)) ELSE samples))

RECURSIVE ImageToRGB(_, _)
ImageToRGB(cs, img) ==
  CASE cs.name = "DeviceGray" -> GrayImage(img)
    [] cs.name = "DeviceRGB" -> Good(img)
    [] cs.name = "DeviceCMYK" -> CmykImage(img)
    [] cs.name \in {"CalGray", "Lab"} -> CieImage(cs, img)
    [] cs.name = "CalRGB" -> CalRGBImage(cs, img)
    [] cs.name = "ICCBased" -> ImageToRGB(IF cs.alt = << >> THEN ForProfile(cs.n) ELSE cs.alt[1], img)
    [] cs.name = "Pattern" -> Bad(img)
    [] cs.name = "Indexed" -> ImageToRGB(cs.base, IndexedBase(cs, img))
    [] cs.name = "Separation" -> LET a == AltImage(cs, img) IN IF a.ok THEN ImageToRGB(cs.alt, a.img) ELSE a
    [] cs.name = "DeviceN" -> LET a == AltImageN(cs, img) IN IF a.ok THEN ImageToRGB(cs.alt, a.img) ELSE a

\* DeviceRGB.ImageToGray.
ImageToGray(img) ==
  LET grey(s) == ToInteger(<<ToGray(Fractions(img, s))>>, img.bpc)[1]
  IN  IF Len(img.samples) % 3 # 0 THEN Panic(img)
      ELSE Good([WithSamples(img, [i \in DOMAIN Samples(img, 3) |-> grey(Samples(img, 3)[i])]) EXCEPT !.comps = 1])

(***************************************************************************)
(* A client.                                                               *)
(***************************************************************************)
NoImage == [bpc |-> 8, comps |-> 0, samples |-> << >>, decode |-> << >>, spoilt |-> FALSE]
ClrNone == [step |-> "idle", cs |-> << >>, obj |-> << >>, given |-> << >>, color |-> << >>, img |-> NoImage,
            out |-> Good(NoImage)]
ClrIdle == clr = ClrNone

OpenSpace(o) ==
  /\ ClrIdle
  /\ clr' = [clr EXCEPT !.step = IF LoadSpace(o) = << >> THEN "refused" ELSE "space", !.cs = LoadSpace(o), !.obj = <<o>>]

\* The space is written, and read by another reader.
SaveSpace ==
  /\ clr.step = "space"
  /\ clr' = [clr EXCEPT !.step = "saved", !.color = LoadSpace(SpaceObject(clr.cs[1]))]

UseColour(vals) ==
  /\ clr.step = "space"
  /\ clr' = [clr EXCEPT !.step = "coloured", !.given = vals, !.color = ColorFromFloats(clr.cs[1], vals)]

\* An image with as many components as the space has.
UseImage(img) ==
  /\ clr.step = "space"
  /\ clr.cs[1].name # "Pattern" /\ GetNumComponents(clr.cs[1]) = img.comps
  /\ LET out == ImageToRGB(clr.cs[1], img)
     IN  clr' = [clr EXCEPT !.step = IF out.panics THEN "panicked" ELSE "shown", !.img = img, !.out = out]

\* Of an RGB image the grey one.
UseGray ==
  /\ clr.step = "shown" /\ clr.out.ok /\ clr.out.img.comps = 3
  /\ LET out == ImageToGray(clr.out.img)
     IN  clr' = [clr EXCEPT !.step = IF out.panics THEN "panicked" ELSE "grey", !.img = clr.out.img, !.out = out]

ClrNext ==
  \/ \E o \in SpaceObjects : OpenSpace(o)
  \/ SaveSpace
  \/ \E vals \in ColourInputs : UseColour(vals)
  \/ \E img \in ColourImages : UseImage(img)
  \/ UseGray

(***************************************************************************)
(* Properties.                                                             *)
(***************************************************************************)
\* A space that is written is read as the same space, those within it too
\* (ToPdfObject and NewPdfColorspaceFromPdfObject of every family).
SpaceKept == clr.step = "saved" => clr.color = clr.cs

\* The name that is determined without loading the space is that of the space
\* that is loaded, if the array has its name in it and not a reference.
HeadIsDirect(o) == "array" \in DOMAIN Traced(o) => IsName(Traced(o).array[1])
NameAgrees ==
  clr.step = "space" /\ HeadIsDirect(clr.obj[1]) /\ (IsRef(clr.obj[1]) => ~IsRef(clr.obj[1].ref)) =>
    NameOf(clr.obj[1]) = clr.cs[1].name

\* A colour that a space accepts has a place among the colours of a device,
\* whatever spaces and functions it goes through (ColorToRGB); not so of a
\* pattern, which takes the colours of what is under it and then refuses them.
ColourShown ==
  clr.step = "coloured" /\ clr.color \notin {<< >>, Outside} /\ clr.cs[1].name # "Pattern" =>
    LET rgb == ColorToRGB(clr.cs[1], clr.color[1])
    IN  rgb # << >> /\ rgb[1].of = "DeviceRGB" /\ Len(rgb[1].vals) = 3 /\ InUnit(rgb[1].vals)

\* The decode array the way to the image's colours heeds; others ignore one.
RECURSIVE Heeds(_)
Heeds(cs) == cs.name \in {"DeviceCMYK", "Lab"} \/ (cs.name = "ICCBased" /\ (IF cs.alt = << >> THEN cs.n = 4 ELSE Heeds(cs.alt[1])))

\* Spaces whose images are not shown as their colours: three pixels are made
\* of one of CalRGB, of fewer inks than the alternate space has components some
\* pixels are lost, and a table over Lab, or a profile with it, is read as
\* numbers between 0 and 1 for a colour.
RECURSIVE Divergent(_)
Divergent(cs) ==
  CASE cs.name = "CalRGB" -> TRUE
    [] cs.name = "Indexed" -> cs.base.name \in {"CalRGB", "Lab", "Separation", "DeviceN"} \/ Divergent(cs.base)
    [] cs.name = "DeviceN" -> cs.n < GetNumComponents(cs.alt) \/ cs.alt.name = "Lab" \/ Divergent(cs.alt)
    [] cs.name = "Separation" -> Divergent(cs.alt)
    [] cs.name = "ICCBased" -> cs.alt # << >> /\ (cs.alt[1].name = "Lab" \/ Divergent(cs.alt[1]))
    [] OTHER -> FALSE

\* The components of a pixel as the numbers of a colour.
PixelColour(cs, img, s) ==
  LET decode == IF Heeds(cs) /\ img.decode # << >> THEN img.decode ELSE DecodeArray(cs)
  IN  IF cs.name = "Indexed" THEN <<s[1] * Unit>> ELSE Ranged(Fractions(img, s), decode)

\* An image shows for each pixel the colour that the space gives for the
\* pixel's components (ImageToRGB against ColorFromFloats and ColorToRGB), to
\* within one sample of the image; not so an index of less than eight bits, whose table is
\* read with as many bits as the index has, nor one beyond a short table, which
\* may end the image.
InTable(cs, img) == \A i \in DOMAIN img.samples : (img.samples[i] + 1) * GetNumComponents(cs.base) <= Len(cs.lookup)
ImageAgrees ==
  /\ clr.step = "shown" /\ clr.out.ok /\ ~clr.out.img.spoilt
  /\ ~Divergent(clr.cs[1]) /\ (clr.cs[1].name = "Indexed" => clr.img.bpc = 8 /\ InTable(clr.cs[1], clr.img))
  =>
    LET cs == clr.cs[1]
        pixels == Samples(clr.img, clr.img.comps)
        shown == Samples(clr.out.img, 3)
        step == Full(clr.out.img.bpc) \div Full(clr.img.bpc)
    IN  \A i \in DOMAIN pixels :
          LET color == ColorFromFloats(cs, PixelColour(cs, clr.img, pixels[i]))
          IN  color \notin {<< >>, Outside} =>
                LET want == ToInteger(ColorToRGB(cs, color[1])[1].vals, clr.out.img.bpc)
                IN  i \in DOMAIN shown /\ \A k \in 1 .. 3 : shown[i][k] - want[k] \in -step .. step

\* The grey image of an image has the grey of each pixel, and no more pixels.
GrayAgrees ==
  clr.step = "grey" /\ ~clr.img.spoilt => Len(clr.out.img.samples) = Len(clr.img.samples) \div 3
                       /\ \A i \in DOMAIN clr.out.img.samples :
                            LET px == Samples(clr.img, 3)[i]
                            IN  \E lo, hi \in {px[1], px[2], px[3]} : clr.out.img.samples[i] \in lo .. hi

\* The images that a space shows are looked at no further than their samples
\* go, if their last pixel is whole; not so in the spaces that are Divergent,
\* where fewer inks leave a part of a pixel of the alternate space.
WholePixels(img) == Len(img.samples) % img.comps = 0
ImageWithin ==
  clr.step = "panicked" => ~WholePixels(clr.img) \/ Divergent(clr.cs[1])

ColoursSound == SpaceKept /\ NameAgrees /\ ColourShown /\ ImageAgrees /\ GrayAgrees /\ ImageWithin
=============================================================================
