---------------------------- MODULE Dictionaries ----------------------------
(***************************************************************************)
(* Objects of the document loaded into models and written back.            *)
(*                                                                         *)
(* Package model gives every dictionary it knows a structure: a function   *)
(* newPdf...FromDict takes the entries of the dictionary into fields, the  *)
(* client changes fields, ToPdfObject puts the fields back into a          *)
(* dictionary.  Some eighty pairs of functions are written by hand, each   *)
(* with its own list of keys; what one of the two forgets is lost from a   *)
(* document that is only read and written.  They also differ in the        *)
(* dictionary they write to:                                               *)
(*   "own"      a new one, made with the model;                            *)
(*   "emptied"  the one that was read, cleared or replaced first;          *)
(*   "kept"     the one that was read, as it is.                           *)
(*                                                                         *)
(* A dictionary is a function of keys; the value a key has in the file is  *)
(* named by the key, so a value that turns up under another key shows.     *)
(* A sequence of loads, changes by the client and writes acts on one       *)
(* object of each type.                                                    *)
(***************************************************************************)
EXTENDS Naturals, FiniteSets

CONSTANTS KeysOf,    \* for each type, the sets of keys a dictionary in a file may have
          EditsOf,   \* for each type and set of keys, the fields that the client changes
          MaxEdits,  \* changes by the client
          MaxWrites  \* calls of ToPdfObject

ASSUME DictAssumption == MaxEdits \in Nat /\ MaxWrites \in Nat

(***************************************************************************)
(* The keys each function names: ...Read those it takes from the           *)
(* dictionary, ...Write those it sets.  Type and Length are left out.      *)
(***************************************************************************)

BaseRead == {"Rect", "Contents", "P", "NM", "M", "F", "AP", "AS", "Border", "C", "StructParent", "OC",
  "Subtype"}
BaseWrite == {"Rect", "Contents", "P", "NM", "M", "F", "AP", "AS", "Border", "C", "StructParent", "OC"}

MarkupRead == {"T", "Popup", "CA", "RC", "CreationDate", "IRT", "Subj", "RT", "IT", "ExData"}
MarkupWrite == {"T", "Popup", "CA", "RC", "CreationDate", "IRT", "Subj", "RT", "IT", "ExData"}

TextRead == {"Open", "Name", "State", "StateModel"}
TextWrite == {"Subtype", "Open", "Name", "State", "StateModel"}

LinkRead == {"A", "Dest", "H", "PA", "QuadPoints", "BS"}
LinkWrite == {"Subtype", "A", "Dest", "H", "PA", "QuadPoints", "BS"}

FreeTextRead == {"DA", "Q", "RC", "DS", "CL", "IT", "BE", "RD", "BS", "LE"}
FreeTextWrite == {"Subtype", "DA", "Q", "RC", "DS", "CL", "IT", "BE", "RD", "BS", "LE"}

LineRead == {"L", "BS", "LE", "IC", "LL", "LLE", "Cap", "IT", "LLO", "CP", "Measure", "CO"}
\* Mutant of LineWrite.
LineWriteNoCaption == LineRead \ {"CP"}

LineWrite == {"Subtype", "L", "BS", "LE", "IC", "LL", "LLE", "Cap", "IT", "LLO", "CP", "Measure", "CO"}

SquareRead == {"BS", "IC", "BE", "RD"}
SquareWrite == {"Subtype", "BS", "IC", "BE", "RD"}

CircleRead == {"BS", "IC", "BE", "RD"}
CircleWrite == {"Subtype", "BS", "IC", "BE", "RD"}

PolygonRead == {"Vertices", "LE", "BS", "IC", "BE", "IT", "Measure"}
PolygonWrite == {"Subtype", "Vertices", "LE", "BS", "IC", "BE", "IT", "Measure"}

PolyLineRead == {"Vertices", "LE", "BS", "IC", "BE", "IT", "Measure"}
PolyLineWrite == {"Subtype", "Vertices", "LE", "BS", "IC", "BE", "IT", "Measure"}

HighlightRead == {"QuadPoints"}
HighlightWrite == {"Subtype", "QuadPoints"}

UnderlineRead == {"QuadPoints"}
UnderlineWrite == {"Subtype", "QuadPoints"}

SquigglyRead == {"QuadPoints"}
SquigglyWrite == {"Subtype", "QuadPoints"}

StrikeOutRead == {"QuadPoints"}
StrikeOutWrite == {"Subtype", "QuadPoints"}

CaretRead == {"RD", "Sy"}
CaretWrite == {"Subtype", "RD", "Sy"}

StampRead == {"Name"}
StampWrite == {"Subtype", "Name"}

InkRead == {"InkList", "BS"}
InkWrite == {"Subtype", "InkList", "BS"}

PopupRead == {"Parent", "Open"}
PopupWrite == {"Subtype", "Parent", "Open"}

FileAttachmentRead == {"FS", "Name"}
FileAttachmentWrite == {"Subtype", "FS", "Name"}

SoundRead == {"Name", "Sound"}
SoundWrite == {"Subtype", "Sound", "Name"}

RichMediaRead == {"RichMediaSettings", "RichMediaContent"}
RichMediaWrite == {"Subtype", "RichMediaSettings", "RichMediaContent"}

MovieRead == {"T", "Movie", "A"}
MovieWrite == {"Subtype", "T", "Movie", "A"}

ScreenRead == {"T", "MK", "A", "AA"}
ScreenWrite == {"Subtype", "T", "MK", "A", "AA"}

WidgetRead == {"H", "MK", "A", "AA", "BS", "Parent"}
WidgetWrite == {"Subtype", "H", "MK", "A", "AA", "BS", "Parent"}

PrinterMarkRead == {"MN"}
PrinterMarkWrite == {"Subtype", "MN"}

TrapNetRead == {}
TrapNetWrite == {"Subtype"}

WatermarkRead == {"FixedPrint"}
WatermarkWrite == {"Subtype", "FixedPrint"}

ThreeDRead == {"3DD", "3DV", "3DA", "3DI", "3DB"}
ThreeDWrite == {"Subtype", "3DD", "3DV", "3DA", "3DI", "3DB"}

ProjectionRead == {}
ProjectionWrite == {}

RedactRead == {"QuadPoints", "IC", "RO", "OverlayText", "Repeat", "DA", "Q"}
RedactWrite == {"Subtype", "QuadPoints", "IC", "RO", "OverlayText", "Repeat", "DA", "Q"}

FieldRead == {"FT", "T", "TU", "TM", "Ff", "V", "DV", "AA", "Kids"}
FieldWrite == {"Kids", "FT", "T", "TU", "TM", "Ff", "V", "DV", "AA"}

FieldButtonRead == {"Opt"}
FieldButtonWrite == {"FT", "Opt"}

FieldTextRead == {"DA", "Q", "DS", "RV", "MaxLen"}
FieldTextWrite == {"FT", "DA", "Q", "DS", "RV", "MaxLen"}

FieldChoiceRead == {"Opt", "TI", "I"}
FieldChoiceWrite == {"FT", "Opt", "TI", "I"}

FieldSignatureRead == {"V", "Lock", "SV"}
FieldSignatureWrite == {"FT", "Lock", "SV", "V"}

AcroFormRead == {"Fields", "NeedAppearances", "SigFlags", "CO", "DR", "DA", "Q", "XFA"}
AcroFormWrite == {"Fields", "NeedAppearances", "SigFlags", "CO", "DR", "DA", "Q", "XFA"}

OutlineRead == {"Count"}
OutlineWrite == {"First", "Last", "Parent", "Count"}

OutlineItemRead == {"Title", "Count", "Dest", "A", "SE", "C", "F"}
OutlineItemWrite == {"Title", "A", "C", "Dest", "F", "Count", "Next", "First", "Prev", "Last", "Parent"}

XFormRead == {"FormType", "BBox", "Matrix", "Resources", "Group", "Ref", "MetaData", "PieceInfo",
  "LastModified", "StructParent", "StructParents", "OPI", "OC", "Name"}
XFormWrite == {"FormType", "BBox", "Matrix", "Resources", "Group", "Ref", "MetaData", "PieceInfo",
  "LastModified", "StructParent", "StructParents", "OPI", "OC", "Name"}

XImageRead == {"Width", "Height", "ColorSpace", "BitsPerComponent", "Intent", "ImageMask", "Mask", "Decode",
  "Interpolate", "Alternatives", "SMask", "SMaskInData", "Matte", "Name", "StructParent", "ID", "OPI",
  "Metadata", "OC"}
XImageWrite == {"Width", "Height", "BitsPerComponent", "ColorSpace", "Intent", "ImageMask", "Mask", "Decode",
  "Interpolate", "Alternatives", "SMask", "SMaskInData", "Matte", "Name", "StructParent", "ID", "OPI",
  "Metadata", "OC"}

ShadingRead == {"ShadingType", "ColorSpace", "Background", "BBox", "AntiAlias"}
ShadingWrite == {"ShadingType", "ColorSpace", "Background", "BBox", "AntiAlias"}

Shading1Read == {"Domain", "Matrix", "Function"}
Shading1Write == {"Domain", "Matrix", "Function"}

Shading2Read == {"Coords", "Domain", "Function", "Extend"}
Shading2Write == {"Coords", "Domain", "Function", "Extend"}

Shading3Read == {"Coords", "Domain", "Function", "Extend"}
Shading3Write == {"Coords", "Domain", "Function", "Extend"}

Shading4Read == {"BitsPerCoordinate", "BitsPerComponent", "BitsPerFlag", "Decode", "Function"}
Shading4Write == {"BitsPerCoordinate", "BitsPerComponent", "BitsPerFlag", "Decode", "Function"}

Shading5Read == {"BitsPerCoordinate", "BitsPerComponent", "VerticesPerRow", "Decode", "Function"}
Shading5Write == {"BitsPerCoordinate", "BitsPerComponent", "VerticesPerRow", "Decode", "Function"}

Shading6Read == {"BitsPerCoordinate", "BitsPerComponent", "BitsPerFlag", "Decode", "Function"}
Shading6Write == {"BitsPerCoordinate", "BitsPerComponent", "BitsPerFlag", "Decode", "Function"}

Shading7Read == {"BitsPerCoordinate", "BitsPerComponent", "BitsPerFlag", "Decode", "Function"}
Shading7Write == {"BitsPerCoordinate", "BitsPerComponent", "BitsPerFlag", "Decode", "Function"}

PatternRead == {"PatternType"}
PatternWrite == {"PatternType"}

TilingRead == {"PaintType", "TilingType", "BBox", "XStep", "YStep", "Resources", "Matrix"}
TilingWrite == {"PaintType", "TilingType", "BBox", "XStep", "YStep", "Resources", "Matrix"}

ShadingPatternRead == {"Shading", "Matrix", "ExtGState"}
ShadingPatternWrite == {"Shading", "Matrix", "ExtGState"}

Function0Read == {"Domain", "Range", "Size", "BitsPerSample", "Order", "Encode", "Decode"}
Function0Write == {"Domain", "Range", "Size", "BitsPerSample", "Order"}

Function2Read == {"Domain", "Range", "C0", "C1", "N"}
Function2Write == {"Domain", "Range", "C0", "C1", "N"}

Function3Read == {"Domain", "Range", "Functions", "Bounds", "Encode"}
Function3Write == {"Domain", "Range", "Functions", "Bounds", "Encode"}

Function4Read == {"Domain", "Range"}
Function4Write == {"Domain", "Range"}

CalGrayRead == {"WhitePoint", "BlackPoint", "Gamma"}
CalGrayWrite == {"WhitePoint", "BlackPoint", "Gamma"}

CalRGBRead == {"WhitePoint", "BlackPoint", "Gamma", "Matrix"}
CalRGBWrite == {"WhitePoint", "BlackPoint", "Gamma", "Matrix"}

LabRead == {"WhitePoint", "BlackPoint", "Range"}
LabWrite == {"WhitePoint", "BlackPoint", "Range"}

ICCBasedRead == {"N", "Alternate", "Range", "Metadata"}
ICCBasedWrite == {"N", "Alternate", "Metadata", "Range"}

DeviceNAttributesRead == {"Subtype", "Colorants", "Process", "MixingHints"}
DeviceNAttributesWrite == {"Subtype", "Colorants", "Process", "MixingHints"}

PageRead == {"Parent", "LastModified", "Resources", "MediaBox", "CropBox", "BleedBox", "TrimBox", "ArtBox",
  "BoxColorInfo", "Contents", "Rotate", "Group", "Thumb", "B", "Dur", "Trans", "AA", "Metadata",
  "PieceInfo", "StructParents", "ID", "PZ", "SeparationInfo", "Tabs", "TemplateInstantiated", "PresSteps",
  "UserUnit", "VP", "Annots"}
PageWrite == {"Parent", "LastModified", "Resources", "CropBox", "MediaBox", "BleedBox", "TrimBox", "ArtBox",
  "BoxColorInfo", "Contents", "Rotate", "Group", "Thumb", "B", "Dur", "Trans", "AA", "Metadata",
  "PieceInfo", "StructParents", "ID", "PZ", "SeparationInfo", "Tabs", "TemplateInstantiated", "PresSteps",
  "UserUnit", "VP", "Annots"}

ResourcesRead == {"ExtGState", "ColorSpace", "Pattern", "Shading", "XObject", "Font", "ProcSet", "Properties"}
ResourcesWrite == {"ExtGState", "ColorSpace", "Pattern", "Shading", "XObject", "Font", "ProcSet", "Properties"}

SignatureRead == {"Filter", "SubFilter", "Contents", "Cert", "ByteRange", "Reference", "Changes", "Name", "M",
  "Location", "Reason", "ContactInfo", "R", "V", "Prop_Build", "Prop_AuthTime", "Prop_AuthType"}
SignatureWrite == {"Filter", "SubFilter", "ByteRange", "Contents", "Cert", "Name", "Reason", "M", "Reference",
  "Changes", "ContactInfo"}

FontBaseRead == {"Subtype", "Name", "BaseFont", "FontDescriptor", "ToUnicode"}
FontBaseWrite == {"BaseFont", "Subtype", "FontDescriptor", "ToUnicode"}

DescriptorRead == {"FontName", "FontFamily", "FontStretch", "FontWeight", "Flags", "FontBBox", "ItalicAngle",
  "Ascent", "Descent", "Leading", "CapHeight", "XHeight", "StemV", "StemH", "AvgWidth", "MaxWidth",
  "MissingWidth", "FontFile", "FontFile2", "FontFile3", "CharSet", "Style", "Lang", "FD", "CIDSet"}
DescriptorWrite == {"FontName", "FontFamily", "FontStretch", "FontWeight", "Flags", "FontBBox", "ItalicAngle",
  "Ascent", "Descent", "Leading", "CapHeight", "XHeight", "StemV", "StemH", "AvgWidth", "MaxWidth",
  "MissingWidth", "FontFile", "FontFile2", "FontFile3", "CharSet", "Lang", "FD", "CIDSet"}

SimpleFontRead == {"FirstChar", "LastChar", "Widths", "Encoding"}
SimpleFontWrite == {"FirstChar", "LastChar", "Widths", "Encoding"}

Type0FontRead == {"DescendantFonts", "Encoding"}
Type0FontWrite == {"Encoding", "DescendantFonts"}

CIDFont0Read == {"CIDSystemInfo"}
CIDFont0Write == {}

CIDFont2Read == {"CIDSystemInfo", "DW", "W", "DW2", "W2", "CIDToGIDMap"}
CIDFont2Write == {"CIDSystemInfo", "DW", "DW2", "W", "W2", "CIDToGIDMap"}

(***************************************************************************)
(* What a function of the type needs, takes and writes, and where to.      *)
(***************************************************************************)
Row(needs, reads, sets, home) ==
  [needs |-> needs, reads |-> reads, writes |-> sets, home |-> home]

Annotation(reads, sets) == Row({"Subtype"}, BaseRead \cup reads, BaseWrite \cup sets, "emptied")

MarkupAnnotation(reads, sets) == Annotation(MarkupRead \cup reads, MarkupWrite \cup sets)

Field(reads, sets) == Row({"FT"}, FieldRead \cup reads, FieldWrite \cup sets, "own")

MeshNeeds == {"BitsPerCoordinate", "BitsPerComponent", "BitsPerFlag", "Decode"}

Shade(needs, reads, sets) ==
  Row({"ShadingType", "ColorSpace"} \cup needs, ShadingRead \cup reads, ShadingWrite \cup sets, "kept")

Fill(needs, reads, sets) ==
  Row({"PatternType"} \cup needs, PatternRead \cup reads, PatternWrite \cup sets, "kept")

Typeface(needs, reads, sets) ==
  Row({"Subtype", "BaseFont"} \cup needs, FontBaseRead \cup reads, FontBaseWrite \cup sets, "emptied")

Rows ==
  [ Text |-> MarkupAnnotation(TextRead, TextWrite), Link |-> Annotation(LinkRead, LinkWrite),
    FreeText |-> MarkupAnnotation(FreeTextRead, FreeTextWrite), Line |-> MarkupAnnotation(LineRead, LineWrite),
    Square |-> MarkupAnnotation(SquareRead, SquareWrite), Circle |-> MarkupAnnotation(CircleRead, CircleWrite),
    Polygon |-> MarkupAnnotation(PolygonRead, PolygonWrite),
    PolyLine |-> MarkupAnnotation(PolyLineRead, PolyLineWrite),
    Highlight |-> MarkupAnnotation(HighlightRead, HighlightWrite),
    Underline |-> MarkupAnnotation(UnderlineRead, UnderlineWrite),
    Squiggly |-> MarkupAnnotation(SquigglyRead, SquigglyWrite),
    StrikeOut |-> MarkupAnnotation(StrikeOutRead, StrikeOutWrite),
    Caret |-> MarkupAnnotation(CaretRead, CaretWrite), Stamp |-> MarkupAnnotation(StampRead, StampWrite),
    Ink |-> MarkupAnnotation(InkRead, InkWrite), Popup |-> Annotation(PopupRead, PopupWrite),
    FileAttachment |-> MarkupAnnotation(FileAttachmentRead, FileAttachmentWrite),
    Sound |-> MarkupAnnotation(SoundRead, SoundWrite), RichMedia |-> Annotation(RichMediaRead, RichMediaWrite),
    Movie |-> Annotation(MovieRead, MovieWrite), Screen |-> Annotation(ScreenRead, ScreenWrite),
    Widget |-> Annotation(WidgetRead, WidgetWrite), PrinterMark |-> Annotation(PrinterMarkRead, PrinterMarkWrite),
    TrapNet |-> Annotation(TrapNetRead, TrapNetWrite), Watermark |-> Annotation(WatermarkRead, WatermarkWrite),
    ThreeD |-> Annotation(ThreeDRead, ThreeDWrite),
    Projection |-> MarkupAnnotation(ProjectionRead, ProjectionWrite),
    Redact |-> MarkupAnnotation(RedactRead, RedactWrite),
    FieldButton |-> Field(FieldButtonRead, FieldButtonWrite), FieldText |-> Field(FieldTextRead, FieldTextWrite),
    FieldChoice |-> Field(FieldChoiceRead, FieldChoiceWrite),
    FieldSignature |-> Field(FieldSignatureRead, FieldSignatureWrite),
    AcroForm |-> Row({}, AcroFormRead, AcroFormWrite, "own"),
    Outline |-> Row({}, OutlineRead, OutlineWrite, "kept"),
    OutlineItem |-> Row({"Title"}, OutlineItemRead, OutlineItemWrite, "kept"),
    XForm |-> Row({}, XFormRead, XFormWrite, "emptied"),
    XImage |-> Row({"Width", "Height"}, XImageRead, XImageWrite, "emptied"),
    Shading1 |-> Shade({"Function"}, Shading1Read, Shading1Write),
    Shading2 |-> Shade({"Coords", "Function"}, Shading2Read, Shading2Write),
    Shading3 |-> Shade({"Coords", "Function"}, Shading3Read, Shading3Write),
    Shading4 |-> Shade(MeshNeeds \cup {"Function"}, Shading4Read, Shading4Write),
    Shading5 |-> Shade((MeshNeeds \ {"BitsPerFlag"}) \cup {"VerticesPerRow"}, Shading5Read, Shading5Write),
    Shading6 |-> Shade(MeshNeeds, Shading6Read, Shading6Write),
    Shading7 |-> Shade(MeshNeeds, Shading7Read, Shading7Write),
    Tiling |-> Fill(TilingRead \ {"Matrix"}, TilingRead, TilingWrite),
    ShadingPattern |-> Fill({"Shading"}, ShadingPatternRead, ShadingPatternWrite),
    Function0 |-> Row({"Domain", "Range", "Size", "BitsPerSample"}, Function0Read, Function0Write, "emptied"),
    Function2 |-> Row({"Domain", "N"}, Function2Read, Function2Write, "emptied"),
    Function3 |-> Row(Function3Read \ {"Range"}, Function3Read, Function3Write, "emptied"),
    Function4 |-> Row({"Domain"}, Function4Read, Function4Write, "emptied"),
    CalGray |-> Row({"WhitePoint"}, CalGrayRead, CalGrayWrite, "emptied"),
    CalRGB |-> Row({"WhitePoint"}, CalRGBRead, CalRGBWrite, "emptied"),
    Lab |-> Row({"WhitePoint"}, LabRead, LabWrite, "emptied"),
    ICCBased |-> Row({"N"}, ICCBasedRead, ICCBasedWrite, "emptied"),
    DeviceNAttributes |-> Row({}, DeviceNAttributesRead, DeviceNAttributesWrite, "emptied"),
    Page |-> Row({"Parent"}, PageRead, PageWrite, "emptied"),
    Resources |-> Row({}, ResourcesRead, ResourcesWrite, "own"),
    Signature |-> Row({"Filter", "Contents"}, SignatureRead, SignatureWrite, "kept"),
    Descriptor |-> Row({}, DescriptorRead, DescriptorWrite, "emptied"),
    SimpleFont |-> Typeface({}, SimpleFontRead, SimpleFontWrite),
    Type0Font |-> Typeface({"DescendantFonts"}, Type0FontRead, Type0FontWrite),
    Type0Cmap |-> Typeface({"DescendantFonts"}, Type0FontRead \ {"Encoding"}, Type0FontWrite),
    CIDFont0 |-> Typeface({"CIDSystemInfo"}, CIDFont0Read, CIDFont0Write),
    CIDFont2 |-> Typeface({"CIDSystemInfo"}, CIDFont2Read, CIDFont2Write) ]

Types == DOMAIN Rows
Fonts == {"SimpleFont", "Type0Font", "Type0Cmap", "CIDFont0", "CIDFont2"}
Known(t) == Rows[t].reads \cup Rows[t].writes

\* What the model holds of a key that the dictionary lacks.
Defaults(t) ==
  CASE t = "XImage" -> {"ColorSpace"}
    [] t = "SimpleFont" -> {"FirstChar", "LastChar"}
    [] t = "Function4" -> {"Range"}
    [] t = "CalGray" -> {"BlackPoint", "Gamma"}
    [] t = "CalRGB" -> {"BlackPoint", "Gamma", "Matrix"}
    [] t = "Lab" -> {"BlackPoint", "Range"}
    [] t = "ICCBased" -> {"Range"}
    [] OTHER -> {}

\* The entries of f and, of keys that f lacks, those of g.
Over(f, g) == [k \in DOMAIN f \cup DOMAIN g |-> IF k \in DOMAIN f THEN f[k] ELSE g[k]]
Only(k, v) == [j \in {k} |-> v]

\* The three meshes with flags read the bits per flag into the bits per
\* component, and leave the field for the bits per flag unset.
Meshes == {"Shading4", "Shading6", "Shading7"}
TakeMesh(got, d) ==
  [k \in got \ {"BitsPerFlag"} |-> IF k = "BitsPerComponent" THEN d["BitsPerFlag"] ELSE d[k]]

\* Mutant of Take.
TakeCrossed(t, d) ==
  LET other(k) == IF t = "Square" /\ {"BE", "RD"} \subseteq DOMAIN d /\ k \in {"BE", "RD"}
                  THEN (IF k = "BE" THEN "RD" ELSE "BE") ELSE k
  IN  Over([k \in Rows[t].reads \cap DOMAIN d |-> d[other(k)]], [k \in Defaults(t) |-> "default"])

\* The fields of the model; a structure element of an outline is not taken.
Take(t, d) ==
  LET got == (Rows[t].reads \cap DOMAIN d) \ (IF t = "OutlineItem" THEN {"SE"} ELSE {})
      taken == IF t \in Meshes THEN TakeMesh(got, d) ELSE [k \in got |-> d[k]]
  IN Over(taken, [k \in Defaults(t) |-> "default"])

\* Keys that two fields stand for, one of the type and one of the structure it
\* is built on: both are read and both written, the type's after the other.
Twice(t) ==
  CASE t = "FreeText" -> {"RC", "IT"}
    [] t \in {"Line", "Polygon", "PolyLine"} -> {"IT"}
    [] t = "FieldSignature" -> {"V"}
    [] OTHER -> {}
TakeBase(t, d) == [k \in Twice(t) \cap DOMAIN d |-> d[k]]

\* An entry whose value is nil; the program that prints it stops.
Nil == "nil"

\* Mutant of Put.
PutOver(t, m, d) ==
  IF t = "CIDFont0" THEN << >> ELSE Over([k \in Rows[t].writes \cap DOMAIN m |-> m[k]], d)

\* The dictionary the fields are put into.  A CIDFontType0 becomes null, and a
\* descriptor with a Style has its FontName put in again, be it there or not.
Put(t, m, d) ==
  LET put == [k \in Rows[t].writes \cap DOMAIN m |-> m[k]]
  IN CASE t = "CIDFont0" -> << >>
       [] t = "Descriptor" -> IF "Style" \in DOMAIN m THEN Over(put, Only("FontName", Nil)) ELSE put
       [] t = "OutlineItem" -> Over(put, [k \in DOMAIN d \ {"SE"} |-> d[k]])
       [] t \notin {"CIDFont0", "Descriptor", "OutlineItem"} ->
            IF Rows[t].home = "kept" THEN Over(put, d) ELSE put

(***************************************************************************)
(* One object, its model and its client.                                   *)
(***************************************************************************)
VARIABLES
  kind,    \* the type of the object
  origin,  \* its keys in the file that is read first
  file,    \* the dictionary as it stands
  loaded,  \* whether there is a model
  model,   \* the fields of the model, of its type before those it is built on
  base,    \* of the keys with two fields the other one
  edits,   \* what the client made of a key's field last: "new", "gone", or "base" of the other one
  writes,  \* how often ToPdfObject was called
  shown,   \* whether the model was written as it stands
  seen     \* whether the model is what was read of a dictionary ToPdfObject wrote

dictVars == <<kind, origin, file, loaded, model, base, edits, writes, shown, seen>>

\* The fields a client can reach.
Fields(t) ==
  IF t \in Fonts THEN {}
  ELSE Rows[t].reads \ ({"Subtype", "FT"} \cup IF t \in {"Widget", "OutlineItem"} THEN {"Parent", "SE"} ELSE {})

DictIdle == kind = "none"

DictInit ==
  /\ kind = "none" /\ origin = {} /\ file = << >>
  /\ loaded = FALSE /\ model = << >> /\ base = << >> /\ edits = << >>
  /\ writes = 0 /\ shown = FALSE /\ seen = FALSE

\* A document has the object.
OpenFile(t) ==
  /\ DictIdle
  /\ kind' = t
  /\ origin' \in KeysOf[t]
  /\ file' = [k \in origin' |-> k]
  /\ UNCHANGED <<loaded, model, base, edits, writes, shown, seen>>

\* newPdf...FromDict, in a reader that has no model of the object yet.
LoadModel ==
  /\ ~loaded /\ kind \in Types
  /\ Rows[kind].needs \subseteq DOMAIN file
  /\ loaded' = TRUE
  /\ model' = Take(kind, file)
  /\ base' = TakeBase(kind, file)
  /\ seen' = (writes > 0)
  /\ UNCHANGED <<kind, origin, file, edits, writes, shown>>

CanEdit(k) == loaded /\ k \in Fields(kind) /\ Cardinality(DOMAIN edits \cup {k}) <= MaxEdits

\* The client assigns a value to a field.
SetField(k) ==
  /\ CanEdit(k)
  /\ model' = Over(Only(k, "new"), model)
  /\ edits' = Over(Only(k, "new"), edits)
  /\ seen' = FALSE /\ shown' = FALSE
  /\ UNCHANGED <<kind, origin, file, loaded, base, writes>>

\* The client sets a field that is not required to nil.
ClearField(k) ==
  /\ CanEdit(k) /\ k \in DOMAIN model \ Rows[kind].needs
  /\ model' = [j \in DOMAIN model \ {k} |-> model[j]]
  /\ edits' = Over(Only(k, "gone"), edits)
  /\ seen' = FALSE /\ shown' = FALSE
  /\ UNCHANGED <<kind, origin, file, loaded, base, writes>>

\* The same of the other field of a key.
SetBase(k) ==
  /\ CanEdit(k) /\ k \in Twice(kind)
  /\ base' = Over(Only(k, "new"), base)
  /\ edits' = Over(Only(k, "base"), edits)
  /\ seen' = FALSE /\ shown' = FALSE
  /\ UNCHANGED <<kind, origin, file, loaded, model, writes>>
ClearBase(k) ==
  /\ CanEdit(k) /\ k \in DOMAIN base
  /\ base' = [j \in DOMAIN base \ {k} |-> base[j]]
  /\ edits' = Over(Only(k, "base"), edits)
  /\ seen' = FALSE /\ shown' = FALSE
  /\ UNCHANGED <<kind, origin, file, loaded, model, writes>>

\* What is written of each key: the field of the type, or else the other one.
FieldsHeld == Over(model, base)

\* ToPdfObject of the specific type.
WriteModel ==
  /\ loaded /\ writes < MaxWrites
  /\ file' = Put(kind, FieldsHeld, file)
  /\ writes' = writes + 1
  /\ shown' = TRUE
  /\ UNCHANGED <<kind, origin, loaded, model, base, edits, seen>>

\* Another reader opens what was written, if it could be printed.
Reopen ==
  /\ loaded /\ shown /\ \A k \in DOMAIN file : file[k] # Nil
  /\ loaded' = FALSE
  /\ model' = << >> /\ base' = << >>
  /\ seen' = FALSE
  /\ UNCHANGED <<kind, origin, file, edits, writes, shown>>

DictNext ==
  \/ \E t \in Types : OpenFile(t)
  \/ LoadModel \/ WriteModel \/ Reopen
  \/ loaded /\ \E k \in EditsOf[kind][origin] : SetField(k) \/ ClearField(k) \/ SetBase(k) \/ ClearBase(k)

DictSpec == DictInit /\ [][DictNext]_dictVars

(***************************************************************************)
(* Properties.                                                             *)
(***************************************************************************)
\* Entries that are lost or spoilt though a function reads them: the Encode
\* and Decode of a sampled function, the structure element of an outline, the
\* bits per component of a mesh, the Style of a descriptor, a CIDFontType0
\* altogether.
Spoilt(t) ==
  CASE t = "Projection" -> {"Subtype"}
    [] t = "Function0" -> {"Encode", "Decode"}
    [] t = "OutlineItem" -> {"SE"}
    [] t \in Meshes -> {"BitsPerComponent"}
    [] t = "Descriptor" -> {"Style"}
    [] t = "CIDFont0" -> Known(t)
    [] t = "Type0Cmap" -> {"Name", "Encoding"}
    [] t \in Fonts \ {"CIDFont0", "Type0Cmap"} -> {"Name"}
    [] OTHER -> {}

\* A document that is read and written has the entries it had, under the same
\* keys, but for those: of sixty pairs of functions no other forgets an entry
\* the other has (ToPdfObject, newPdf...FromDict).
KeysKept ==
  kind \in Types /\ edits = << >> => \A k \in (origin \cap Known(kind)) \ Spoilt(kind) : k \in DOMAIN file /\ file[k] = k

\* The fields of a signature that ToPdfObject forgets.
Unwritten(t) ==
  Spoilt(t) \cup IF t = "Signature" THEN {"Location", "R", "V", "Prop_Build", "Prop_AuthTime", "Prop_AuthType"} ELSE {}

\* What the client set is in the dictionary that is written, and what it took
\* out is not, or is nil, unless the dictionary is the one that was read
\* (shadings, patterns, outlines, signatures), or the key has a second field
\* that was not taken out with the first.
SecondField(k) == k \in Twice(kind) /\ (loaded => k \in DOMAIN base)
EditsShown ==
  shown => \A k \in DOMAIN edits \ Unwritten(kind) :
    /\ edits[k] = "new" => k \in DOMAIN file /\ file[k] = "new"
    /\ edits[k] = "gone" =>
         \/ Rows[kind].home = "kept" \/ k \in Defaults(kind) \/ SecondField(k)
         \/ k \notin DOMAIN file \/ file[k] = Nil

\* Reading what was written and writing it again changes nothing: the losses
\* and the defaults are those of the first time (but for a default that the
\* client took out, which is back, and an entry that is read from another one).
WriteStable ==
  [][seen /\ writes' > writes =>
       \A k \in DOMAIN file \cup DOMAIN file' :
         \/ k \in DOMAIN file /\ k \in DOMAIN file' /\ file'[k] = file[k]
         \/ edits # << >> /\ k \in Defaults(kind) \cup Spoilt(kind)]_dictVars

\* The invariants of a document's dictionaries.
DictsSound == KeysKept /\ EditsShown
=============================================================================
