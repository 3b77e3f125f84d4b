---------------------------- MODULE MC_PdfCrypt ----------------------------
(* Encrypted documents of five objects: the Encrypt and Info dictionaries, a
   catalog, an object stream and a member of it. *)
EXTENDS PdfCrypt

CONSTANT None

Handlers == {<<4, "RC4">>, <<4, "AES">>, <<5, "AES">>, <<6, "AES">>}

Catalogs == {<<"ciphered", "ciphered">>, <<"ciphered", "broken">>,
             <<"exempt", "ciphered">>}
Streams == {<<"ciphered", "ciphered">>, <<"exempt", "ciphered">>,
            <<"ciphered", "broken">>, <<"ciphered", "exempt">>}

Document(h, empty, catalog, stream, trailer, pages) ==
    [revision |-> h[1], cipher |-> h[2], emptyUser |-> empty,
     encrypt |-> trailer[1], info |-> trailer[2],
     streams |-> {4},
     home |-> [n \in 1 .. 5 |-> IF n = 5 THEN 4 ELSE None],
     part |-> << <<"exempt", "exempt">>, <<"ciphered", "ciphered">>,
                 catalog, stream, <<"ciphered", "exempt">> >>,
     structure |-> pages]

AllDocs == {Document(h, e, c, s, t, p) :
                h \in Handlers, e \in BOOLEAN, c \in Catalogs, s \in Streams,
                t \in {<<1, 2>>, <<None, 2>>, <<1, None>>}, p \in {<<3>>, <<3, 5>>}}

(***************************************************************************)
(* Names for the values above: TLC evaluates these once, and what a        *)
(* configuration gives a constant at every use.                            *)
(***************************************************************************)
TheDocs == AllDocs
============================================================================
