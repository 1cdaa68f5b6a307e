----------------------------- MODULE UploadPage -----------------------------
(***************************************************************************)
(* A record's way through app/pages/1_Paste_Upload.py: unpacked, cut by    *)
(* the cached parser, previewed, stored by a parser over the registry of   *)
(* that moment (repo_scope), and read back on the Inspect page, while      *)
(* other sessions edit schemas.  The cached parser never hears of an edit. *)
(* A payload with a KMAPv2 marker goes to the scan of FrameScanner.        *)
(*                                                                         *)
(* The store is the archive MessageStore implements: an upload is stored   *)
(* whole, or, when one of its parses raises, not at all.                   *)
(***************************************************************************)
EXTENDS RecordSlicer, FieldDecoding

CONSTANTS
    Folders,    \* sets of schema texts the schema directory may hold
    Uploads,    \* what users provide: [way, bytes]
    Marker,     \* the byte that stands for "KMAPv2.0"
    NoUpload,   \* nothing was stored or opened
    MaxEdits    \* bound: schema edits by other sessions

\* load_registry returns: every text is accepted, and no code is there twice.
Loads(folder) ==
    /\ \A t \in folder : Accepted(t)
    /\ \A t, u \in folder : t.tr = u.tr => t = u

Registries == {folder \in Folders : Loads(folder)}

IsRow(row) == row \in Seq({row[k] : k \in DOMAIN row})

\* A field's length and its numbers of digits are not negative.
Measures(fld) ==
    fld.length \in Nat /\ (fld.digits # <<>> => fld.digits \in Nat \X Nat)

\* Lengths, digits and counts are not negative, and names in a layout are
\* distinct: build_schema checks neither.  They may be 0, and a layout empty.
Ordinary(t) ==
    /\ IsRow(t.layout)
    /\ \A k \in DOMAIN t.layout :
        LET item == t.layout[k]
        IN  /\ item.kind \in {"field", "array"} =>
                  \A m \in DOMAIN t.layout : k # m =>
                      t.layout[m].kind \notin {"field", "array"}
                      \/ t.layout[m].name # item.name
            /\ item.kind = "field" => Measures(item)
            /\ item.kind = "array" =>
                  /\ item.count \in Nat /\ IsRow(item.fields)
                  /\ \A f, g \in DOMAIN item.fields :
                        /\ Measures(item.fields[f])
                        /\ f # g => item.fields[f].name # item.fields[g].name

ASSUME UploadAssumption ==
    /\ PeekLength = CodeOffset + CodeLength
    /\ \A t \in UNION Folders : Ordinary(t) /\ t.length \in RecordLengths
    /\ NoUpload \notin UNION Folders
    /\ \A u \in Uploads : u.way \in {"file", "paste", "gzip", "damaged"}
                          /\ u.bytes \in Seq(Nat) /\ Len(u.bytes) <= MaxPayload
    /\ MaxEdits \in Nat

VARIABLES
    upload,    \* what was provided
    cached,    \* the registry of the cached parser
    registry,  \* the registry get_registry returns now
    page,      \* what the page shows
    stored,    \* by record: its status, the schema used and the JSON body
    opened,    \* the record on the Inspect page, and the schema used to read it
    edits      \* how many edits other sessions have made

pageVars == <<slicerVars, upload, cached, registry, page, stored, opened, edits>>

LineFeed == 10
Return == 13

\* sanitize_paste: line ends are taken out of pasted text.
Sanitized(text) ==
    LET kept == {k \in DOMAIN text :
                    /\ text[k] # LineFeed
                    /\ text[k] = Return => k = Len(text) \/ text[k + 1] # LineFeed}
        nth[k \in 0..Len(text)] ==
            IF k = 0 THEN <<>>
            ELSE IF k \in kept THEN Append(nth[k - 1], text[k]) ELSE nth[k - 1]
    IN  nth[Len(text)]

\* What extract works on; gzip data is given unpacked.
PayloadOf(u) == IF u.way = "paste" THEN Sanitized(u.bytes) ELSE u.bytes

\* Pasted blanks and line ends are no input.
NothingGiven(u) == u.way = "paste" /\ Strip(u.bytes, Whitespace) = <<>>

\* looks_like_kmap_stream.
LooksLikeLog(payload) == \E k \in DOMAIN payload : payload[k] = Marker

Knows(reg, code) == \E t \in reg : t.tr = code

SchemaOf(reg, code) == CHOOSE t \in reg : t.tr = code

\* What iter_records learns at a position, with the parser's registry.
LengthRead(reg, payload, p) ==
    LET window == Slice(payload, p, p + PeekLength)
    IN  IF /\ p + PeekLength <= Len(payload)
           /\ PeekStatus(window) = "ok" /\ Knows(reg, PeekCode(window))
        THEN SchemaOf(reg, PeekCode(window)).length
        ELSE NoRecord

FirstPage(u) ==
    IF NothingGiven(u) THEN "input"
    ELSE IF u.way = "damaged" THEN "damaged"
    ELSE IF LooksLikeLog(PayloadOf(u)) THEN "log"
    ELSE "extract"

PageInit ==
    /\ upload \in Uploads
    /\ cached \in Registries /\ registry = cached
    /\ page = FirstPage(upload)
    /\ total = Len(PayloadOf(upload))
    /\ lengthAt = [p \in 0..(total - 1) |-> LengthRead(cached, PayloadOf(upload), p)]
    /\ at = 0 /\ cuts = {} /\ slicing = "slice"
    /\ stored = NoUpload /\ opened = NoUpload /\ edits = 0

Record(c) == Slice(PayloadOf(upload), c, c + lengthAt[c])

-----------------------------------------------------------------------------

SliceStep ==
    /\ page = "extract"
    /\ SlicerNext
    /\ UNCHANGED <<upload, cached, registry, page, stored, opened, edits>>

\* "Could not detect any KMAPv2 frames or back-to-back records."
ShowWarning ==
    /\ page = "extract" /\ slicing = "sliced"
    /\ cuts = {}
    /\ page' = "warning"
    /\ UNCHANGED <<slicerVars, upload, cached, registry, stored, opened, edits>>

\* st.slider rejects a range of one value: with one record it goes from 1 to 1.
SliderFails == \A c, d \in cuts : c = d

\* The preview parses with the cached parser and shows what it raises.
ShowPreview ==
    /\ page = "extract" /\ slicing = "sliced"
    /\ cuts # {}
    /\ page' = IF SliderFails THEN "previewFails" ELSE "preview"
    /\ UNCHANGED <<slicerVars, upload, cached, registry, stored, opened, edits>>

\* Parser.parse over a registry.
Parsed(reg, raw) ==
    IF PeekStatus(raw) # "ok" THEN PeekStatus(raw)
    ELSE IF ~Knows(reg, PeekCode(raw)) THEN "error"
    ELSE ParseStatus(SchemaOf(reg, PeekCode(raw)), raw)

NoBody == [p \in {} |-> NoValue]

\* What ingest stores of a record.
Stored(reg, raw) ==
    IF Parsed(reg, raw) = "parsed"
    THEN LET schema == SchemaOf(reg, PeekCode(raw))
         IN  [status |-> "parsed", schema |-> schema, json |-> ToJson(BodyOf(schema, raw))]
    ELSE [status |-> "error", schema |-> NoUpload, json |-> NoBody]

\* Save: the script runs again, extracts the same records, and ingest_many
\* parses them with a parser of its own.
Save ==
    /\ page = "preview"
    /\ IF \E c \in cuts : Parsed(registry, Record(c)) = "raises"
       THEN page' = "saveFails" /\ UNCHANGED stored
       ELSE page' = "saved" /\ stored' = [c \in cuts |-> Stored(registry, Record(c))]
    /\ UNCHANGED <<slicerVars, upload, cached, registry, opened, edits>>

\* Another session saves or deletes a schema; get_registry is cleared.
EditSchema ==
    /\ edits < MaxEdits
    /\ registry' \in Registries \ {registry}
    /\ edits' = edits + 1
    /\ UNCHANGED <<slicerVars, upload, cached, page, stored, opened>>

\* _hydrate with the registry of now; an unknown code's JSON is shown as it is.
Inspect(c) ==
    /\ page = "saved" /\ stored[c].status = "parsed"
    /\ LET json == stored[c].json
           tr == stored[c].schema.tr
       IN  IF ~Knows(registry, tr)
           THEN /\ opened' = [cut |-> c, schema |-> NoUpload, body |-> json]
                /\ page' = "inspect"
           ELSE LET schema == SchemaOf(registry, tr)
                IN  IF BodyReadable(schema, json)
                    THEN /\ opened' = [cut |-> c, schema |-> schema,
                                       body |-> FromJson(schema, json)]
                         /\ page' = "inspect"
                    ELSE /\ opened' = [cut |-> c, schema |-> schema, body |-> NoBody]
                         /\ page' = "unreadable"
    /\ UNCHANGED <<slicerVars, upload, cached, registry, stored, edits>>

\* The script has ended and waits for its user.
AtRest == page # "extract" /\ UNCHANGED pageVars

Proceed == SliceStep \/ ShowWarning \/ ShowPreview

PageNext ==
    \/ Proceed
    \/ Save
    \/ EditSchema
    \/ \E c \in cuts : Inspect(c)
    \/ AtRest

PageSpec == PageInit /\ [][PageNext]_pageVars

\* A script thread that was started runs to its end.
FairPageSpec == PageSpec /\ WF_pageVars(Proceed)

-----------------------------------------------------------------------------
(* Properties.                                                             *)

\* The type invariant of the page.
PageTypeOK ==
    /\ SlicerTypeOK
    /\ upload \in Uploads
    /\ cached \in Registries /\ registry \in Registries
    /\ page \in {"input", "damaged", "log", "extract", "warning", "preview",
                 "previewFails", "saved", "saveFails", "inspect", "unreadable"}
    /\ page \in {"saved", "inspect", "unreadable"} =>
          /\ DOMAIN stored = cuts
          /\ \A c \in cuts : stored[c].status \in {"parsed", "error"}
    /\ edits \in 0..MaxEdits

\* Every schema the registry holds lays its record out without a gap and
\* without an overlap, arrays included.  ("validates that the sum of item
\* lengths equals the declared record_length")
LayoutTiles == \A t \in registry : Tiled(t)

\* A record the cached parser cut by an old length is never parsed by the new
\* schema: what is stored as parsed was cut with the length of the schema that
\* decoded it, however stale the parser that cut it.
ParsedAsCut ==
    page \in {"saved", "inspect", "unreadable"} =>
        \A c \in cuts : stored[c].status = "parsed" =>
            stored[c].schema.length = lengthAt[c]

\* The reference for a number with digits: each column counts a power of ten
\* by its place, counted from the right of the field; a point has no column.
ColumnsRight(text, k) == Cardinality({m \in (k + 1)..Len(text) : text[m] # Point})

Positional(text) ==
    LET sum[k \in 0..Len(text)] ==
            IF k = 0 THEN 0
            ELSE IF text[k] \in Digits
                 THEN sum[k - 1] + (text[k] - Zero) * TenTo(ColumnsRight(text, k))
                 ELSE sum[k - 1]
    IN  IF text[1] = Minus THEN -sum[Len(text)] ELSE sum[Len(text)]

NumericSlots(t) == {s \in Slots(t) : FieldOf(t, s).digits # <<>>}

\* The last column holds a digit: only a point may follow it.
EndsInDigit(text) ==
    \E k \in DOMAIN text : /\ text[k] \in Digits
                           /\ \A m \in (k + 1)..Len(text) : text[m] = Point

\* A number filled up to its right end is stored as the number its columns
\* spell, whether the field has a sign, a point or neither, and whether it is
\* filled with zeros or blanks on its left.  ("implied decimal placement";
\* tests: parse(build(values)) == values.)
PositionalValue ==
    page \in {"saved", "inspect", "unreadable"} =>
        \A c \in cuts : stored[c].status = "parsed" =>
            LET t == stored[c].schema
            IN  \A s \in NumericSlots(t) :
                    LET chunk == Slice(Record(c), s.from, s.to)
                        v == BodyOf(t, Record(c))[Place(t, s)]
                    IN  EndsInDigit(chunk) =>
                            /\ v.number = Positional(chunk)
                            /\ v.scale = FieldOf(t, s).digits[2]

\* A record read by the schema it was stored with is the record that was
\* parsed, exact numbers included, and can always be read.  ("Decimals are
\* written as strings so that SQLite TEXT storage preserves exact precision")
ReadBack ==
    page \in {"inspect", "unreadable"} /\ opened.schema = stored[opened.cut].schema =>
        /\ page = "inspect"
        /\ opened.body = BodyOf(opened.schema, Record(opened.cut))

\* The extraction ends, unless the parser's registry has an empty schema for a
\* code that it cut by: no other schema, and no payload, keeps it going for ever.
ExtractEnds == page = "extract" ~> page # "extract" \/ ~Onward
=============================================================================
