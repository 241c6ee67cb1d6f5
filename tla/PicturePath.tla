----------------------------- MODULE PicturePath -----------------------------
(***************************************************************************)
(* The way of a picture from the session's threads to the screen: the      *)
(* mailbox (queue_frame, FrameMailbox, FramePacket, TileSet of             *)
(* crates/ard-viewer/src/session_runtime.rs, merge_older_updates of        *)
(* media/mod.rs, SliceCompositor of media/pipeline.rs) and the renderer    *)
(* (RemotePrimitive and RemotePipeline of session_renderer.rs).            *)
(*                                                                         *)
(* A picture has parts: the tiles of an MVS picture or the bands of a      *)
(* native one; a snapshot of the framebuffer has all parts at once.  A     *)
(* part is its content and the table it is to be read with: for a coded    *)
(* tile its quantization tables, for a band its range, matrix and          *)
(* primaries.  A session's server sends one of the three kinds of          *)
(* pictures; the mailbox keeps what the screen has not got yet, and the    *)
(* renderer sends the graphics processor only what changed.                *)
(***************************************************************************)
CONSTANTS
  Places,     \* the tiles, or the bands, of a picture
  Sizes,      \* dimensions of a picture
  Contents,   \* what a part shows
  Coded,      \* those contents that are coefficients, to be dequantized
  Tables      \* quantization tables, or colour properties

None == "none"

VARIABLES
  (* the session *)
  kind,        \* what its server sends: "tiles", "pixels" or "bands"
  layout,      \* SliceCompositor.metadata: the layout of all bands, or none yet
  mailbox,     \* FrameMailbox.latest
  (* RemotePipeline *)
  attached,    \* its mailbox is that of the session
  decoded,     \* the texture of decoded pixels, the tiles sent to it apart
  native,      \* the textures of a native picture, and their colour
  presentNative,
  tiles,       \* uploaded_mvs_tiles
  payload,     \* the tiles in records_buffer and payload_buffer
  pending,     \* pending_mvs_decode: they are still to be decoded
  bound,       \* there is an mvs_bind_group
  screen,      \* what was drawn last
  (* history *)
  published,   \* the session's picture, put together from what was published
  seen         \* every part the session has published

renderer == <<attached, decoded, native, presentNative, tiles, payload, pending, bound, screen>>
vars == <<kind, layout, mailbox, renderer, published, seen>>

Values == [content : Contents, table : Tables \cup {None}]
Nothing == [p \in {} |-> p]
NoPicture == [size |-> None, table |-> None, parts |-> Nothing]
NoTiles == [size |-> None, parts |-> Nothing, dirty |-> {}]

Over(new, old) ==
  [p \in DOMAIN new \cup DOMAIN old |-> IF p \in DOMAIN new THEN new[p] ELSE old[p]]

Init ==
  /\ kind \in {"tiles", "pixels", "bands"}
  /\ layout = {} /\ mailbox = NoPicture
  /\ attached = FALSE
  /\ decoded = NoPicture /\ native = NoPicture /\ presentNative = FALSE
  /\ tiles = NoTiles /\ payload = Nothing /\ pending = FALSE /\ bound = FALSE
  /\ screen = NoPicture
  /\ published = NoPicture /\ seen = {}

-----------------------------------------------------------------------------
(* The session's threads.                                                  *)

Frame(size, table, parts) == [size |-> size, table |-> table, parts |-> parts]
SameFormat(a, b) == a.size = b.size /\ a.table = b.table

(* A frame joins one that waits, if their formats agree, and replaces any  *)
(* other: merge_mvs, merge_older_updates, replace_latest.                  *)
Joined(frame, older) ==
  Frame(frame.size, frame.table,
        IF SameFormat(frame, older) THEN Over(frame.parts, older.parts) ELSE frame.parts)

Entries(picture) == {<<picture.size, p, picture.parts[p]>> : p \in DOMAIN picture.parts}

Publish(frame) ==
  /\ mailbox' = Joined(frame, mailbox)
  /\ published' = Joined(frame, published)
  /\ seen' = seen \cup Entries(frame)
  /\ UNCHANGED <<kind, renderer>>

(* An MVS frame: some tiles, the coded ones with the tables of the frame.  *)
QueueTiles ==
  /\ kind = "tiles"
  /\ \E size \in Sizes, table \in Tables, changed \in (SUBSET Places) \ {{}} :
       \E content \in [changed -> Contents] :
         Publish(Frame(size, None,
                       [p \in changed |-> [content |-> content[p],
                                           table |-> IF content[p] \in Coded THEN table ELSE None]]))
  /\ UNCHANGED layout

(* A snapshot of the framebuffer. *)
QueuePixels ==
  /\ kind = "pixels" /\ Places # {}
  /\ \E size \in Sizes : \E content \in [Places -> Contents] :
       Publish(Frame(size, None, [p \in Places |-> [content |-> content[p], table |-> None]]))
  /\ UNCHANGED layout

(* The bands one batch decoded, once every band's layout is known.         *)
QueueBands ==
  /\ kind = "bands"
  /\ \E size \in Sizes, table \in Tables, changed \in (SUBSET Places) \ {{}} :
       /\ changed = Places \/ layout = {[size |-> size, table |-> table]}
       /\ layout' = {[size |-> size, table |-> table]}
       /\ \E content \in [changed -> Contents] :
            Publish(Frame(size, table,
                          [p \in changed |-> [content |-> content[p], table |-> table]]))

(* A failure or a loss resets the compositor. *)
CompositorResets ==
  /\ layout # {}
  /\ layout' = {}
  /\ UNCHANGED <<kind, mailbox, renderer, published, seen>>

(* The window shows another session, which has a mailbox of its own.       *)
NewSession ==
  /\ kind' \in {"tiles", "pixels", "bands"}
  /\ layout' = {} /\ mailbox' = NoPicture /\ attached' = FALSE
  /\ published' = NoPicture /\ seen' = {}
  /\ UNCHANGED <<decoded, native, presentNative, tiles, payload, pending, bound, screen>>

-----------------------------------------------------------------------------
(* The renderer.                                                           *)

(* reset_session, for a session the renderer has not shown yet.            *)
Own(value, reset) == IF attached THEN value ELSE reset
OwnDecoded == Own(decoded, NoPicture)
OwnNative == Own(native, NoPicture)
OwnTiles == Own(tiles, NoTiles)
OwnPending == attached /\ pending
OwnBound == attached /\ bound

KeepAll ==
  /\ decoded' = OwnDecoded /\ native' = OwnNative /\ presentNative' = (attached /\ presentNative)
  /\ tiles' = OwnTiles /\ pending' = OwnPending /\ bound' = OwnBound
  /\ UNCHANGED payload

(* ensure_texture. *)
Recreated == OwnDecoded.size # mailbox.size
Texture == IF Recreated THEN Frame(mailbox.size, None, Nothing) ELSE OwnDecoded
KeptBound == OwnBound /\ ~Recreated

(* TileSet::merge: a tile is sent again if it, or its table, changed; what *)
(* still waits to be decoded is sent again with it.                        *)
Changed(new, old) == {p \in DOMAIN new : p \notin DOMAIN old \/ old[p] # new[p]}
MergedTiles ==
  IF OwnTiles.size # mailbox.size
  THEN [size |-> mailbox.size, parts |-> mailbox.parts, dirty |-> DOMAIN mailbox.parts]
  ELSE LET parts == Over(mailbox.parts, OwnTiles.parts)
       IN [size |-> mailbox.size, parts |-> parts,
           dirty |-> IF Recreated THEN DOMAIN parts
                     ELSE Changed(mailbox.parts, OwnTiles.parts)
                            \cup (IF OwnPending THEN OwnTiles.dirty ELSE {})]

UploadTiles ==
  /\ decoded' = Texture /\ native' = OwnNative /\ presentNative' = FALSE
  /\ IF MergedTiles.dirty = {}
     THEN /\ tiles' = IF Recreated THEN NoTiles ELSE MergedTiles
          /\ pending' = OwnPending /\ bound' = KeptBound
          /\ UNCHANGED payload
     ELSE /\ tiles' = MergedTiles
          /\ payload' = [p \in MergedTiles.dirty |-> MergedTiles.parts[p]]
          /\ pending' = TRUE /\ bound' = TRUE

UploadPixels ==
  /\ decoded' = Frame(mailbox.size, None, mailbox.parts)
  /\ native' = OwnNative /\ presentNative' = FALSE
  /\ tiles' = NoTiles /\ pending' = FALSE /\ bound' = KeptBound
  /\ UNCHANGED payload

(* ensure_nv12_texture. *)
NativeTexture == IF OwnNative.size = mailbox.size THEN OwnNative.parts ELSE Nothing

(* upload_nv12: a picture is shown once every row of it was written.       *)
UploadBands ==
  /\ native' = Frame(mailbox.size, mailbox.table, Over(mailbox.parts, NativeTexture))
  /\ presentNative' = (DOMAIN native'.parts = Places)
  /\ decoded' = OwnDecoded /\ tiles' = OwnTiles /\ pending' = FALSE /\ bound' = OwnBound
  /\ UNCHANGED payload

(* RemotePrimitive::prepare. *)
Prepare ==
  /\ CASE mailbox = NoPicture -> KeepAll
       [] mailbox # NoPicture /\ kind = "tiles" -> UploadTiles
       [] mailbox # NoPicture /\ kind = "pixels" -> UploadPixels
       [] mailbox # NoPicture /\ kind = "bands" -> UploadBands
  /\ attached' = TRUE /\ mailbox' = NoPicture
  /\ UNCHANGED <<kind, layout, screen, published, seen>>

(* RemotePipeline::render. *)
Render ==
  /\ attached
  /\ decoded' = IF pending THEN Frame(decoded.size, None, Over(payload, decoded.parts)) ELSE decoded
  /\ pending' = FALSE
  /\ screen' = IF presentNative THEN native ELSE decoded'
  /\ UNCHANGED <<kind, layout, mailbox, attached, native, presentNative, tiles, payload, bound,
                 published, seen>>

Next ==
  \/ QueueTiles \/ QueuePixels \/ QueueBands \/ CompositorResets \/ NewSession
  \/ Prepare \/ Render

Spec == Init /\ [][Next]_vars

-----------------------------------------------------------------------------
(* Properties.                                                             *)

Parts == UNION {[D -> Values] : D \in SUBSET Places}
Pictures == [size : Sizes \cup {None}, table : Tables \cup {None}, parts : Parts]

TypeOK ==
  /\ kind \in {"tiles", "pixels", "bands"}
  /\ layout \subseteq [size : Sizes, table : Tables]
  /\ {mailbox, decoded, native, screen, published} \subseteq Pictures
  /\ {attached, presentNative, pending, bound} \subseteq BOOLEAN
  /\ tiles \in [size : Sizes \cup {None}, parts : Parts, dirty : SUBSET Places]
  /\ tiles.dirty \subseteq DOMAIN tiles.parts
  /\ payload \in Parts

Draws == Render /\ mailbox = NoPicture

(* What is drawn when nothing waits in the mailbox is the session's        *)
(* picture: each part as it was published last, whether it came alone, was *)
(* merged with others, waited undrawn, or was skipped because the texture  *)
(* already had it.                                                         *)
DrawsWhatWasPublished ==
  [][Draws => /\ published # NoPicture => screen'.size = published.size
              /\ \A p \in DOMAIN published.parts :
                   p \in DOMAIN screen'.parts /\ screen'.parts[p] = published.parts[p]]_vars

(* Nothing of another session is drawn, whatever the textures and tiles    *)
(* held when the window changed to this one.                               *)
DrawsItsOwn == [][Render => Entries(screen') \subseteq seen]_vars

(* A native picture is drawn whole and in the colours it was sent in: a    *)
(* part of a picture never replaces the picture, and bands of two colours  *)
(* never share one.                                                        *)
DrawsWholeBands ==
  [][Render /\ kind = "bands" =>
       \/ screen' = NoPicture
       \/ /\ DOMAIN screen'.parts = Places
          /\ \A p \in Places : screen'.parts[p].table = screen'.table]_vars

(* Tiles that wait to be decoded have their bind group, which render       *)
(* expects.                                                                *)
DecodesWithBindGroup == pending => bound /\ payload # Nothing
=============================================================================
