-------------------------------- MODULE Brands --------------------------------
(***************************************************************************)
(* What a profile looks like and is published as: a channel's brand.json,  *)
(* the override an event lays over it, the font files of both, and the     *)
(* studio's requests that change them (brand_admin.py,                     *)
(* event_brand_admin.py, font_admin.py).  profile.load merges, resolves    *)
(* and validates; the requests promise to leave only what it will load.    *)
(*                                                                         *)
(* A request looks at the files and validates in one step, and writes in   *)
(* another: no lock is held between the two.  A scope is <<channel>> or    *)
(* <<channel, event>>.  A section is Null or a function of its keys.       *)
(***************************************************************************)
EXTENDS Vocabulary

CONSTANTS
  Tasks,           \* requests in progress at once
  Fonts, Elsewhere,\* font files by name; a font named by an absolute path
  ColorKeys, FontRoles,
  ChannelAssets, EventAssets,   \* logo files that are there
  VariantFile,     \* _variant_file: <<file, variant>> -> file
  Gap, FooterHeight, CaptionSize,
  Modes, Providers, BandKeys,
  Null

VARIABLES
  brand,     \* brand.json, by scope: sections, Absent or Unreadable
  fonts,     \* the files under fonts/, by scope
  request    \* what each task is about to write

brandVars == <<brand, fonts, request>>

Sections == {"colors", "fonts", "logo", "output", "subtitles", "bands", "upload", "detect"}
OverrideSections == Sections \ {"upload", "detect"}
BrandScopes == ChannelScopes \cup EventScopes
ChannelOf(s) == <<s[1]>>
EventsOf(s) == {u \in EventScopes : ChannelOf(u) = s}
Readable(b) == b \notin {Absent, Unreadable}

Has(b, section) == section \in DOMAIN b /\ b[section] # Null

\* deep_merge: only leaves are replaced, sections that are objects on both sides are merged.
DeepMerge(base, over) ==
  [k \in DOMAIN base \cup DOMAIN over |->
     IF Has(base, k) /\ Has(over, k) THEN Over(over[k], base[k])
     ELSE IF k \in DOMAIN over THEN over[k] ELSE base[k]]

----------------------------------------------------------------------------
(* profile.load's rules, by section.  `there` are the fonts, `assets` the   *)
(* logo files a name is resolved to, the event's first.                     *)

ColorsFail(b) ==
  ~Has(b, "colors") \/ \E k \in ColorKeys : k \notin DOMAIN b.colors \/ b.colors[k] # "rgb"

FontsFail(b, there) ==
  ~Has(b, "fonts") \/ \E r \in FontRoles : r \notin DOMAIN b.fonts \/ b.fonts[r] \notin there

OutputKeys == {"width", "height", "video_width", "video_height", "video_y"}
OutputUsable(b) ==
  Has(b, "output") /\ \A k \in OutputKeys : k \in DOMAIN b.output /\ b.output[k] \in Int
OutputFails(b) ==
  \/ ~OutputUsable(b)
  \/ LET o == b.output
     IN  \/ o.width <= 0 \/ o.height <= 0 \/ o.video_height <= 0
         \/ ~(0 < o.video_width /\ o.video_width <= o.width)
         \/ o.video_y <= 0 \/ o.video_y + o.video_height > o.height

\* caption_geometry and validate_caption_box, for the tallest caption there can be.
CaptionCollides(o, subtitles) ==
  LET bottom == o.video_y + o.video_height
      top    == IF "y" \in DOMAIN subtitles THEN subtitles.y ELSE bottom + Gap
      size   == IF "size" \in DOMAIN subtitles THEN subtitles.size ELSE CaptionSize
      block  == 2 * ((size * 112) \div 100)
  IN  \/ "y" \in DOMAIN subtitles /\ top < bottom
      \/ top + block > o.height - FooterHeight

SubtitlesFail(b) ==
  /\ "subtitles" \in DOMAIN b
  /\ \/ b.subtitles = Null
     \/ LET s == b.subtitles
        IN  \/ \E k \in {"size", "y"} \cap DOMAIN s : s[k] < 1
            \/ /\ "enabled" \in DOMAIN s /\ s.enabled
               /\ OutputUsable(b) /\ CaptionCollides(b.output, s)

LogoFails(b, assets) ==
  /\ Has(b, "logo")
  /\ \/ "file" \notin DOMAIN b.logo
     \/ LET variant == IF "variant" \in DOMAIN b.logo THEN b.logo.variant ELSE "color"
        IN  \/ <<b.logo.file, variant>> \notin DOMAIN VariantFile
            \/ VariantFile[<<b.logo.file, variant>>] \notin assets

BandsFail(b) ==
  Has(b, "bands") /\ (DOMAIN b.bands \ BandKeys # {} \/ \E k \in DOMAIN b.bands : b.bands[k] \notin 0..100)

UploadFails(b) ==
  /\ "upload" \in DOMAIN b
  /\ b.upload = Null \/ ("mode" \in DOMAIN b.upload /\ b.upload.mode \notin Modes)

DetectFails(b) ==
  Has(b, "detect") /\ "provider" \in DOMAIN b.detect /\ b.detect.provider \notin Providers

\* _validate_brand, _validate_logo and _validate_subtitles over a resolved brand.
LooksFail(b, there, assets) ==
  \/ ColorsFail(b) \/ FontsFail(b, there) \/ OutputFails(b) \/ BandsFail(b)
  \/ LogoFails(b, assets) \/ SubtitlesFail(b)

\* profile.load of an event: a font may also be one outside the workspace.
BrandLoads(s) ==
  LET channel == brand[ChannelOf(s)]
      event   == IF brand[s] = Absent THEN <<>> ELSE brand[s]
      config  == DeepMerge(channel, event)
  IN  /\ Readable(channel) /\ event # Unreadable
      /\ ~LooksFail(config, fonts[s] \cup fonts[ChannelOf(s)] \cup {Elsewhere},
                    ChannelAssets \cup EventAssets)
      /\ ~UploadFails(config) /\ ~DetectFails(config)

----------------------------------------------------------------------------
(* What each request writes *)

Idle == [does |-> "idle"]
Write(s, b) == [does |-> "write", at |-> s, brand |-> b, missed |-> {}]
Unlink(s, f) == [does |-> "unlink", at |-> s, font |-> f, missed |-> {}]

\* Between a look and its write, a font may go that the write still names, the
\* channel's sections may change under an override, and a brand may be saved
\* that names the font.  This is history only: no code keeps it.
Names(b, f) == Readable(b) /\ Has(b, "fonts") /\ \E r \in FontRoles \cap DOMAIN b.fonts : b.fonts[r] = f
Missing(r, changed) ==
  [r EXCEPT !.missed = @ \cup (IF r.does = "write" THEN changed ELSE {r.font} \cap changed)]
Ends(t, changed) ==
  LET at == request[t].at
  IN  request' = [u \in Tasks |->
                    CASE u = t             -> Idle
                      [] request[u] = Idle -> Idle
                      [] OTHER -> IF ChannelOf(request[u].at) = ChannelOf(at)
                                  THEN Missing(request[u], changed) ELSE request[u]]

Begins(t, what) ==
  /\ request[t] = Idle
  /\ request' = [request EXCEPT ![t] = what]
  /\ UNCHANGED <<brand, fonts>>

\* _validate: a font is one of the channel's own.
ChannelAccepts(b, s) ==
  /\ ~LooksFail(b, fonts[s], ChannelAssets)
  /\ ~UploadFails(b) /\ ~DetectFails(b)

\* PUT /brand: no section can be set to null but the logo.
UpdateBrand(t, s, patch) ==
  /\ Readable(brand[s])
  /\ ChannelAccepts(Over(patch, brand[s]), s)
  /\ Begins(t, Write(s, Over(patch, brand[s])))

\* Only the mode is looked at: the brand may still be incomplete.
SetUploadMode(t, s, mode) ==
  /\ Readable(brand[s])
  /\ LET upload == IF Has(brand[s], "upload") THEN brand[s].upload ELSE <<>>
     IN  Begins(t, Write(s, Over([upload |-> Over([mode |-> mode], upload)], brand[s])))

\* _validate_merged: fonts and logo event first, the upload section not at all.
EventAccepts(b, s) ==
  ~LooksFail(b, fonts[s] \cup fonts[ChannelOf(s)], ChannelAssets \cup EventAssets)

\* An empty override is no file.
UpdateEventBrand(t, s, patch) ==
  /\ DOMAIN patch \subseteq OverrideSections
  /\ Readable(brand[ChannelOf(s)])
  /\ EventAccepts(DeepMerge(brand[ChannelOf(s)], patch), s)
  /\ Begins(t, Write(s, IF patch = <<>> THEN Absent ELSE patch))

\* The sections in which two brands differ; a file that is not there has none.
Changed(b, c) ==
  LET old == IF Readable(b) THEN b ELSE <<>>
      new == IF Readable(c) THEN c ELSE <<>>
  IN  {k \in DOMAIN old \cup DOMAIN new :
         k \notin DOMAIN old \/ k \notin DOMAIN new \/ old[k] # new[k]}

Writes(t) ==
  /\ request[t].does = "write"
  /\ LET r == request[t]
     IN  /\ brand' = [brand EXCEPT ![r.at] = r.brand]
         /\ Ends(t, (IF Len(r.at) = 1 THEN Changed(brand[r.at], r.brand) ELSE {})
                     \cup {f \in Fonts : Names(r.brand, f)})
  /\ UNCHANGED fonts

\* A font that Pillow cannot load is refused before it is written.
SaveFont(s, f) ==
  /\ fonts' = [fonts EXCEPT ![s] = @ \cup {f}]
  /\ UNCHANGED <<brand, request>>

\* _brand_assigns_font: an unreadable brand may assign anything.
Assigns(b, f) == b = Unreadable \/ Names(b, f)

\* Faulty variant: an event's override is forgotten (as it once was).
DeleteFontOfTheChannel(t, s, f) ==
  /\ f \in fonts[s]
  /\ ~Assigns(brand[s], f)
  /\ Begins(t, Unlink(s, f))

DeleteFont(t, s, f) ==
  /\ f \in fonts[s]
  /\ \A u \in {s} \cup EventsOf(s) : ~Assigns(brand[u], f)
  /\ Begins(t, Unlink(s, f))

DeleteEventFont(t, s, f) ==
  /\ f \in fonts[s]
  /\ ~Assigns(brand[s], f)
  /\ Begins(t, Unlink(s, f))

\* A font that went in the meantime ends the request as an error.
Unlinks(t) ==
  /\ request[t].does = "unlink"
  /\ fonts' = [fonts EXCEPT ![request[t].at] = @ \ {request[t].font}]
  /\ Ends(t, {request[t].font})
  /\ UNCHANGED brand

----------------------------------------------------------------------------
\* What the files may be at first: they are also written by hand.
BrandInit(some) ==
  /\ brand \in {[s \in BrandScopes |-> IF Len(s) = 1 THEN c ELSE e] :
                 c \in some.channels, e \in some.events}
  /\ fonts \in {[s \in BrandScopes |-> IF Len(s) = 1 THEN c ELSE e] :
                 c \in some.channelFonts, e \in some.eventFonts}
  /\ request = [t \in Tasks |-> Idle]

\* What the studio asks for, with these bodies.
ChannelBrandRequests(t, some) ==
  \E s \in ChannelScopes :
    \/ \E p \in some.patches : UpdateBrand(t, s, p)
    \/ \E m \in some.modes : SetUploadMode(t, s, m)
    \/ \E f \in some.files : SaveFont(s, f) \/ DeleteFont(t, s, f)

EventBrandRequests(t, some) ==
  \E s \in EventScopes :
    \/ \E p \in some.overrides : UpdateEventBrand(t, s, p)
    \/ \E f \in some.files : SaveFont(s, f) \/ DeleteEventFont(t, s, f)

BrandNext(some) ==
  \E t \in Tasks :
    ChannelBrandRequests(t, some) \/ EventBrandRequests(t, some) \/ Writes(t) \/ Unlinks(t)

----------------------------------------------------------------------------
(* What the requests promise the next profile.load *)

\* An event overrides part of a section whose other part is the channel's: the
\* channel's save is validated without it.
MergedSections == {"logo", "output", "subtitles"}
SavesUnderAnOverride(r, s) ==
  /\ r.does = "write" /\ r.at = ChannelOf(s)
  /\ Readable(brand[s]) /\ DOMAIN brand[s] \cap MergedSections # {}
  /\ Changed(brand[r.at], r.brand) \cap MergedSections # {}

\* The channel's brand names a font that only the event has a file for.
TakesAnInheritedFont(r, s) ==
  /\ r.does = "unlink" /\ r.at = s
  /\ Names(brand[ChannelOf(s)], r.font) /\ r.font \notin fonts[ChannelOf(s)]

\* Another request has changed, since this one looked, what its look was about.
Result(r) ==
  IF Len(r.at) = 1 THEN r.brand
  ELSE DeepMerge(brand[ChannelOf(r.at)], IF r.brand = Absent THEN <<>> ELSE r.brand)
WasOvertaken(r) ==
  \/ r.does = "unlink" /\ r.missed # {}
  \/ r.does = "write" /\ \E f \in Fonts \cap r.missed : Names(Result(r), f)
  \/ r.does = "write" /\ Len(r.at) = 2 /\ r.missed \cap MergedSections # {}

=============================================================================
