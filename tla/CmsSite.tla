------------------------------- MODULE CmsSite -------------------------------
(***************************************************************************)
(* The CMS service's single-row settings, cms.site_design and             *)
(* cms.seo_settings (design.go, seo.go), and the media that partner        *)
(* branding makes public (themes.go, workspace_personalization.go).        *)
(*                                                                         *)
(* Both settings rows are written alike: a handler reads draft, published  *)
(* and version, then upserts the row; the first writer inserts all three   *)
(* columns from what it read, a later one updates only its own.  The model *)
(* has one such row.  It stands beside the pages of CmsPages in one        *)
(* service, with which it shares no state.                                 *)
(***************************************************************************)
EXTENDS Naturals, CmsPages

CONSTANTS
    SiteEditors,      \* concurrent requests of the admin API
    SiteValues,       \* settings an editor may save
    SiteDefault,      \* defaultSiteDesign, defaultSiteSEO
    SiteMaxVersion,   \* bound: published versions in one behaviour
    BrandPartners,    \* partners with a theme of their own
    BrandProfiles,    \* ids of partner profiles
    BrandMedia,       \* media the partners upload
    BrandCatalog      \* the visible catalogue theme every partner starts with

ASSUME SiteAssumption == SiteMaxVersion \in Nat /\ SiteDefault \notin SiteValues
ASSUME BrandAssumption == BrandCatalog \notin BrandProfiles /\ "none" \notin BrandPartners

VARIABLES
    siteRow,       \* the settings row; "version" 0 and defaults when it is absent
    siteExists,    \* the row has been inserted
    siteReq,       \* what each request has read
    siteSaved,     \* history: the draft saved last
    siteLive,      \* history: the draft published last
    brandOwner,    \* cms.media_assets: owner_id of each medium, "none" before upload
    brandUpload,   \* the medium a partner's logo upload has still to register
    brandTheme,    \* cms.design_profiles of partners: owner and asset media
    brandActive,   \* cms.design_scope_state
    brandLogo,     \* cms.partner_brand_assets
    brandIcons     \* media of partner_workspace_settings and partner_module_presentations

siteVars == <<siteRow, siteExists, siteReq, siteSaved, siteLive>>
brandVars == <<brandOwner, brandUpload, brandTheme, brandActive, brandLogo, brandIcons>>

SiteIdle == [op |-> "idle"]

SiteInit ==
    /\ siteRow = [draft |-> SiteDefault, published |-> SiteDefault, version |-> 0]
    /\ siteExists = FALSE
    /\ siteReq = [e \in SiteEditors |-> SiteIdle]
    /\ siteSaved = SiteDefault /\ siteLive = SiteDefault

\* readSiteDesign, readSiteSEO: the row, or the defaults when there is none.
SiteRead(e, op, value) ==
    /\ siteReq[e] = SiteIdle
    /\ siteReq' = [siteReq EXCEPT ![e] = [op |-> op, value |-> value, row |-> siteRow]]
    /\ UNCHANGED <<siteRow, siteExists, siteSaved, siteLive>>

\* INSERT ... ON CONFLICT(id) DO UPDATE: the whole row, or only the update.
SiteUpsert(e, insert, update) ==
    /\ siteReq' = [siteReq EXCEPT ![e] = SiteIdle]
    /\ siteExists' = TRUE
    /\ siteRow' = IF siteExists THEN update ELSE insert

\* PUT draft: the published side of the insert is what was read.
SiteSaveDraft(e) ==
    /\ siteReq[e].op = "draft"
    /\ LET read == siteReq[e].row
           value == siteReq[e].value
       IN  SiteUpsert(e, [read EXCEPT !.draft = value], [siteRow EXCEPT !.draft = value])
    /\ siteSaved' = siteReq[e].value
    /\ UNCHANGED siteLive

\* POST preview: a token for whatever the draft is when it is opened (token left out).
SitePreview(e) ==
    /\ siteReq[e].op = "preview"
    /\ SiteUpsert(e, siteReq[e].row, siteRow)
    /\ UNCHANGED <<siteSaved, siteLive>>

\* POST publish: the draft that was read goes live under the next version.
SitePublish(e) ==
    /\ siteReq[e].op = "publish" /\ siteReq[e].row.version < SiteMaxVersion
    /\ LET read == siteReq[e].row
           live == [published |-> read.draft, version |-> read.version + 1]
       IN  SiteUpsert(e, [draft |-> read.draft, published |-> live.published,
                          version |-> live.version],
                         [siteRow EXCEPT !.published = live.published,
                                         !.version = live.version])
    /\ siteLive' = siteReq[e].row.draft
    /\ UNCHANGED siteSaved

\* The request dies between its read and its statement.
SiteAbandon(e) ==
    /\ siteReq[e] # SiteIdle
    /\ siteReq' = [siteReq EXCEPT ![e] = SiteIdle]
    /\ UNCHANGED <<siteRow, siteExists, siteSaved, siteLive>>

SiteNext == \E e \in SiteEditors :
    \/ \E value \in SiteValues : SiteRead(e, "draft", value)
    \/ SiteRead(e, "preview", SiteDefault) \/ SiteRead(e, "publish", SiteDefault)
    \/ SiteSaveDraft(e) \/ SitePreview(e) \/ SitePublish(e) \/ SiteAbandon(e)

SiteSpec == SiteInit /\ [][SiteNext]_siteVars

(* No editor's work is lost to another's: the draft is the one saved last   *)
(* and the public settings are those published last, whichever requests     *)
(* overlapped and whichever of them inserted the row (designAction,         *)
(* seoAction).                                                              *)
SiteKeepsDraftAndLive ==
    siteRow.draft = siteSaved /\ siteRow.published = siteLive

(* Violated by the code and kept out of the runs: the public version number *)
(* never goes back.  Each publish writes the version it read plus one, so a *)
(* slow publish undoes the count of those that overtook it.                 *)
SiteVersionViolated == [][siteRow'.version >= siteRow.version]_siteVars

-------------------------------------------------------------------------------
BrandInit ==
    /\ brandOwner = [m \in BrandMedia |-> "none"]
    /\ brandUpload = [p \in BrandPartners |-> "none"]
    /\ brandTheme = [x \in BrandProfiles |-> [owner |-> "none", assets |-> {}]]
    /\ brandActive = [p \in BrandPartners |-> BrandCatalog]
    /\ brandLogo = [p \in BrandPartners |-> {}]
    /\ brandIcons = [p \in BrandPartners |-> {}]

\* partnerOwnsMedia
BrandOwns(p, m) == brandOwner[m] = p
\* The profiles a partner may activate and be shown.
BrandMayUse(p, x) == IF x = BrandCatalog THEN TRUE ELSE brandTheme[x].owner = p
\* validateVisualTheme, of what depends on other rows: every asset is the partner's.
BrandThemeValid(p, assets) == \A m \in assets : BrandOwns(p, m)

\* POST partner-media: object and row; a logo is registered by a second statement,
\* which an unsupported purpose or a failure never reaches.
BrandStoreMedia(p, m, purpose) ==
    /\ brandOwner[m] = "none" /\ brandUpload[p] = "none"
    /\ brandOwner' = [brandOwner EXCEPT ![m] = p]
    /\ brandUpload' = [brandUpload EXCEPT ![p] = IF purpose = "logo" THEN m ELSE "none"]
    /\ UNCHANGED <<brandTheme, brandActive, brandLogo, brandIcons>>
BrandRegisterLogo(p) ==
    /\ brandUpload[p] # "none"
    /\ brandLogo' = [brandLogo EXCEPT ![p] = {brandUpload[p]}]
    /\ brandUpload' = [brandUpload EXCEPT ![p] = "none"]
    /\ UNCHANGED <<brandOwner, brandTheme, brandActive, brandIcons>>
BrandUploadDies(p) ==
    /\ brandUpload[p] # "none"
    /\ brandUpload' = [brandUpload EXCEPT ![p] = "none"]
    /\ UNCHANGED <<brandOwner, brandTheme, brandActive, brandLogo, brandIcons>>

\* POST profiles, PUT profiles/{id}: a profile of one's own, assets of one's own.
BrandSaveProfile(p, x, assets) ==
    /\ brandTheme[x].owner \in {"none", p}
    /\ BrandThemeValid(p, assets)
    /\ brandTheme' = [brandTheme EXCEPT ![x] = [owner |-> p, assets |-> assets]]
    /\ UNCHANGED <<brandOwner, brandUpload, brandActive, brandLogo, brandIcons>>

\* POST profiles/{id}/activate: a catalogue theme or a profile of one's own.
BrandActivate(p, x) ==
    /\ BrandMayUse(p, x)
    /\ brandActive' = [brandActive EXCEPT ![p] = x]
    /\ UNCHANGED <<brandOwner, brandUpload, brandTheme, brandLogo, brandIcons>>

\* PUT workspace (logo) and PUT or DELETE modules/{key} (custom icon).
BrandSetIcon(p, media) ==
    /\ \A m \in media : BrandOwns(p, m)
    /\ brandIcons' = [brandIcons EXCEPT ![p] = media]
    /\ UNCHANGED <<brandOwner, brandUpload, brandTheme, brandActive, brandLogo>>

BrandNext == \E p \in BrandPartners :
    \/ \E m \in BrandMedia, purpose \in {"none", "logo"} : BrandStoreMedia(p, m, purpose)
    \/ BrandRegisterLogo(p) \/ BrandUploadDies(p)
    \/ \E x \in BrandProfiles, assets \in SUBSET BrandMedia : BrandSaveProfile(p, x, assets)
    \/ \E x \in BrandProfiles \cup {BrandCatalog} : BrandActivate(p, x)
    \/ \E media \in SUBSET BrandMedia : BrandSetIcon(p, media)

BrandSpec == BrandInit /\ [][BrandNext]_brandVars

\* publicMedia, for partners: what the branding of p makes anyone's to fetch.
BrandPublicMedia(p) ==
    brandLogo[p] \cup brandIcons[p]
      \cup (IF brandActive[p] = BrandCatalog THEN {} ELSE brandTheme[brandActive[p]].assets)
\* activePartnerDesignProfile: a profile the partner may not use is shown as the default.
BrandShown(p) ==
    IF BrandMayUse(p, brandActive[p]) THEN brandActive[p] ELSE BrandCatalog

(* A partner's branding only ever makes the partner's own uploads public,   *)
(* and what publicMedia serves as its active theme is the theme that        *)
(* publicPartnerDesign shows, however uploads, edits and activations of     *)
(* several partners are ordered.                                            *)
BrandPublicIsOwn ==
    \A p \in BrandPartners :
        /\ \A m \in BrandPublicMedia(p) : BrandOwns(p, m)
        /\ BrandShown(p) = brandActive[p]

\* Themes, navigation and search settings keep a draft apart from what is live,
\* and a partner's public branding is its own, whatever overlaps.
CmsSiteSafe ==
    /\ SiteKeepsDraftAndLive
    /\ BrandPublicIsOwn

(* What visitors see is what was published, of pages, themes and brands,    *)
(* and drafts stay drafts, whatever editors overlap.                        *)
CmsSafe ==
    /\ CmsPagesSafe
    /\ CmsSiteSafe
===============================================================================
