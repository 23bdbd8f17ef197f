------------------------------- MODULE CmsPages -------------------------------
(***************************************************************************)
(* The CMS service's page workflow (services/cmd/cms/main.go): immutable   *)
(* versions, the three pointers of a page row (draft, preview, published), *)
(* the preview token, and the media a published page makes public.         *)
(*                                                                         *)
(* The page handler reads the page row, the versions it needs and the      *)
(* conflict check before it opens its transaction; the transaction inserts *)
(* a version and moves a pointer by page id alone.  So preview, publish    *)
(* and rollback are two steps here, the read and the commit, and other     *)
(* callers act between them.  Preview tokens are left out.                 *)
(* The pages of the model share one locale: slugs of two locales never     *)
(* meet.  "slug" stands for the slug or the canonical URL, which the       *)
(* conflict check treats alike.                                            *)
(***************************************************************************)
EXTENDS Naturals, Sequences

CONSTANTS
    CmsPageIds,       \* page keys
    CmsCallers,       \* concurrent requests of the admin API
    CmsContents,      \* page contents an editor may save: records slug, media, ok
    CmsMediaIds,      \* media an editor may upload
    CmsMaxVersions    \* bound: versions of one page

ASSUME CmsAssumption ==
    /\ CmsMaxVersions \in [CmsPageIds -> Nat]
    /\ \A c \in CmsContents :
          /\ DOMAIN c = {"slug", "media", "ok"}
          /\ c.media \subseteq CmsMediaIds /\ c.ok \in BOOLEAN

VARIABLES
    cmsVersion,   \* cms.versions of each page by version_no
    cmsPage,      \* cms.pages: draft, preview and published version, 0 is none
    cmsRefs,      \* cms.published_media_refs of each page: version and media
    cmsMedia,     \* "none", "stored" (the object only) or "row" (cms.media_assets too)
    cmsReq        \* what each request has read and not yet committed

cmsVars == <<cmsVersion, cmsPage, cmsRefs, cmsMedia, cmsReq>>

CmsIdle == [op |-> "idle"]
CmsNewNo(pg) == Len(cmsVersion[pg]) + 1                      \* nextVersionNo
CmsRoom(pg) == Len(cmsVersion[pg]) < CmsMaxVersions[pg]
CmsContentOf(pg, v) == cmsVersion[pg][v].content
CmsOnline == {pg \in CmsPageIds : cmsPage[pg].published # 0}

\* validateContent: media must be on record; publishing asks for sections and SEO too.
CmsValid(content, forPublish) ==
    /\ \A m \in content.media : cmsMedia[m] = "row"
    /\ forPublish => content.ok

\* publishedConflict: another page already shows this slug.
CmsConflict(pg, content) ==
    \E q \in CmsOnline \ {pg} : CmsContentOf(q, cmsPage[q].published).slug = content.slug

\* insertVersion: the next row of the page.  "saw" is kept for the properties: the
\* draft of the page and the published versions of all when a publish was read.
CmsInsert(pg, state, content, source, rollback, saw) ==
    cmsVersion' = [cmsVersion EXCEPT ![pg] = Append(@,
        [state |-> state, content |-> content, source |-> source,
         rollback |-> rollback, saw |-> saw])]

CmsSeen(pg) == [draft |-> cmsPage[pg].draft,
                published |-> [q \in CmsPageIds |-> cmsPage[q].published]]

CmsRead(c, op, pg, source, saw) ==
    /\ cmsReq[c] = CmsIdle
    /\ cmsReq' = [cmsReq EXCEPT ![c] = [op |-> op, page |-> pg, source |-> source, saw |-> saw]]
    /\ UNCHANGED <<cmsVersion, cmsPage, cmsRefs, cmsMedia>>

CmsCommits(c, op) ==
    /\ cmsReq[c].op = op /\ CmsRoom(cmsReq[c].page)
    /\ cmsReq' = [cmsReq EXCEPT ![c] = CmsIdle]

CmsInit ==
    /\ cmsVersion = [pg \in CmsPageIds |-> <<>>]
    /\ cmsPage = [pg \in CmsPageIds |-> [draft |-> 0, preview |-> 0, published |-> 0]]
    /\ cmsRefs = [pg \in CmsPageIds |-> {}]
    /\ cmsMedia = [m \in CmsMediaIds |-> "none"]
    /\ cmsReq = [c \in CmsCallers |-> CmsIdle]

\* POST pages (the page row, its first draft and the pointer in one transaction) and
\* PUT draft.  The transaction uses nothing that was read before it but the id of the
\* former draft, the new row's source, which no code reads again.
CmsSaveDraft(pg, content) ==
    /\ CmsValid(content, FALSE) /\ CmsRoom(pg)
    /\ CmsInsert(pg, "DRAFT", content, 0, FALSE, <<>>)
    /\ cmsPage' = [cmsPage EXCEPT ![pg].draft = CmsNewNo(pg)]
    /\ UNCHANGED <<cmsRefs, cmsMedia, cmsReq>>

\* POST preview: the draft read first is copied (its fresh token is left out).
CmsReadPromote(c, pg) ==
    /\ cmsPage[pg].draft # 0
    /\ CmsValid(CmsContentOf(pg, cmsPage[pg].draft), FALSE)
    /\ CmsRead(c, "preview", pg, cmsPage[pg].draft, <<>>)
CmsPromotePreview(c) ==
    /\ CmsCommits(c, "preview")
    /\ LET pg == cmsReq[c].page
           draft == cmsReq[c].source
       IN  /\ CmsInsert(pg, "PREVIEW", CmsContentOf(pg, draft), draft, FALSE, <<>>)
           /\ cmsPage' = [cmsPage EXCEPT ![pg].preview = CmsNewNo(pg)]
    /\ UNCHANGED <<cmsRefs, cmsMedia>>

\* replacePublishedMedia: the page's public media become those of the new version.
CmsReplaceMedia(pg, content) ==
    cmsRefs' = [cmsRefs EXCEPT ![pg] =
        {[version |-> CmsNewNo(pg), media |-> m] : m \in content.media}]

\* The transaction of publish and rollback: version, pointer and media references.
CmsGoLive(pg, source, rollback, saw) ==
    LET content == CmsContentOf(pg, source) IN
    /\ CmsInsert(pg, "PUBLISHED", content, source, rollback, saw)
    /\ cmsPage' = [cmsPage EXCEPT ![pg].published = CmsNewNo(pg)]
    /\ CmsReplaceMedia(pg, content)
    /\ UNCHANGED cmsMedia

\* Mutation of CmsReadPublish: the preview is not compared with the draft.
CmsReadPublishStale(c, pg) ==
    LET preview == cmsPage[pg].preview IN
    /\ preview # 0
    /\ CmsValid(CmsContentOf(pg, preview), TRUE)
    /\ ~CmsConflict(pg, CmsContentOf(pg, preview))
    /\ CmsRead(c, "publish", pg, preview, CmsSeen(pg))

\* POST publish: preview present, made from the draft of the row, valid, no conflict.
CmsReadPublish(c, pg) ==
    LET preview == cmsPage[pg].preview IN
    /\ preview # 0
    /\ cmsVersion[pg][preview].source = cmsPage[pg].draft
    /\ CmsValid(CmsContentOf(pg, preview), TRUE)
    /\ ~CmsConflict(pg, CmsContentOf(pg, preview))
    /\ CmsRead(c, "publish", pg, preview, CmsSeen(pg))

CmsPublish(c) ==
    /\ CmsCommits(c, "publish")
    /\ CmsGoLive(cmsReq[c].page, cmsReq[c].source, FALSE, cmsReq[c].saw)

\* POST rollback: the target is a published version of this page.
CmsReadRollback(c, pg, v) ==
    /\ cmsVersion[pg][v].state = "PUBLISHED"
    /\ CmsValid(CmsContentOf(pg, v), TRUE) /\ ~CmsConflict(pg, CmsContentOf(pg, v))
    /\ CmsRead(c, "rollback", pg, v, CmsSeen(pg))

CmsRollback(c) ==
    /\ CmsCommits(c, "rollback")
    /\ CmsGoLive(cmsReq[c].page, cmsReq[c].source, TRUE, cmsReq[c].saw)

\* The request dies before its commit: crash, cancelled context, failed statement,
\* or the unique key of the page and version_no when two transactions meet.
CmsAbandon(c) ==
    /\ cmsReq[c] # CmsIdle
    /\ cmsReq' = [cmsReq EXCEPT ![c] = CmsIdle]
    /\ UNCHANGED <<cmsVersion, cmsPage, cmsRefs, cmsMedia>>

\* Media upload: the object first (putMedia, checksum), then the row; it may stop between.
CmsStoreObject(m) ==
    /\ cmsMedia[m] = "none"
    /\ cmsMedia' = [cmsMedia EXCEPT ![m] = "stored"]
    /\ UNCHANGED <<cmsVersion, cmsPage, cmsRefs, cmsReq>>
CmsRecordMedia(m) ==
    /\ cmsMedia[m] = "stored"
    /\ cmsMedia' = [cmsMedia EXCEPT ![m] = "row"]
    /\ UNCHANGED <<cmsVersion, cmsPage, cmsRefs, cmsReq>>

CmsNext ==
    \/ \E pg \in CmsPageIds, content \in CmsContents : CmsSaveDraft(pg, content)
    \/ \E c \in CmsCallers :
          \/ \E pg \in CmsPageIds :
                \/ CmsReadPromote(c, pg) \/ CmsReadPublish(c, pg)
                \/ \E v \in 1..Len(cmsVersion[pg]) : CmsReadRollback(c, pg, v)
          \/ CmsPromotePreview(c) \/ CmsPublish(c) \/ CmsRollback(c) \/ CmsAbandon(c)
    \/ \E m \in CmsMediaIds : CmsStoreObject(m) \/ CmsRecordMedia(m)

CmsSpec == CmsInit /\ [][CmsNext]_cmsVars

-------------------------------------------------------------------------------
\* What publicPage may answer for a slug: a page that is online with it.
CmsPublicPages(slug) ==
    {pg \in CmsOnline : CmsContentOf(pg, cmsPage[pg].published).slug = slug}
\* What publicMedia serves on behalf of the pages.
CmsPublicMedia == UNION {{r.media : r \in cmsRefs[pg]} : pg \in CmsPageIds}

(* Type invariant of the page workflow: every pointer of a page row names a *)
(* version in the state the pointer stands for (saveDraft, promotePreview,  *)
(* publish, rollback).                                                      *)
CmsTypeOK ==
    /\ cmsMedia \in [CmsMediaIds -> {"none", "stored", "row"}]
    /\ \A pg \in CmsPageIds :
          LET names(v, state) ==
                 v # 0 => v \in DOMAIN cmsVersion[pg] /\ cmsVersion[pg][v].state = state
          IN  /\ names(cmsPage[pg].draft, "DRAFT")
              /\ names(cmsPage[pg].preview, "PREVIEW")
              /\ names(cmsPage[pg].published, "PUBLISHED")

(* Nothing reaches the public site that was not previewed first: every      *)
(* published version repeats a preview of its page (publish) or an earlier  *)
(* published version (rollback), every preview repeats a draft, and only    *)
(* publishable content is published, whatever other requests committed      *)
(* between read and transaction (promotePreview, publish, rollback).        *)
CmsPublishedWasPreviewed ==
    \A pg \in CmsPageIds : \A v \in DOMAIN cmsVersion[pg] :
        LET row == cmsVersion[pg][v]
            repeats(state) ==
                /\ row.source \in 1..(v - 1)
                /\ cmsVersion[pg][row.source].state = state
                /\ CmsContentOf(pg, row.source) = row.content
        IN  /\ row.state = "PREVIEW" => repeats("DRAFT")
            /\ row.state = "PUBLISHED" =>
                  row.content.ok /\ repeats(IF row.rollback THEN "PUBLISHED" ELSE "PREVIEW")

(* A publish that began after a draft was saved never puts an older draft   *)
(* on the site: the published version's preview was made from the draft the *)
(* page had when the request was read (main.go:670).                        *)
CmsPublishSeesDraft ==
    \A pg \in CmsPageIds : \A v \in DOMAIN cmsVersion[pg] :
        LET row == cmsVersion[pg][v]
        IN  row.state = "PUBLISHED" /\ ~row.rollback
               => cmsVersion[pg][row.source].source = row.saw.draft

(* Two pages answer to one slug only if their publishing requests           *)
(* overlapped: neither had seen the other's version online when it was      *)
(* checked (publishedConflict, main.go:673; rollback makes the same check). *)
CmsSlugClashNeedsOverlap ==
    \A slug \in {c.slug : c \in CmsContents} : \A pg, q \in CmsPublicPages(slug) :
        pg # q => cmsVersion[pg][cmsPage[pg].published].saw.published[q] # cmsPage[q].published

(* The media served to the public on behalf of a page are exactly those of  *)
(* the version now published, each with its row and its object, across      *)
(* concurrent publishes and rollbacks (replacePublishedMedia, publicMedia). *)
CmsPublicMediaFollowPage ==
    /\ \A pg \in CmsPageIds :
        cmsRefs[pg] = IF pg \notin CmsOnline THEN {}
                      ELSE {[version |-> cmsPage[pg].published, media |-> m] :
                               m \in CmsContentOf(pg, cmsPage[pg].published).media}
    /\ \A m \in CmsPublicMedia : cmsMedia[m] = "row"

(* Violated by the code and kept out of the runs: a slug is published by    *)
(* one page.  Two publishes of different pages may both pass                *)
(* publishedConflict before either commits.                                 *)
CmsSlugUniqueViolated ==
    \A slug \in {c.slug : c \in CmsContents} : \A pg, q \in CmsPublicPages(slug) : pg = q

\* What visitors of the site may rely on, through every overlap of saves,
\* publications and rollbacks: they see only what was previewed, a publication
\* misses an edit only when the two overlap, and pages and media agree.
CmsPagesSafe ==
    /\ CmsTypeOK
    /\ CmsPublishedWasPreviewed
    /\ CmsPublishSeesDraft
    /\ CmsSlugClashNeedsOverlap
    /\ CmsPublicMediaFollowPage
===============================================================================
