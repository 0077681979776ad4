------------------------------ MODULE ClientFile ------------------------------
(***************************************************************************)
(* The documents of a matter (core/document-store.ts) between the staff    *)
(* who file and share them (review-ui/documents-service.ts) and the        *)
(* clients who see the shared ones and file their own in the portal        *)
(* (review-ui/client-portal-service.ts), with the routes of both in        *)
(* review-ui/server.ts.                                                    *)
(*                                                                         *)
(* A request names a document by its id, off a page that may be old: the   *)
(* list the browser loaded, with what others uploaded, shared or deleted   *)
(* since, and restarts of the server, in between.  Ids come from a counter *)
(* that is not saved.  Names, sizes and contents are left out; which       *)
(* upload a document is, is kept as history.                               *)
(***************************************************************************)
EXTENDS AccessControl, FiniteSetsExt

CONSTANTS
    MaxUploads,     \* bounds
    MaxRestarts

VARIABLES
    documents,      \* documents[id]: [matter, byClient, visible], and as
                    \* history which upload it is and who chose to share it
    nextDocument,
    pages,          \* pages[a]: the list of a matter that a has open
    savedFile,      \* the snapshot a restart finds
    uploads,        \* history: uploads so far
    restarts        \* history: restarts so far

fileVars == <<accessVars, documents, nextDocument, pages, savedFile, uploads, restarts>>

NoPage == [matter |-> NoMatter, shows |-> {}, since |-> 0]
OnMatter(m) == {id \in DOMAIN documents : documents[id].matter = m}
Without(id) == [x \in DOMAIN documents \ {id} |-> documents[x]]

\* ClientPortalService.getMatter and getDocument: what a client may see.
PortalDocuments(c) ==
    {id \in DOMAIN documents :
        AuthorizedClient(c, documents[id].matter) /\ documents[id].visible}

----------------------------------------------------------------------------
\* A client's own document is visible to the clients of the matter at once.
Filed(m, byClient) == [matter |-> m, byClient |-> byClient, visible |-> byClient,
                       upload |-> uploads + 1, chosen |-> "none"]

\* Mutant: the id is one more than the documents there are.
StoreUploadCounting(m, byClient) ==
    /\ uploads < MaxUploads
    /\ documents' = [id \in DOMAIN documents \cup {Cardinality(DOMAIN documents) + 1} |->
                        IF id = Cardinality(DOMAIN documents) + 1
                        THEN Filed(m, byClient)
                        ELSE documents[id]]
    /\ nextDocument' = nextDocument + 1
    /\ uploads' = uploads + 1
    /\ UNCHANGED <<accessVars, pages, savedFile, restarts>>

\* DocumentStore.upload
StoreUpload(m, byClient) ==
    /\ uploads < MaxUploads
    /\ documents' = [id \in DOMAIN documents \cup {nextDocument} |->
                        IF id = nextDocument
                        THEN Filed(m, byClient)
                        ELSE documents[id]]
    /\ nextDocument' = nextDocument + 1
    /\ uploads' = uploads + 1
    /\ UNCHANGED <<accessVars, pages, savedFile, restarts>>

Upload(actor, m) ==
    AuthorizedStaff(actor, m) /\ StoreUpload(m, FALSE)

\* ClientPortalService.uploadDocument
UploadDocument(client, m) ==
    AuthorizedClient(client, m) /\ StoreUpload(m, TRUE)

\* DocumentsService.listMatterDocuments, and the page that shows the list.
ListMatterDocuments(actor, m) ==
    /\ AuthorizedStaff(actor, m)
    /\ pages' = [pages EXCEPT ![actor] =
          [matter |-> m, since |-> restarts,
           shows |-> {[id |-> id, upload |-> documents[id].upload] : id \in OnMatter(m)}]]
    /\ UNCHANGED <<accessVars, documents, nextDocument, savedFile, uploads, restarts>>

\* What a share, if it is one, was meant for.
Choice(actor, line, visible) ==
    CASE ~visible -> "none"
      [] visible /\ line.upload = documents[line.id].upload -> "this document"
      [] OTHER -> IF pages[actor].since < restarts THEN "one of before a restart"
                  ELSE "another document"

\* DocumentsService.setClientVisibility, of a line of the page: the id has
\* to be one of the page's matter, now.
SetClientVisibility(actor, line, visible) ==
    /\ AuthorizedStaff(actor, pages[actor].matter)
    /\ line.id \in OnMatter(pages[actor].matter)
    /\ documents' = [documents EXCEPT ![line.id].visible = visible,
                                      ![line.id].chosen = Choice(actor, line, visible)]
    /\ UNCHANGED <<accessVars, nextDocument, pages, savedFile, uploads, restarts>>

\* DocumentsService.delete
DeleteDocument(actor, line) ==
    /\ AuthorizedStaff(actor, pages[actor].matter)
    /\ line.id \in OnMatter(pages[actor].matter)
    /\ documents' = Without(line.id)
    /\ UNCHANGED <<accessVars, nextDocument, pages, savedFile, uploads, restarts>>

SaveFile ==
    /\ savedFile' = documents
    /\ UNCHANGED <<accessVars, documents, nextDocument, pages, uploads, restarts>>

\* DocumentStore.fromSnapshot: ids go on after the largest one kept.  The
\* pages stay open in the browsers.  Assignments and grants come back as
\* they are, or as they soon may be: they can change in any step.
RestartFile ==
    /\ restarts < MaxRestarts
    /\ documents' = savedFile
    /\ nextDocument' = IF DOMAIN savedFile = {} THEN 1 ELSE Max(DOMAIN savedFile) + 1
    /\ restarts' = restarts + 1
    /\ UNCHANGED <<accessVars, pages, savedFile, uploads>>

----------------------------------------------------------------------------
FileInit ==
    /\ AccessInit
    /\ documents = <<>> /\ nextDocument = 1
    /\ pages = [a \in LegalStaff |-> NoPage]
    /\ savedFile = documents
    /\ uploads = 0 /\ restarts = 0

FileNext ==
    \/ \E actor \in LegalStaff, m \in Matters :
            Upload(actor, m) \/ ListMatterDocuments(actor, m)
    \/ \E actor \in LegalStaff : \E line \in pages[actor].shows :
        \/ \E visible \in BOOLEAN : SetClientVisibility(actor, line, visible)
        \/ DeleteDocument(actor, line)
    \/ \E client \in Clients, m \in Matters : UploadDocument(client, m)
    \/ /\ StaffAccessNext \/ ClientAccessNext
       /\ UNCHANGED <<documents, nextDocument, pages, savedFile, uploads, restarts>>
    \/ SaveFile \/ RestartFile

FileSpec == FileInit /\ [][FileNext]_fileVars

----------------------------------------------------------------------------
(* "someone on staff has to make an affirmative choice to share it" (core/ *)
(* document-store.ts): what a client sees in the portal is a client's own  *)
(* upload, or somebody shared that very document, from whatever old page.  *)
(* The exception is a page from before a restart, whose ids may have been  *)
(* given out again; the share then falls on a document nobody chose.       *)
SharedByChoice ==
    \A c \in Clients : \A id \in PortalDocuments(c) :
        \/ documents[id].byClient
        \/ documents[id].chosen \in {"this document", "one of before a restart"}
=============================================================================
