--------------------------- MODULE FileDownloader ---------------------------
(***************************************************************************)
(* The downloaders built on the HTTP client (c_file_downloader and         *)
(* c_xml_downloader in Networking/HTTP): each holds the index of a slot    *)
(* and a status that the callbacks of its request change.                  *)
(*                                                                         *)
(* What is received is abstracted to replies.  A time-out is allowed at    *)
(* any update of a download that has not connected.                        *)
(***************************************************************************)
EXTENDS HTTPClient

CONSTANTS
  ManualUsers, \* the downloaders that set m_manual_think
  Documents,   \* well-formed xml documents
  NoDocument,
  Failed,      \* reply: the request failed, or the data was empty
  Garbled      \* reply: data that is not xml

ASSUME DownloadersAssumption ==
  /\ ManualUsers \subseteq Users
  /\ NoDocument \notin Documents /\ Failed \notin Documents /\ Garbled \notin Documents
  /\ Failed # Garbled

VARIABLES
  status,         \* m_download_status
  request_index,  \* m_http.request_index
  is_downloading, \* the downloaders with m_flags.is_downloading
  document        \* the first root element of the parsed document

downloaderVars == <<status, request_index, is_downloading, document>>

Statuses == {"idle", "in_progress", "cancelled", "failed", "retry", "succeeded"}

DownloaderTypeOK ==
  /\ status \in [Users -> Statuses]
  /\ request_index \in [Users -> Slots \union {NoSlot}]
  /\ is_downloading \subseteq Users
  /\ document \in [Users -> Documents \union {NoDocument}]

DownloadersInit ==
  /\ status = [u \in Users |-> "idle"]
  /\ request_index = [u \in Users |-> NoSlot]
  /\ is_downloading = {}
  /\ document = [u \in Users |-> NoDocument]

(***************************************************************************)
(* Start: the index is overwritten, whatever it was.                       *)
(***************************************************************************)
StartedIn(u, s) ==
  /\ request_index' = [request_index EXCEPT ![u] = s]
  /\ status' = [status EXCEPT ![u] = IF s = NoSlot THEN "failed" ELSE "in_progress"]
  /\ is_downloading' = IF s = NoSlot THEN is_downloading \ {u}
                                     ELSE is_downloading \union {u}
  /\ UNCHANGED document

Start(t, u) ==
  \/ \E s \in Slots, i \in Ids : Get(t, s, i, u, u \in ManualUsers) /\ StartedIn(u, s)
  \/ GetRefused(t) /\ StartedIn(u, NoSlot)
  \/ GetFull(t) /\ StartedIn(u, NoSlot)

(***************************************************************************)
(* Stop and CleanupHTTPRequest: the slot is given back.  The request that  *)
(* GHTTP cancels calls back its own downloader, here another than u if the *)
(* identifier has been used again.                                         *)
(***************************************************************************)
Cancelled(u) ==
  IF request_index[u] = NoSlot \/ CancelledSlot(request_index[u]) = NoSlot THEN {}
  ELSE {user[CancelledSlot(request_index[u])]}

(* Mutant: the downloader keeps the index of the slot.                     *)
CleanupHTTPRequestMutant(t, u) ==
  /\ IF request_index[u] = NoSlot
       THEN UNCHANGED clientVars
       ELSE HTTPRequestAbort(t, request_index[u])
  /\ UNCHANGED <<request_index, status, document>>

CleanupHTTPRequest(t, u) ==
  /\ IF request_index[u] = NoSlot
       THEN UNCHANGED <<clientVars, request_index, status, document>>
       ELSE /\ HTTPRequestAbort(t, request_index[u])
            /\ request_index' = [request_index EXCEPT ![u] = NoSlot]
            /\ status' = [v \in Users |-> IF v \in Cancelled(u) THEN "cancelled" ELSE status[v]]
            /\ document' = [v \in Users |-> IF v \in Cancelled(u) THEN NoDocument ELSE document[v]]

Stop(t, u) ==
  /\ CleanupHTTPRequest(t, u)
  /\ is_downloading' = is_downloading \ (Cancelled(u) \union {u})

(***************************************************************************)
(* Update: a download that takes too long to connect fails, but keeps its  *)
(* slot and its request.                                                   *)
(***************************************************************************)
QueryDownloadState(s) ==
  IF s = NoSlot \/ s \notin in_use THEN "connecting" ELSE state[s]

MayTimeOut(u) ==
  u \in is_downloading /\ QueryDownloadState(request_index[u]) = "connecting"

TimedOut(users) ==
  /\ status' = [u \in Users |-> IF u \in users THEN "failed" ELSE status[u]]
  /\ is_downloading' = is_downloading \ users

(***************************************************************************)
(* c_xml_downloader's DownloadCompleteCallback.  Parsing adds to the       *)
(* document, so a root that is there stays the first one; a parse error    *)
(* clears it.  The status is succeeded even after a parse error.           *)
(***************************************************************************)
Parsed(u, reply) ==
  IF reply = Failed THEN document[u]
  ELSE IF reply = Garbled THEN NoDocument
  ELSE IF document[u] = NoDocument THEN reply ELSE document[u]

XmlStatus(reply) == IF reply = Failed THEN "failed" ELSE "succeeded"

-----------------------------------------------------------------------------
(* A downloader that holds an index holds a slot that is in use, and no    *)
(* two downloaders hold the same slot, so no Stop gives back the slot of   *)
(* another downloader (c_file_downloader.cpp:42-48, 69).                   *)
IndexesExclusive ==
  /\ \A u \in Users : request_index[u] # NoSlot => request_index[u] \in in_use
  /\ \A u, v \in Users :
       request_index[u] = request_index[v] /\ request_index[u] # NoSlot => u = v

LostSlots == in_use \ {request_index[u] : u \in Users}
=============================================================================
