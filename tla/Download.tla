------------------------------ MODULE Download ------------------------------
(***************************************************************************)
(* perform_download of main/cirvane_ota_remote.c: one HTTPS transfer of a  *)
(* manifest or an image, with redirects, as the events that                *)
(* esp_http_client reports to download_event.  A step is an event.         *)
(*                                                                         *)
(* The server is free to send what it likes; the client library has its    *)
(* own rules: a response without Transfer-Encoding brings no more than the *)
(* Content-Length it announced, and is complete when it has brought that.  *)
(***************************************************************************)
EXTENDS OtaPolicy

CONSTANTS
  Limit,         \* context->limit
  ExpectedSizes, \* context->expected_length: 0, or the limit for an image
  Chunks,        \* bound of the model on the sizes of data events
  MaxRedirects   \* OTA_MAX_REDIRECTS

ASSUME DownloadAssumption ==
  /\ Limit \in Nat \ {0} /\ MaxRedirects \in Nat
  /\ ExpectedSizes \subseteq {0, Limit} /\ Chunks \subseteq Nat

VARIABLES
  http,  \* download_context_t
  wire   \* the response as it came: phase, length, data so far, where from

httpVars == <<http, wire>>

Contexts ==
  [expected_length : ExpectedSizes, received : 0 .. Limit, redirects : 0 .. MaxRedirects + 1,
   failed : BOOLEAN, status : {0, 200, 302, 404}, headers_accepted : BOOLEAN,
   location_allowed : BOOLEAN, location_seen : BOOLEAN, content_length_seen : BOOLEAN,
   transfer_encoding_seen : BOOLEAN]

Responses ==
  [phase : {"ready", "headers", "body", "accepted", "refused"}, length : 0 .. Limit + 1,
   chunked : BOOLEAN, data : 0 .. Limit + 1, location : Urls, url : Urls]

DownloadType ==
  /\ http \in Contexts
  /\ wire \in Responses

\* The context and the connection of a download whose first URL is allowed.
NewContexts ==
  {c \in Contexts : c = [status |-> 0, received |-> 0, redirects |-> 0, failed |-> FALSE,
     headers_accepted |-> FALSE, location_allowed |-> FALSE, location_seen |-> FALSE,
     content_length_seen |-> FALSE, transfer_encoding_seen |-> FALSE,
     expected_length |-> c.expected_length]}
NewWire == [phase |-> "ready", length |-> 0, chunked |-> FALSE, data |-> 0,
            location |-> "elsewhere", url |-> "release"]

DownloadInit == http \in NewContexts /\ wire = NewWire

NextDownload ==
  /\ wire.phase \in {"accepted", "refused"}
  /\ http' \in NewContexts
  /\ wire' = NewWire

\* The event is refused: esp_http_client_perform ends with an error.
Refused == http' = [http EXCEPT !.failed = TRUE] /\ wire' = [wire EXCEPT !.phase = "refused"]

\* The deadline has passed, or the transport fails.
TransferFails == wire.phase \in {"ready", "headers", "body"} /\ Refused

\* HTTP_EVENT_ON_STATUS_CODE
OnStatus ==
  /\ wire.phase = "ready"
  /\ \E status \in {200, 302, 404} :
       http' = [http EXCEPT !.status = status, !.headers_accepted = FALSE,
                            !.location_allowed = FALSE, !.location_seen = FALSE,
                            !.content_length_seen = FALSE, !.transfer_encoding_seen = FALSE]
  /\ wire' = [wire EXCEPT !.phase = "headers", !.length = 0, !.chunked = FALSE, !.data = 0]

-----------------------------------------------------------------------------
(* HTTP_EVENT_ON_HEADER and HTTP_EVENT_ON_HEADERS_COMPLETE.                *)

OnContentLength ==
  /\ wire.phase = "headers"
  /\ \/ http.content_length_seen /\ Refused
     \/ /\ ~http.content_length_seen
        /\ http' = [http EXCEPT !.content_length_seen = TRUE]
        /\ \E length \in 0 .. Limit + 1 : wire' = [wire EXCEPT !.length = length]

OnTransferEncoding ==
  /\ wire.phase = "headers"
  /\ http' = [http EXCEPT !.transfer_encoding_seen = TRUE]
  /\ wire' = [wire EXCEPT !.chunked = TRUE]

OnLocation ==
  /\ wire.phase = "headers"
  /\ http.status = 302
  /\ \/ http.location_seen /\ Refused
     \/ /\ ~http.location_seen
        /\ \E url \in Urls :
             /\ http' = [http EXCEPT !.location_seen = TRUE,
                                     !.location_allowed = UrlAllowed(url, TRUE)]
             /\ wire' = [wire EXCEPT !.location = url]

LengthAcceptedAnyEncoding ==
  /\ http.content_length_seen
  /\ wire.length \in 1 .. Limit
  /\ http.expected_length # 0 => wire.length = http.expected_length

LengthAccepted ==
  /\ http.content_length_seen /\ ~http.transfer_encoding_seen
  /\ wire.length \in 1 .. Limit
  /\ http.expected_length # 0 => wire.length = http.expected_length

OnHeadersComplete ==
  /\ wire.phase = "headers"
  /\ \/ http.status = 200 /\ ~LengthAccepted /\ Refused
     \/ /\ http.status = 200 => LengthAccepted
        /\ http' = [http EXCEPT !.headers_accepted = @ \/ http.status = 200]
        /\ wire' = [wire EXCEPT !.phase = "body"]

-----------------------------------------------------------------------------
(* HTTP_EVENT_ON_DATA, HTTP_EVENT_REDIRECT and the end of perform_download. *)

\* What goes to the manifest's buffer or to flash and digest (whose functions
\* may fail).  The body of a redirect to an allowed place is passed over.
OnData ==
  /\ wire.phase = "body"
  /\ \E size \in Chunks :
       /\ wire.chunked \/ wire.data + size <= wire.length
       /\ \/ /\ http.status = 302 /\ http.location_allowed
             /\ UNCHANGED httpVars
          \/ /\ ~(http.status = 302 /\ http.location_allowed)
             /\ http.headers_accepted
             /\ ChunkFits(http.received, size, Limit)
             /\ http' = [http EXCEPT !.received = @ + size]
             /\ wire' = [wire EXCEPT !.data = @ + size]
          \/ ~(http.status = 302 /\ http.location_allowed) /\ Refused

OnRedirect ==
  /\ wire.phase = "body"
  /\ http.status = 302
  /\ IF http.location_seen /\ http.location_allowed /\ http.redirects < MaxRedirects
     THEN /\ http' = [http EXCEPT !.redirects = @ + 1]
          /\ wire' = [wire EXCEPT !.phase = "ready", !.url = wire.location]
     ELSE Refused

Complete == wire.chunked \/ wire.data = wire.length

Finished ==
  /\ wire.phase = "body"
  /\ http.status # 302
  /\ wire' = [wire EXCEPT !.phase =
       IF /\ http.status = 200 /\ Complete
          /\ http.received # 0
          /\ http.expected_length # 0 => http.received = http.expected_length
       THEN "accepted" ELSE "refused"]
  /\ UNCHANGED http

DownloadNext ==
  \/ NextDownload \/ TransferFails \/ OnStatus
  \/ OnContentLength \/ OnTransferEncoding \/ OnLocation \/ OnHeadersComplete
  \/ OnData \/ OnRedirect \/ Finished

DownloadSpec == DownloadInit /\ [][DownloadNext]_httpVars

-----------------------------------------------------------------------------
(* Property.                                                               *)

\* A download that is accepted came over allowed URLs only, with no more than
\* the allowed redirects, brought exactly as much as it announced and was
\* expected, all within the limit, and nothing of an earlier response.
AcceptedIsExact ==
  wire.phase = "accepted" =>
    /\ wire.url # "elsewhere" /\ http.redirects <= MaxRedirects
    /\ http.received = wire.length /\ http.received = wire.data
    /\ http.received \in 1 .. Limit
    /\ http.expected_length # 0 => http.received = http.expected_length

=============================================================================
