------------------------------ MODULE Requests ------------------------------
(***************************************************************************)
(* How the SDK talks to its node: the requests of src/src/algorand/        *)
(* algorand_provider.c, the functions of src/src/utils/http_weak.c that    *)
(* lead to the client's transport, and the transport of the example,       *)
(* vertices_ports/http_curl.cpp.  All answers are received in one buffer,  *)
(* rx_buf, which no request clears, and over one handle of libcurl, which  *)
(* keeps its options from request to request.                              *)
(***************************************************************************)
EXTENDS Integers, Sequences

CONSTANTS HTTP_MAXIMUM_CONTENT_LENGTH,  \* size of rx_buf, 4096 in the code
          Byte,            \* bytes of a text: all but NUL
          NUL,
          ChunkLength,     \* lengths libcurl may hand over at once
          Node,            \* provider_info_t: [url, port, header]
          MaxRequests      \* bound: requests in a run

ASSUME BufferAssumption ==
  /\ HTTP_MAXIMUM_CONTENT_LENGTH \in Nat \ {0}
  /\ NUL \notin Byte
  /\ ChunkLength \subseteq Nat

ASSUME NodeAssumption ==
  \A node \in Node : node.header # "Content-Type: application/x-binary"

ASSUME BoundAssumption == MaxRequests \in Nat

VARIABLES handlers,    \* the functions http_weak.c was given
          m_curl,      \* the handle's options, or NoHandle
          provider,    \* m_provider.provider
          rx_buf,
          size,        \* m_provider.response_buffer.size
          request,     \* the transfer under way, as it is sent, or NoRequest
          read,        \* what the last answer was parsed from, or NoRead
          fault,       \* where the program went out of bounds
          requests,    \* how many were made
          body,        \* what this request has received
          content      \* what the last request that received anything has

bufferVars == <<rx_buf, size, body, content>>
vars == <<handlers, m_curl, provider, request, read, fault, requests, bufferVars>>

Function == {"http_init", "http_get", "http_post", "http_close"}
Get == {"/v2/applications", "/v2/accounts", "/v2/transactions/params", "/versions", "/health"}
Post == {"/v2/transactions"}

NoHandle == [method |-> "none", port |-> 0]
NoNode == [url |-> "none", port |-> 0, header |-> "NULL"]
NoRequest == [path |-> "none", method |-> "none", url |-> "none", port |-> 0, headers |-> {}]
NoRead == [path |-> "none", bytes |-> <<>>]
Idle == request = NoRequest /\ fault = "none"

Init ==
  /\ handlers = {} /\ m_curl = NoHandle /\ provider = NoNode
  /\ rx_buf = [i \in 0 .. HTTP_MAXIMUM_CONTENT_LENGTH - 1 |-> NUL] /\ size = 0
  /\ request = NoRequest /\ read = NoRead /\ fault = "none" /\ requests = 0
  /\ body = <<>> /\ content = <<>>

(* set_http_init, set_http_get, set_http_post, set_http_close *)
set_http(f) ==
  /\ Idle
  /\ handlers' = handlers \cup {f}
  /\ UNCHANGED <<m_curl, provider, request, read, fault, requests, bufferVars>>
-----------------------------------------------------------------------------
HandleOnce(node) ==              \* mutant: the handle is made once
  IF m_curl # NoHandle THEN [m_curl EXCEPT !.port = IF node.port # 0 THEN node.port ELSE @]
  ELSE [method |-> "GET", port |-> node.port]
Handle(node) == [method |-> "GET", port |-> node.port]

(* The old handle is neither used nor freed.  libcurl may have none: the   *)
(* SDK has left the old provider all the same.                             *)
http_init(node) ==
  /\ "http_init" \in handlers
  /\ m_curl' \in {NoHandle, Handle(node)}

provider_init(node) ==
  /\ Idle
  /\ provider' = node
  /\ size' = 0
  /\ http_init(node) \/ ("http_init" \notin handlers /\ UNCHANGED m_curl)
  /\ UNCHANGED <<handlers, rx_buf, request, read, fault, requests, body, content>>

http_close ==
  /\ Idle
  /\ IF "http_close" \in handlers
     THEN m_curl' = NoHandle /\ UNCHANGED fault
     ELSE fault' = "NULL called" /\ UNCHANGED m_curl
  /\ UNCHANGED <<handlers, provider, request, read, requests, bufferVars>>
-----------------------------------------------------------------------------
SizeKept == size                 \* mutant: the buffer is not started anew
SizeAtStart == 0

(* Every request of the provider begins so; its contents stay. *)
Requested ==
  /\ Idle /\ requests < MaxRequests
  /\ requests' = requests + 1
  /\ size' = SizeAtStart
  /\ body' = <<>>
  /\ read' = NoRead
  /\ UNCHANGED <<handlers, provider, rx_buf, content>>

(* NOT_FOUND without the client's function, INVALID_STATE without handle   *)
NotSent(f) ==
  /\ f \notin handlers \/ m_curl = NoHandle
  /\ UNCHANGED <<m_curl, request, fault>>

Sent(path, method, headers) ==
  request' = [path |-> path, method |-> method, url |-> provider.url, port |-> m_curl.port,
              headers |-> headers]

(* CURLOPT_HTTPGET is never set: the method is what the handle was used    *)
(* for last.  A header of NULL is copied by curl_slist_append.             *)
http_get(path) ==
  /\ "http_get" \in handlers /\ m_curl # NoHandle
  /\ IF provider.header = "NULL"
     THEN fault' = "NULL copied" /\ UNCHANGED request
     ELSE Sent(path, m_curl.method, {provider.header}) /\ UNCHANGED fault
  /\ UNCHANGED m_curl

(* From here on the handle posts. *)
http_post(path, headers) ==
  /\ "http_post" \in handlers /\ m_curl # NoHandle
  /\ m_curl' = [m_curl EXCEPT !.method = "POST"]
  /\ Sent(path, "POST", headers)
  /\ UNCHANGED fault

(* provider_application_info_get, provider_account_info_get,               *)
(* provider_tx_params_load, provider_version_get, provider_ping            *)
provider_get(path) == Requested /\ (http_get(path) \/ NotSent("http_get"))

(* The header of the provider, if there is one, comes first. *)
PostHeaders == ({provider.header} \ {"NULL", ""}) \cup {"Content-Type: application/x-binary"}

provider_tx_post(path) == Requested /\ (http_post(path, PostHeaders) \/ NotSent("http_post"))
-----------------------------------------------------------------------------
(* The callback of libcurl: the assertion compares the chunk's own length  *)
(* with the size of rx_buf and only logs, so that what matters is where    *)
(* the NUL after it goes.                                                  *)
TerminatorTooFar(chunk) == size + Len(chunk) + 1      \* mutant
Terminator(chunk) == size + Len(chunk)

NotTerminated(chunk) ==                               \* mutant: no NUL is written
  [i \in DOMAIN rx_buf |-> IF i \in size .. size + Len(chunk) - 1 THEN chunk[i - size + 1]
                           ELSE rx_buf[i]]
Copied(chunk) ==
  [i \in DOMAIN rx_buf |-> IF i \in size .. size + Len(chunk) - 1 THEN chunk[i - size + 1]
                           ELSE IF i = Terminator(chunk) THEN NUL
                           ELSE rx_buf[i]]

response_payload_callback(chunk) ==
  /\ request # NoRequest /\ fault = "none"
  /\ rx_buf' = Copied(chunk)
  /\ size' = size + Len(chunk)
  /\ fault' = IF Terminator(chunk) \in DOMAIN rx_buf THEN "none" ELSE "overrun"
  /\ body' = body \o chunk
  /\ content' = body'
  /\ UNCHANGED <<handlers, m_curl, provider, request, read, requests>>

(* What curl_easy_perform leaves when it fails, or when the node's code is *)
(* 300 or more, is not looked at.                                          *)
NotParsed ==
  /\ request # NoRequest /\ fault = "none"
  /\ request' = NoRequest
  /\ UNCHANGED <<handlers, m_curl, provider, read, fault, requests, bufferVars>>

(* MessagePack is read up to the size that was received. *)
MpackParsed ==
  /\ request.path = "/v2/accounts" /\ fault = "none"
  /\ read' = [path |-> request.path, bytes |-> [k \in 1 .. size |-> rx_buf[k - 1]]]
  /\ request' = NoRequest
  /\ UNCHANGED <<handlers, m_curl, provider, fault, requests, bufferVars>>

(* JSON is text: it ends at the first NUL. *)
TextIs(n) == n \in DOMAIN rx_buf /\ rx_buf[n] = NUL /\ \A k \in 0 .. n - 1 : rx_buf[k] # NUL

JsonParsed ==
  /\ request.path \in (Get \cup Post) \ {"/v2/accounts", "/health"} /\ fault = "none"
  /\ \E n \in DOMAIN rx_buf :
       /\ TextIs(n)
       /\ read' = [path |-> request.path, bytes |-> [k \in 1 .. n |-> rx_buf[k - 1]]]
  /\ request' = NoRequest
  /\ UNCHANGED <<handlers, m_curl, provider, fault, requests, bufferVars>>
-----------------------------------------------------------------------------
(* JSON has no NUL in it, MessagePack may. *)
Sendable == IF request.path = "/v2/accounts" THEN Byte \cup {NUL} ELSE Byte

Next ==
  \/ \E f \in Function : set_http(f)
  \/ \E node \in Node : provider_init(node)
  \/ http_close
  \/ \E path \in Get : provider_get(path)
  \/ \E path \in Post : provider_tx_post(path)
  \/ \E length \in ChunkLength :
       \E chunk \in [1 .. length -> Sendable] : response_payload_callback(chunk)
  \/ NotParsed \/ MpackParsed \/ JsonParsed

Spec == Init /\ [][Next]_vars
=============================================================================
