--------------------------- MODULE RequestsProofs ---------------------------
(***************************************************************************)
(* For every size of rx_buf, every chunking and every order of requests:   *)
(* what is parsed is one answer, and short answers fit.  The inductive     *)
(* invariant relates the buffer to the body that was written to it last:   *)
(* while nothing was overrun, rx_buf holds that body and a NUL, even after *)
(* requests that received nothing.                                         *)
(***************************************************************************)
EXTENDS RequestsProps, TLAPS

Bytes == Byte \cup {NUL}
BufferTypes ==
  /\ DOMAIN rx_buf = 0 .. HTTP_MAXIMUM_CONTENT_LENGTH - 1
  /\ size \in Nat
  /\ body \in Seq(Bytes) /\ content \in Seq(Bytes)

HoldsContent ==
  /\ Len(content) < HTTP_MAXIMUM_CONTENT_LENGTH
  /\ \A k \in 1 .. Len(content) : rx_buf[k - 1] = content[k]
  /\ rx_buf[Len(content)] = NUL
  /\ body = <<>> \/ body = content
  /\ request # NoRequest => size = Len(body)

NothingReadYet == request # NoRequest => read = NoRead

BufferInv ==
  /\ BufferTypes /\ NothingReadYet
  /\ fault # "overrun" => HoldsContent
  /\ JsonIsOneBody /\ AccountIsItsOwn /\ ShortAnswersFit

(* Copying a chunk behind the body and a NUL behind the chunk leaves the   *)
(* buffer with the longer body.                                            *)
LEMMA ChunkAppended ==
  ASSUME BufferTypes, fault = "none", HoldsContent, request # NoRequest,
         NEW chunk \in Seq(Bytes), Terminator(chunk) \in DOMAIN rx_buf
  PROVE  /\ \A k \in 1 .. Len(body \o chunk) : Copied(chunk)[k - 1] = (body \o chunk)[k]
         /\ Copied(chunk)[Len(body \o chunk)] = NUL
         /\ Len(body \o chunk) < HTTP_MAXIMUM_CONTENT_LENGTH
<1>1. /\ size = Len(body) /\ Len(body) \in Nat /\ Len(chunk) \in Nat
      /\ HTTP_MAXIMUM_CONTENT_LENGTH \in Nat
  BY BufferAssumption DEF HoldsContent, BufferTypes
<1>2. /\ Len(body \o chunk) = size + Len(chunk)
      /\ \A k \in 1 .. Len(body \o chunk) :
           (body \o chunk)[k] = IF k <= size THEN body[k] ELSE chunk[k - size]
  BY <1>1 DEF BufferTypes
<1>3. size + Len(chunk) \in 0 .. HTTP_MAXIMUM_CONTENT_LENGTH - 1
  BY DEF BufferTypes, Terminator
<1>4. \A i \in 0 .. HTTP_MAXIMUM_CONTENT_LENGTH - 1 : Copied(chunk)[i] =
        IF i \in size .. size + Len(chunk) - 1 THEN chunk[i - size + 1]
        ELSE IF i = size + Len(chunk) THEN NUL ELSE rx_buf[i]
  BY DEF Copied, Terminator, BufferTypes
<1>5. ASSUME NEW k \in 1 .. Len(body \o chunk)
      PROVE  Copied(chunk)[k - 1] = (body \o chunk)[k]
  <2>1. k - 1 \in 0 .. HTTP_MAXIMUM_CONTENT_LENGTH - 1 /\ k \in Int /\ k - 1 < size + Len(chunk)
    BY <1>1, <1>2, <1>3
  <2>2. CASE k <= size
    <3>1. body = content /\ rx_buf[k - 1] = content[k]
      BY <1>1, <2>1, <2>2 DEF HoldsContent, BufferTypes
    <3>2. Copied(chunk)[k - 1] = rx_buf[k - 1]
      BY <1>1, <1>4, <2>1, <2>2
    <3> QED
      BY <1>2, <2>2, <3>1, <3>2
  <2>3. CASE k > size
    <3>1. k - 1 \in size .. size + Len(chunk) - 1 /\ (k - 1) - size + 1 = k - size
      BY <1>1, <2>1, <2>3
    <3>2. Copied(chunk)[k - 1] = chunk[k - size]
      BY <1>4, <2>1, <3>1
    <3> QED
      BY <1>1, <1>2, <2>1, <2>3, <3>2
  <2> QED
    BY <1>1, <2>1, <2>2, <2>3
<1>6. Copied(chunk)[Len(body \o chunk)] = NUL
  BY <1>1, <1>2, <1>3, <1>4
<1> QED
  BY <1>1, <1>2, <1>3, <1>5, <1>6

(* What is read of the buffer as text is the part of the content before    *)
(* its first NUL.                                                          *)
LEMMA TextIsOfContent ==
  ASSUME BufferTypes, HoldsContent, NEW n \in DOMAIN rx_buf, TextIs(n)
  PROVE  /\ n \in 0 .. Len(content)
         /\ [k \in 1 .. n |-> rx_buf[k - 1]] = [k \in 1 .. n |-> content[k]]
         /\ \A k \in 1 .. n : content[k] # NUL
         /\ n = Len(content) \/ content[n + 1] = NUL
<1>1. n \in Nat /\ Len(content) \in Nat /\ HTTP_MAXIMUM_CONTENT_LENGTH \in Nat
  BY BufferAssumption DEF BufferTypes
<1>2. n <= Len(content)
  <2>1. SUFFICES ASSUME Len(content) < n PROVE FALSE
    BY <1>1
  <2>2. Len(content) \in 0 .. n - 1
    BY <1>1, <2>1
  <2> QED
    BY <2>2 DEF TextIs, HoldsContent
<1>3. \A k \in 1 .. n : k \in 1 .. Len(content) /\ k - 1 \in 0 .. n - 1
  BY <1>1, <1>2
<1>4. \A k \in 1 .. n : rx_buf[k - 1] = content[k] /\ content[k] # NUL
  BY <1>3 DEF TextIs, HoldsContent
<1>5. n = Len(content) \/ content[n + 1] = NUL
  <2>1. SUFFICES ASSUME n # Len(content) PROVE content[n + 1] = NUL
    OBVIOUS
  <2>2. n + 1 \in 1 .. Len(content) /\ (n + 1) - 1 = n
    BY <1>1, <1>2, <2>1
  <2> QED
    BY <2>2 DEF TextIs, HoldsContent
<1> QED
  BY <1>1, <1>2, <1>4, <1>5
-----------------------------------------------------------------------------
USE DEF NoRead, Idle

LEMMA BufferInit == Init => BufferInv
<1> SUFFICES ASSUME Init PROVE BufferInv
  OBVIOUS
<1>1. BufferTypes /\ HoldsContent
  BY BufferAssumption DEF Init, BufferTypes, HoldsContent, Bytes
<1>2. JsonIsOneBody /\ AccountIsItsOwn /\ ShortAnswersFit /\ NothingReadYet
  BY DEF Init, NothingReadYet, JsonIsOneBody, AccountIsItsOwn, ShortAnswersFit
<1> QED
  BY <1>1, <1>2 DEF BufferInv

(* Steps that leave the buffer and its contents alone *)
LEMMA BufferKept ==
  ASSUME BufferInv, UNCHANGED <<rx_buf, body, content, read>>, fault' # "overrun", fault # "overrun",
         size' = 0 \/ size' = size, request' = NoRequest \/ UNCHANGED <<request, size>>
  PROVE  BufferInv'
<1>1. BufferTypes' /\ HoldsContent'
  BY DEF BufferInv, BufferTypes, HoldsContent
<1>2. JsonIsOneBody' /\ AccountIsItsOwn' /\ ShortAnswersFit' /\ NothingReadYet'
  BY DEF BufferInv, NothingReadYet, JsonIsOneBody, AccountIsItsOwn, ShortAnswersFit
<1> QED
  BY <1>1, <1>2 DEF BufferInv

LEMMA RequestKeepsBuffer ==
  ASSUME BufferInv, Requested, fault' # "overrun"
  PROVE  BufferInv'
<1>1. fault = "none" /\ size' = 0 /\ body' = <<>> /\ read' = NoRead
      /\ UNCHANGED <<rx_buf, content>>
  BY DEF Requested, SizeAtStart
<1>2. BufferTypes' /\ HoldsContent'
  BY <1>1 DEF BufferInv, BufferTypes, HoldsContent
<1>3. JsonIsOneBody' /\ AccountIsItsOwn' /\ ShortAnswersFit' /\ NothingReadYet'
  BY <1>1 DEF NothingReadYet, JsonIsOneBody, AccountIsItsOwn, ShortAnswersFit
<1> QED
  BY <1>2, <1>3 DEF BufferInv

LEMMA ChunkKeepsBuffer ==
  ASSUME BufferInv, NEW chunk \in Seq(Bytes), response_payload_callback(chunk)
  PROVE  BufferInv'
<1>1. /\ request # NoRequest /\ fault = "none" /\ UNCHANGED <<request, read>>
      /\ rx_buf' = Copied(chunk) /\ size' = size + Len(chunk)
      /\ body' = body \o chunk /\ content' = body'
      /\ fault' = IF Terminator(chunk) \in DOMAIN rx_buf THEN "none" ELSE "overrun"
  BY DEF response_payload_callback
<1>2. BufferTypes /\ HoldsContent /\ size = Len(body) /\ Len(chunk) \in Nat
  BY <1>1 DEF BufferInv, HoldsContent
<1>3. Len(body \o chunk) = size + Len(chunk) /\ body \o chunk \in Seq(Bytes)
  BY <1>2 DEF BufferTypes
<1>4. BufferTypes'
  <2>1. DOMAIN Copied(chunk) = DOMAIN rx_buf
    BY DEF Copied
  <2> QED
    BY <1>1, <1>2, <1>3, <2>1 DEF BufferTypes
<1>5. ASSUME fault' # "overrun" PROVE HoldsContent'
  <2>1. Terminator(chunk) \in DOMAIN rx_buf
    BY <1>1, <1>5
  <2>2. /\ \A k \in 1 .. Len(body \o chunk) : Copied(chunk)[k - 1] = (body \o chunk)[k]
        /\ Copied(chunk)[Len(body \o chunk)] = NUL
        /\ Len(body \o chunk) < HTTP_MAXIMUM_CONTENT_LENGTH
    BY <1>1, <1>2, <2>1, ChunkAppended
  <2> QED
    BY <1>1, <1>3, <2>2 DEF HoldsContent
<1>6. ShortAnswersFit'
  <2>1. SUFFICES ASSUME fault' = "overrun"
                 PROVE  Len(body \o chunk) >= HTTP_MAXIMUM_CONTENT_LENGTH
    BY <1>1 DEF ShortAnswersFit
  <2>2. size + Len(chunk) \notin 0 .. HTTP_MAXIMUM_CONTENT_LENGTH - 1
    BY <1>1, <1>2, <2>1 DEF Terminator, BufferTypes
  <2> QED
    BY <1>2, <1>3, <2>2, BufferAssumption DEF BufferTypes
<1>7. JsonIsOneBody' /\ AccountIsItsOwn' /\ NothingReadYet'
  BY <1>1 DEF BufferInv, NothingReadYet, JsonIsOneBody, AccountIsItsOwn
<1> QED
  BY <1>4, <1>5, <1>6, <1>7 DEF BufferInv

LEMMA MpackKeepsBuffer == ASSUME BufferInv, MpackParsed PROVE BufferInv'
<1>1. /\ request.path = "/v2/accounts" /\ fault = "none" /\ request' = NoRequest
      /\ read' = [path |-> request.path, bytes |-> [k \in 1 .. size |-> rx_buf[k - 1]]]
      /\ UNCHANGED <<fault, rx_buf, size, body, content>>
  BY DEF MpackParsed, bufferVars
<1>2. request # NoRequest
  BY <1>1 DEF NoRequest
<1>3. BufferTypes /\ HoldsContent /\ size = Len(body)
  BY <1>1, <1>2 DEF BufferInv, HoldsContent
<1>4. read'.bytes = body
  <2>1. CASE body = <<>>
    BY <1>1, <1>3, <2>1
  <2>2. CASE body = content
    BY <1>1, <1>3, <2>2 DEF BufferTypes, HoldsContent
  <2> QED
    BY <1>3, <2>1, <2>2 DEF HoldsContent
<1>5. BufferTypes' /\ HoldsContent'
  BY <1>1, <1>3 DEF BufferTypes, HoldsContent
<1>6. JsonIsOneBody' /\ AccountIsItsOwn' /\ ShortAnswersFit' /\ NothingReadYet'
  BY <1>1, <1>4 DEF NothingReadYet, JsonIsOneBody, AccountIsItsOwn, ShortAnswersFit
<1> QED
  BY <1>5, <1>6 DEF BufferInv

LEMMA JsonKeepsBuffer == ASSUME BufferInv, JsonParsed PROVE BufferInv'
<1>1. PICK n \in DOMAIN rx_buf : TextIs(n) /\
        read' = [path |-> request.path, bytes |-> [k \in 1 .. n |-> rx_buf[k - 1]]]
  BY DEF JsonParsed
<1>2. /\ request.path # "/v2/accounts" /\ fault = "none" /\ request' = NoRequest
      /\ UNCHANGED <<fault, rx_buf, size, body, content>>
  BY DEF JsonParsed, bufferVars, Get, Post
<1>3. BufferTypes /\ HoldsContent
  BY <1>2 DEF BufferInv
<1>4. /\ n \in 0 .. Len(content)
      /\ read'.bytes = [k \in 1 .. n |-> content[k]]
      /\ \A k \in 1 .. n : content[k] # NUL
      /\ n = Len(content) \/ content[n + 1] = NUL
  BY <1>1, <1>3, TextIsOfContent
<1>5. JsonIsOneBody'
  BY <1>2, <1>3, <1>4 DEF JsonIsOneBody, HoldsContent
<1>6. AccountIsItsOwn' /\ ShortAnswersFit' /\ NothingReadYet'
  BY <1>1, <1>2 DEF NothingReadYet, AccountIsItsOwn, ShortAnswersFit
<1>7. BufferTypes' /\ HoldsContent'
  BY <1>2, <1>3 DEF BufferTypes, HoldsContent
<1> QED
  BY <1>5, <1>6, <1>7 DEF BufferInv

LEMMA BufferStep == BufferInv /\ [Next]_vars => BufferInv'
<1> SUFFICES ASSUME BufferInv, [Next]_vars PROVE BufferInv'
  OBVIOUS
<1>1. ASSUME NEW f \in Function, set_http(f) PROVE BufferInv'
  BY <1>1, BufferKept DEF set_http, bufferVars
<1>2. ASSUME NEW node \in Node, provider_init(node) PROVE BufferInv'
  BY <1>2, BufferKept DEF provider_init
<1>3. CASE http_close
  BY <1>3, BufferKept DEF http_close, bufferVars
<1>4. ASSUME NEW path \in Get, provider_get(path) PROVE BufferInv'
  <2>1. Requested /\ fault' # "overrun"
    BY <1>4 DEF provider_get, http_get, NotSent, Requested
  <2> QED
    BY <2>1, RequestKeepsBuffer
<1>5. ASSUME NEW path \in Post, provider_tx_post(path) PROVE BufferInv'
  <2>1. Requested /\ fault' # "overrun"
    BY <1>5 DEF provider_tx_post, http_post, NotSent, Requested
  <2> QED
    BY <2>1, RequestKeepsBuffer
<1>6. ASSUME NEW length \in ChunkLength, NEW chunk \in [1 .. length -> Sendable],
             response_payload_callback(chunk)
      PROVE  BufferInv'
  <2>1. chunk \in Seq(Bytes)
    BY BufferAssumption DEF Sendable, Bytes
  <2> QED
    BY <1>6, <2>1, ChunkKeepsBuffer
<1>7. CASE NotParsed
  BY <1>7, BufferKept DEF NotParsed, bufferVars
<1>8. CASE MpackParsed
  BY <1>8, MpackKeepsBuffer
<1>9. CASE JsonParsed
  BY <1>9, JsonKeepsBuffer
<1>10. CASE UNCHANGED vars
  BY <1>10 DEF vars, bufferVars, BufferInv, BufferTypes, NothingReadYet, HoldsContent,
               JsonIsOneBody, AccountIsItsOwn, ShortAnswersFit
<1> QED
  BY <1>1, <1>2, <1>3, <1>4, <1>5, <1>6, <1>7, <1>8, <1>9, <1>10 DEF Next

(* For every size of rx_buf and every way answers come in: what is parsed  *)
(* as JSON is one whole body up to its first NUL, and this request's       *)
(* unless that was empty (provider_tx_params_load and its like).           *)
THEOREM JsonNeverMixed == Spec => []JsonIsOneBody
<1>1. BufferInv => JsonIsOneBody
  BY DEF BufferInv
<1> QED
  BY <1>1, BufferInit, BufferStep, PTL DEF Spec

(* An account is parsed from what its own request received.                *)
THEOREM AccountNeverStale == Spec => []AccountIsItsOwn
<1>1. BufferInv => AccountIsItsOwn
  BY DEF BufferInv
<1> QED
  BY <1>1, BufferInit, BufferStep, PTL DEF Spec

(* Only an answer as long as rx_buf goes past its end.                     *)
THEOREM BufferOverrunOnlyByLongAnswers == Spec => []ShortAnswersFit
<1>1. BufferInv => ShortAnswersFit
  BY DEF BufferInv
<1> QED
  BY <1>1, BufferInit, BufferStep, PTL DEF Spec
-----------------------------------------------------------------------------
(* The handle is of the node the SDK was given last: it is made anew with  *)
(* every provider_init that reaches http_init, and none is left when one   *)
(* does not.                                                               *)
HandleInv ==
  /\ "http_init" \notin handlers => m_curl = NoHandle
  /\ m_curl # NoHandle => /\ m_curl = [method |-> m_curl.method, port |-> m_curl.port]
                          /\ m_curl.port = provider.port
  /\ provider.header # "Content-Type: application/x-binary"
  /\ SentToOneNode

LEMMA HandleInit == Init => HandleInv
BY DEF Init, HandleInv, SentToOneNode, NoNode, NoHandle

LEMMA GetIsSentToOneNode ==
  ASSUME HandleInv, NEW path \in Get, provider_get(path)
  PROVE  HandleInv'
<1>1. request = NoRequest /\ UNCHANGED <<handlers, provider, m_curl>>
  BY DEF provider_get, Requested, http_get, NotSent
<1>2. SentToOneNode'
  <2>1. CASE request' = NoRequest
    BY <2>1 DEF SentToOneNode, NoRequest
  <2>2. CASE m_curl # NoHandle /\ Sent(path, m_curl.method, {provider.header})
    BY <1>1, <2>2 DEF SentToOneNode, Sent, HandleInv, Get, Post
  <2> QED
    BY <1>1, <2>1, <2>2 DEF provider_get, http_get, NotSent
<1> QED
  BY <1>1, <1>2 DEF HandleInv

LEMMA PostIsSentToOneNode ==
  ASSUME HandleInv, NEW path \in Post, provider_tx_post(path)
  PROVE  HandleInv'
<1>1. request = NoRequest /\ UNCHANGED <<handlers, provider>>
  BY DEF provider_tx_post, Requested
<1>2. CASE NotSent("http_post")
  BY <1>1, <1>2 DEF HandleInv, SentToOneNode, NotSent
<1>3. CASE http_post(path, PostHeaders)
  <2>1. /\ m_curl # NoHandle /\ m_curl' = [m_curl EXCEPT !.method = "POST"]
        /\ Sent(path, "POST", PostHeaders)
    BY <1>3 DEF http_post
  <2>2. m_curl' = [method |-> "POST", port |-> m_curl.port]
    BY <2>1 DEF HandleInv
  <2>3. SentToOneNode'
    BY <1>1, <2>1 DEF SentToOneNode, Sent, PostHeaders, HandleInv
  <2> QED
    BY <1>1, <2>1, <2>2, <2>3 DEF HandleInv
<1> QED
  BY <1>2, <1>3 DEF provider_tx_post

LEMMA HandleStep == HandleInv /\ [Next]_vars => HandleInv'
<1> SUFFICES ASSUME HandleInv, [Next]_vars PROVE HandleInv'
  OBVIOUS
<1>1. ASSUME NEW f \in Function, set_http(f) PROVE HandleInv'
  BY <1>1 DEF set_http, HandleInv, SentToOneNode
<1>2. ASSUME NEW node \in Node, provider_init(node) PROVE HandleInv'
  <2>1. /\ request' = NoRequest /\ provider' = node /\ UNCHANGED handlers
        /\ \/ "http_init" \in handlers /\ m_curl' \in {NoHandle, Handle(node)}
           \/ "http_init" \notin handlers /\ m_curl' = NoHandle
    BY <1>2 DEF provider_init, http_init, HandleInv
  <2>2. provider'.header # "Content-Type: application/x-binary"
    BY <2>1, NodeAssumption
  <2>3. m_curl' # NoHandle => /\ m_curl' = [method |-> m_curl'.method, port |-> m_curl'.port]
                              /\ m_curl'.port = provider'.port
    <3>1. SUFFICES ASSUME m_curl' = [method |-> "GET", port |-> provider'.port]
                   PROVE  /\ m_curl' = [method |-> m_curl'.method, port |-> m_curl'.port]
                          /\ m_curl'.port = provider'.port
      BY <2>1 DEF Handle
    <3> QED
      BY <3>1
  <2>4. SentToOneNode'
    BY <2>1 DEF SentToOneNode
  <2>5. "http_init" \notin handlers' => m_curl' = NoHandle
    BY <2>1
  <2> QED
    BY <2>2, <2>3, <2>4, <2>5 DEF HandleInv
<1>3. CASE http_close
  BY <1>3 DEF http_close, HandleInv, SentToOneNode
<1>4. ASSUME NEW path \in Get, provider_get(path) PROVE HandleInv'
  BY <1>4, GetIsSentToOneNode
<1>5. ASSUME NEW path \in Post, provider_tx_post(path) PROVE HandleInv'
  BY <1>5, PostIsSentToOneNode
<1>6. ASSUME NEW length \in ChunkLength, NEW chunk \in [1 .. length -> Sendable],
             response_payload_callback(chunk)
      PROVE  HandleInv'
  BY <1>6 DEF response_payload_callback, HandleInv, SentToOneNode
<1>7. CASE NotParsed
  BY <1>7 DEF NotParsed, HandleInv, SentToOneNode
<1>8. CASE MpackParsed
  BY <1>8 DEF MpackParsed, HandleInv, SentToOneNode
<1>9. CASE JsonParsed
  BY <1>9 DEF JsonParsed, HandleInv, SentToOneNode
<1>10. CASE UNCHANGED vars
  BY <1>10 DEF vars, HandleInv, SentToOneNode
<1> QED
  BY <1>1, <1>2, <1>3, <1>4, <1>5, <1>6, <1>7, <1>8, <1>9, <1>10 DEF Next

(* For all nodes: every request goes to the URL and port of the node the   *)
(* SDK was given last (http_init, http_get, http_post).                    *)
THEOREM RequestsReachTheirNode == Spec => []SentToOneNode
<1>1. HandleInv => SentToOneNode
  BY DEF HandleInv
<1> QED
  BY <1>1, HandleInit, HandleStep, PTL DEF Spec
=============================================================================
