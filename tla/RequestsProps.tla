--------------------------- MODULE RequestsProps ---------------------------
(* The properties of Requests. *)
EXTENDS Requests

(* What is parsed as JSON is a part of one body from its first byte to its *)
(* end or first NUL: never the beginning of an answer with the end of a    *)
(* longer one that was in the buffer before, in however many chunks it     *)
(* came.  It is the body of this request unless that was empty.            *)
JsonIsOneBody ==
  read.path \notin {"none", "/v2/accounts"} =>
    /\ \E n \in 0 .. Len(content) :
         /\ read.bytes = [k \in 1 .. n |-> content[k]]
         /\ \A k \in 1 .. n : content[k] # NUL
         /\ n = Len(content) \/ content[n + 1] = NUL
    /\ body = <<>> \/ body = content

(* What is parsed as an account is what this request received, an empty    *)
(* body and the NULs in it included.                                       *)
AccountIsItsOwn == read.path = "/v2/accounts" => read.bytes = body

(* rx_buf is overrun only by an answer that is longer than what it is for: *)
(* many requests, many chunks and empty ones never add up to it.           *)
ShortAnswersFit == fault = "overrun" => Len(body) >= HTTP_MAXIMUM_CONTENT_LENGTH

(* A request goes to the URL and the port of one node, the last the SDK    *)
(* was given, and only transactions say that they are binary, with         *)
(* whatever header the client wants.                                       *)
SentToOneNode ==
  request # NoRequest =>
    /\ request.url = provider.url /\ request.port = provider.port
    /\ "Content-Type: application/x-binary" \in request.headers <=> request.path \in Post
    /\ provider.header \in {"NULL", ""} \/ provider.header \in request.headers
-----------------------------------------------------------------------------
(* What the documentation says and the code does not do *)

(* vertices_http.h:30, of http_get: `HTTP GET request'. *)
GetsAreSentAsGets == request.path \in Get => request.method = "GET"
=============================================================================
