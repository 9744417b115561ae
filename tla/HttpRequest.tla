---------------------------- MODULE HttpRequest -----------------------------
(***************************************************************************)
(* uvnet/request.c and send_socket of socket.c: one request, from what its *)
(* user says of it to what is handed to libuv.  The user adds headers and  *)
(* parts of a body, from any thread and also after request(), which takes  *)
(* the URL apart; the loop's thread composes the head when a connection is *)
(* there.                                                                  *)
(*                                                                         *)
(* A URL is a sequence of symbols (TextScan); a header is known by a       *)
(* symbol that stands for its name as it is spelt, but for the three names *)
(* that request.c compares without their case.                             *)
(***************************************************************************)
EXTENDS TextScan

CONSTANTS
  Keys,          \* the names of other headers, as they are spelt
  Values,        \* of headers; "close", "chunked" and numbers have a meaning
  Parts,         \* of a body
  MaxCalls       \* bound: calls of add_req_header and add_req_body

(* The headers that the request keeps in fields of its own.                *)
Known == {"content-length", "connection", "transfer-encoding"}
ASSUME KeysAssumption == Keys \cap Known = {}

Close == "close"
Chunked == "chunked"
Numbers == {"7", "9"}

VARIABLES
  url, host,                             \* set by the user; host may be NULL
  keep_alive, chunked, content_length,
  headers,                               \* the map
  body,                                  \* the list
  str_path, str_host, str_addr, str_port,
  ret,                                   \* of request(), or "none" before it
  written,                               \* the head given to uv_write, or NoHead
  calls                                  \* how many times it was added to

vars == <<url, host, keep_alive, chunked, content_length, headers, body,
          str_path, str_host, str_addr, str_port, ret, written, calls>>

NULL == <<"NULL">>
NoHead == <<>>
asked == <<url, host>>
address == <<str_path, str_host, str_addr, str_port>>

----------------------------------------------------------------------------
(* creat_request.                                                          *)
Init ==
  /\ keep_alive = TRUE /\ chunked = FALSE /\ content_length = "0"
  /\ headers = <<>> /\ body = <<>>
  /\ str_path = <<>> /\ str_host = <<>> /\ str_addr = <<>> /\ str_port = <<>>
  /\ ret = "none" /\ written = NoHead /\ calls = 0

Adding == calls < MaxCalls /\ calls' = calls + 1

atoi(value) == IF value \in Numbers THEN value ELSE "0"

(* Faulty variant: the map is made anew with every header.                 *)
PutHeaderAnew(key, value) == headers' = [k \in {key} |-> value]

(* A header that is there already loses its value: string_clear empties    *)
(* it, and string_copy, which copies out of the string it is given first,  *)
(* brings nothing back.                                                    *)
Empty == ""
PutHeader(key, value) ==
  headers' = [k \in DOMAIN headers \cup {key} |->
                IF k # key THEN headers[k]
                ELSE IF key \in DOMAIN headers THEN Empty ELSE value]

(* add_req_header.  Three headers are known: what they say is kept in the  *)
(* request, and a value without a meaning for them is dropped.             *)
AddHeader(key, value) ==
  /\ Adding
  /\ \/ /\ key = "content-length" /\ content_length' = atoi(value)
        /\ UNCHANGED <<keep_alive, chunked, headers>>
     \/ /\ key = "connection" /\ keep_alive' = (keep_alive /\ value # Close)
        /\ UNCHANGED <<content_length, chunked, headers>>
     \/ /\ key = "transfer-encoding" /\ chunked' = (chunked \/ value = Chunked)
        /\ UNCHANGED <<content_length, keep_alive, headers>>
     \/ /\ key \notin Known /\ PutHeader(key, value)
        /\ UNCHANGED <<content_length, keep_alive, chunked>>
  /\ UNCHANGED <<asked, body, address, ret, written>>

AddBody(part) ==
  /\ Adding /\ body' = Append(body, part)
  /\ UNCHANGED <<asked, keep_alive, chunked, content_length, headers, address, ret, written>>

----------------------------------------------------------------------------
(* request: the URL is taken apart.                                        *)

Scheme == <<"http", ":", "/", "/">>
Found(text, i, symbols) == At(text, Find(text, i, symbols)) # NUL

(* Any "://" in the URL must be the one of http:// at its beginning.       *)
OtherProtocol == Found(url, 1, <<":", "/", "/">>) /\ ~Reads(url, 1, Scheme)
AddrBegin == IF Found(url, 1, <<":", "/", "/">>) THEN 5 ELSE 1
PathBegin == Find(url, AddrBegin, <<"/">>)

(* Faulty variant: the host is what stands before the path.                *)
HostWithScheme == IF host = NULL THEN Part(url, 1, PathBegin) ELSE host

Host == IF host = NULL THEN Part(url, AddrBegin, PathBegin) ELSE host

PortBegin == Find(Host, 1, <<":">>)
Default == At(Host, PortBegin) = NUL

(* The address goes to parse_dns last, and what that returns is returned:  *)
(* it is declared only, so that any result is possible.                    *)
Request ==
  /\ ret = "none"
  /\ IF OtherProtocol THEN ret' = "err_protocol" /\ UNCHANGED address
     ELSE /\ ret' \in {"ok", "err_dns"}
          /\ str_path' = IF At(url, PathBegin) = NUL THEN <<"/">>
                         ELSE SubSeq(url, PathBegin, Len(url))
          /\ str_host' = Host
          /\ str_addr' = Part(Host, 1, PortBegin)
          /\ str_port' = IF Default THEN <<"80">> ELSE SubSeq(Host, PortBegin + 1, Len(Host))
  /\ UNCHANGED <<asked, keep_alive, chunked, content_length, headers, body, written, calls>>

----------------------------------------------------------------------------
(* generic_request_header, and send_socket around it.  The loop that would *)
(* put the parts of the body behind the head ends before it begins, for    *)
(* its end is the list's beginning: as many buffers as the body has parts  *)
(* are handed to uv_write as malloc left them.                             *)
generic_request_header ==
  [path |-> str_path, host |-> str_host,
   connection |-> IF keep_alive THEN "Keep-Alive" ELSE "Close",
   framing |-> IF chunked THEN Chunked ELSE content_length,
   headers |-> headers]

Unset == "unset"
Send ==
  /\ ret = "ok" /\ written = NoHead
  /\ written' = [head |-> generic_request_header, bufs |-> [i \in DOMAIN body |-> Unset]]
  /\ UNCHANGED <<asked, keep_alive, chunked, content_length, headers, body, address, ret, calls>>

Next ==
  \/ \E key \in Keys \cup Known, value \in Values :
       AddHeader(key, value)
  \/ \E part \in Parts : AddBody(part)
  \/ Request
  \/ Send

Spec == Init /\ [][Next]_vars
=============================================================================
