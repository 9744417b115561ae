--------------------------- MODULE MCHttpRequest ----------------------------
(***************************************************************************)
(* HttpRequest on URLs made from their parts, with a record of the calls   *)
(* made before the head was written.                                       *)
(***************************************************************************)
EXTENDS HttpRequest, SequencesExt

CONSTANTS
  Symbols,       \* that URLs are written with
  URLs           \* the parts of each, and of the host set with it

VARIABLES
  parts,         \* what the URL was made from
  made           \* the headers added before the head was written

MCKeys == {"x", "X"}
MCValues == {Close, Chunked, "7"}

(* No symbol is that of the end of a text, or of a host that is not set.   *)
(* The two marks that a URL is taken apart by are no words.                *)
ASSUME SymbolAssumption ==
  {":", "/"} \subseteq Symbols /\ NUL \notin Symbols /\ NULL[1] \notin Symbols
Words == Symbols \ {":", "/"}
IsTarget(t) == t.addr \in Seq(Words) /\ t.port \in Seq(Words)
IsURL(u) ==
  /\ u.scheme \in Seq(Words) /\ Len(u.scheme) <= 1
  /\ IsTarget(u) /\ IsTarget(u.host)
  /\ u.path \in Seq(Symbols) /\ (u.path # <<>> => u.path[1] = "/")
ASSUME UrlAssumption == \A u \in URLs : IsURL(u)

MCSymbols == {":", "/", "=", "http", "ftp", "h", "k", "8080", "a", "b", "9"}
NoHost == [addr |-> <<>>, port |-> <<>>]
Ports == {<<>>, <<"8080">>}
Paths == {<<>>, <<"/">>, <<"/", "a", ":", "9">>, <<"/", "a", "=", "http", ":", "/", "/", "b">>}
MCURLs == [scheme : {<<>>, <<"http">>, <<"ftp">>}, addr : {<<"h">>}, port : Ports, path : Paths,
           host : {NoHost} \cup [addr : {<<"k">>}, port : Ports]]

WithPort(addr, port) == addr \o IF port = <<>> THEN <<>> ELSE <<":">> \o port
Rendered(u) == (IF u.scheme = <<>> THEN <<>> ELSE u.scheme \o <<":", "/", "/">>)
                 \o WithPort(u.addr, u.port) \o u.path

MCInit ==
  /\ Init
  /\ parts \in URLs /\ url = Rendered(parts)
  /\ host = (IF parts.host = NoHost THEN NULL ELSE WithPort(parts.host.addr, parts.host.port))
  /\ made = <<>>

MCNext ==
  /\ \/ \E key \in Keys \cup Known, value \in Values :
          /\ AddHeader(key, value)
          /\ made' = IF written = NoHead THEN Append(made, [key |-> key, value |-> value]) ELSE made
     \/ (\E part \in Parts : AddBody(part)) /\ UNCHANGED made
     \/ Request /\ UNCHANGED made
     \/ Send /\ UNCHANGED made
  /\ UNCHANGED parts

MCSpec == MCInit /\ [][MCNext]_<<vars, parts, made>>

----------------------------------------------------------------------------
(* What the calls said.                                                    *)
Said(key, value) == \E i \in DOMAIN made : made[i] = [key |-> key, value |-> value]
IsLast(i) == \A j \in DOMAIN made : made[j].key = made[i].key => j <= i
IsOnly(i) == \A j \in DOMAIN made : made[j].key = made[i].key => j = i

HeadersAsCalled(map) ==
  /\ DOMAIN map = {made[i].key : i \in DOMAIN made} \cap Keys
  /\ \A i \in DOMAIN made :
       made[i].key \in Keys /\ IsOnly(i) => map[made[i].key] = made[i].value

LengthAsCalled(length) ==
  /\ (\A i \in DOMAIN made : made[i].key # "content-length") => length = "0"
  /\ \A i \in DOMAIN made :
       made[i].key = "content-length" /\ IsLast(i) => length = atoi(made[i].value)

(* Whatever the order of the calls, around request() too, the head says    *)
(* what they said until it was written: each other header once, with its   *)
(* value if it was added once (nothing is promised of one that was added   *)
(* again: its value is lost, see PutHeader); the connection ends with the  *)
(* response if a call ever said so; chunks if a call ever said so, and     *)
(* else the length given last.  No call behind the head changes it.        *)
HeadIsAsCalled ==
  LET head == written.head
  IN written # NoHead =>
       /\ HeadersAsCalled(head.headers)
       /\ head.connection = IF Said("connection", Close) THEN "Close" ELSE "Keep-Alive"
       /\ IF Said("transfer-encoding", Chunked) THEN head.framing = Chunked
          ELSE LengthAsCalled(head.framing)

(* A URL is taken into the parts it was made from, a colon or an address   *)
(* in its path notwithstanding, and the host that was set takes            *)
(* precedence.  Another protocol is refused, and nothing else is but that  *)
(* nothing is promised of a URL without its http:// whose path holds an    *)
(* address: request() takes that for another protocol, although public.h   *)
(* says that http:// may be left out.                                      *)
UrlTakenApart ==
  LET target == IF parts.host = NoHost THEN parts ELSE parts.host
      address_in_path == \E i \in DOMAIN parts.path : Reads(parts.path, i, <<":", "/", "/">>)
  IN /\ ret # "none" /\ parts.scheme \notin {<<>>, <<"http">>} => ret = "err_protocol"
     /\ ret = "err_protocol" /\ parts.scheme = <<>> => address_in_path
     /\ ret = "err_protocol" => parts.scheme # <<"http">>
     /\ ret \notin {"none", "err_protocol"} =>
          /\ str_path = (IF parts.path = <<>> THEN <<"/">> ELSE parts.path)
          /\ str_addr = target.addr
          /\ str_port = (IF target.port = <<>> THEN <<"80">> ELSE target.port)
          /\ str_host = WithPort(target.addr, target.port)
=============================================================================
