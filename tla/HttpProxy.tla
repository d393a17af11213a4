----------------------------- MODULE HttpProxy -----------------------------
(***************************************************************************)
(* map::http_proxy, the second half of map::socks5http, and                *)
(* map::http_filter.  A word of a request is one number: method, target,   *)
(* version with its line end, a header line each, the empty line.          *)
(***************************************************************************)
EXTENDS Handshake

CONSTANTS Urls, Paths, Authorities  \* the targets: http://..., /..., host:port

GET == 301
CONNECT == 302
VERSION == 303
END == 304
AUTH_HEADER == 305        \* Proxy-Authorization: Basic ... of a user
AUTH_HEADER_SPACE == 306  \* the same with the space that PROXY_AUTH_HEADER_STR has
BAD_AUTH_HEADER == 307    \* with the space, and not Basic
HOST_HEADER == 308
CONNECT_REPLY == <<200>>

\* Addr::from_addr_str of the path of a request line that has no second space.
EmptyName == <<0>>

\* parse_h1_request.  A request line that is cut before its second space has no
\* path, and is no error.
Parse(b, is_proxy) ==
  LET ends == {i \in 3..Len(b) : b[i] = END}
      end == CHOOSE i \in ends : \A j \in ends : i <= j
      line_ok == /\ Len(b) >= 2
                 /\ b[1] \in {GET, CONNECT}
                 /\ IF is_proxy THEN b[1] = CONNECT \/ b[2] \in Urls
                                ELSE b[1] # CONNECT /\ b[2] \in Paths
  IN  IF ~line_ok \/ (Len(b) > 2 /\ (b[3] # VERSION \/ ends = {} \/ end = 4))
        THEN [ok |-> FALSE]
      ELSE IF Len(b) = 2
        THEN [ok |-> TRUE, method |-> b[1], path |-> 0, headers |-> <<>>, body_start_index |-> 0]
      ELSE [ok |-> TRUE, method |-> b[1], path |-> b[2], headers |-> SubSeq(b, 4, end - 1),
            body_start_index |-> end - 3]  \* it counts from the end of the request line

-----------------------------------------------------------------------------
(* http_proxy::Server::handshake *)

\* The headers that are looked at.  The password is cut out of the decoded value
\* up to n, the length of the request, which is longer: a panic.
AuthFails(r) ==
  LET seen == {i \in DOMAIN r.headers : r.headers[i] \in {AUTH_HEADER_SPACE, BAD_AUTH_HEADER}}
      first == CHOOSE i \in seen : \A j \in seen : i <= j
  IN  [panic |-> seen # {} /\ r.headers[first] = AUTH_HEADER_SPACE]

Http(b) ==
  LET r == Parse(b, TRUE) IN
  IF ~r.ok THEN Return(Ebc(b)) /\ UNCHANGED down
  ELSE IF ses.users # {} THEN
    Return(IF AuthFails(r).panic THEN Panicked ELSE Ebc(b)) /\ UNCHANGED down
  ELSE IF r.method = CONNECT THEN
    /\ down' = down \o CONNECT_REPLY
    /\ Return(NewC(IF r.path = 0 THEN EmptyName ELSE <<r.path>>, <<>>, NoUser))
  ELSE IF ses.only_connect \/ r.path = 0 THEN Return(Ebc(b)) /\ UNCHANGED down
  ELSE Return(NewC(<<r.path>>, Take(b, r.body_start_index), NoUser)) /\ UNCHANGED down

ReadHttp ==
  /\ \/ /\ pc = "given" \/ (pc = "http" /\ ses.pre # <<>>)
        /\ Http(buf)
        /\ UNCHANGED <<up, cuts>>
     \/ /\ pc = "http" /\ ses.pre = <<>>
        /\ \E k \in Takes(up, Len(buf), ClientClosed) : Http(Take(up, k)) /\ Consume(k, Len(buf))
  /\ UNCHANGED <<ses, clientVars, loc>>

-----------------------------------------------------------------------------
(* http_filter::Server::maps: the request is handed on with the stream.  What *)
(* the map before it has read is not looked at.                               *)

Filter(b) ==
  LET r == Parse(b, FALSE)
      host_ok == \E i \in DOMAIN r.headers : r.headers[i] = HOST_HEADER
  IN  IF ~r.ok THEN Return(Err)
      ELSE IF ses.only_path # 0 /\ (~host_ok \/ r.path # ses.only_path) THEN Return(Ebc(b))
      ELSE Return(NewC(NoAddr, b, NoUser))

ReadFilter ==
  /\ pc = "filter"
  /\ \E k \in Takes(up, Len(buf), ClientClosed) : Filter(Take(up, k)) /\ Consume(k, Len(buf))
  /\ UNCHANGED <<ses, down, clientVars, loc>>

HttpNext == ReadHttp \/ ReadFilter
=============================================================================
