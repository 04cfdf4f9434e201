----------------------------- MODULE MCHttpReceive -----------------------------
(***************************************************************************)
(* Small instances of HttpReceive.  The limits keep the order they have in *)
(* the code: a URL fits into the header bytes, and several headers do.     *)
(***************************************************************************)
EXTENDS HttpReceive

Header(name, value, size) ==
  [name |-> name, value |-> value, name_size |-> 1, value_size |-> size]

Request(method, url, url_size, headers, length, body, trailers) ==
  [method |-> method, method_size |-> 1, url |-> url, url_size |-> url_size,
   headers |-> headers, content_length |-> length, body |-> body,
   trailers |-> trailers]

Valid == Header("authorization", "valid", 1)
Wrong == Header("authorization", "wrong", 1)
Json == Header("content-type", "json", 2)
Text == Header("content-type", "text", 2)
Other(size) == Header("other", "", size)

\* Every header list of at most two headers of these, and one of three.
HeaderLists ==
  LET headers == {Valid, Wrong, Json, Other(0), Other(5), Header("expect", "100", 1),
                  Header("content-encoding", "gzip", 1),
                  Header("content-encoding", "identity", 1)}
  IN {<<>>, <<Valid, Json, Other(0)>>} \cup {<<h>> : h \in headers}
       \cup {<<g, h>> : g, h \in headers}

\* A request without a body, and, after an authorized head, bodies of a declared
\* or unknown length around the limit and trailers.
MCRequests ==
  {Request("GET", url, 2, headers, 0, 0, <<>>) :
     url \in {"/ui", "/healthz"}, headers \in HeaderLists}
    \cup {Request("POST", "/v1/systemone", 3, <<Valid, Json>>, length, body, <<>>) :
            length \in {0, 3, 4}, body \in {3, 4}}
    \cup {Request("POST", "/v1/systemone", 2, <<Valid>>, 0, 2, trailers) :
            trailers \in {<<Wrong>>, <<Json, Json>>, <<Json, Other(3)>>}}
    \cup {Request("POST", "/v1/systemone", 2, headers, 0, 2, <<Text>>) :
            headers \in {<<Json>>, <<Valid>>}}
    \cup {Request(method, url, size, <<>>, 0, 1, <<>>) :
            method \in {"GET", "POST"}, url \in {"/ui", "/healthz"}, size \in {3, 4}}
==============================================================================
