--------------------------- MODULE MCSessionHeaders ---------------------------
(* A session made with or without headers, and the headers of its requests. *)
EXTENDS MCOptions

VARIABLE input

Sessions ==
    SessionsWithHeaders
        \cup {[s EXCEPT !.hasHeaders = FALSE] : s \in {t \in SessionsWithHeaders : t.headers = <<>>}}

MCInit == input \in [session : Sessions, adapter : OptionsBy("a", {NoFields}), request : StaticRequests]
MCSpec == MCInit /\ [][UNCHANGED input]_input

\* A session merges its headers with those of a request, also when it has none.
\* (FetcherSession.mergeOptions)
HeadersMerged == RequestHeadersAreMerged(input.session, input.adapter, input.request)
=============================================================================
